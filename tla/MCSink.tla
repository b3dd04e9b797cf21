------------------------------- MODULE MCSink -------------------------------
(***************************************************************************)
(* Small instances of Sink. One session is streamed by a client that       *)
(* revises a chunk, repeats seqs with other contents and names two         *)
(* hiveminds; a second session is there to be kept apart from it.          *)
(***************************************************************************)
EXTENDS Sink

MCChunk(k, q, r, s, h, t, f) ==
  [key |-> k, seq |-> q, revises |-> r, speaker |-> s, hive |-> h,
   text |-> t, final |-> f]

MCKey == {"s1", "s2"}
MCHive == {"h1", "h2"}

\* hello and hullo contend for seq 0; help revises seq 0; help and bye both say
\* they are final, in either order.
MCStreamed == {
  MCChunk("s1", 0, NoRev, 1, "h1", "hello", FALSE),
  MCChunk("s1", 0, NoRev, 1, "h2", "hullo", FALSE),
  MCChunk("s1", 1, 0, 1, "h1", "help", TRUE),
  MCChunk("s1", 2, NoRev, 2, "h1", "bye", TRUE)}
MCOther == {MCChunk("s2", 1, NoRev, 1, "h1", "alone", TRUE)}
MCChunks == MCStreamed \cup MCOther

\* A smaller stock for the runs in which saves fail before the rename, too.
MCFewChunks == {
  MCChunk("s1", 0, NoRev, 1, "h1", "hello", FALSE),
  MCChunk("s1", 0, NoRev, 1, "h1", "hullo", FALSE),
  MCChunk("s1", 1, 0, 2, "h1", "bye", TRUE)}
MCOneHive == {"h1"}

\* A finished transcript, and one whose content is what the sink assembles.
MCUpload == {
  [key |-> "s2", hive |-> "h1", created |-> "alone",
   segments |-> <<[speaker |-> 1, texts |-> <<"alone">>]>>, count |-> 1]}
=============================================================================
