----------------------------- MODULE MCReading ------------------------------
(***************************************************************************)
(* One session of two chunks, the final one first or last, and finished    *)
(* transcripts, one of them of the same session, so that a reader may tail *)
(* it before it is assembled. Stamps of one second in all forms.           *)
(***************************************************************************)
EXTENDS Reading

At(second, tenth, utc) == [second |-> second, tenth |-> tenth, utc |-> utc]
Whole == At(1, 0, "Z")
Half == At(1, 5, "Z")
Offset == At(1, 0, "+00:00")
Later == At(2, 0, "Z")
MCStamp == {Whole, Half, Offset, Later}

MCKey == {"s1", "s2"}
MCHive == {"h1"}
MCChunks == {
  [key |-> "s1", seq |-> 0, revises |-> NoRev, speaker |-> 1, hive |-> "h1",
   text |-> [words |-> 0, at |-> Half], final |-> TRUE],
  [key |-> "s1", seq |-> 1, revises |-> NoRev, speaker |-> 1, hive |-> "h1",
   text |-> [words |-> 1, at |-> Whole], final |-> FALSE]}

Posted(k, words, at) ==
  [key |-> k, hive |-> "h1", created |-> [words |-> words, at |-> at],
   segments |-> <<>>, count |-> 0]
MCUpload == {Posted("s1", 2, Offset), Posted("s2", 3, Half), Posted("s2", 4, Offset)}

\* Ids are hashes: any order will do.
MCIdRank(d) == 10 * d.created.words + d.count

\* What clients of the write path were told is history: no action reads it and no
\* property of this run speaks of it, so states that differ in it are one.
WithoutAnswers ==
  <<storeVars, pc, key, hive, prevSeq, current, doc, tokenVars, reader>>
=============================================================================
