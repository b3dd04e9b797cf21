----------------------------- MODULE MCUploadCli ----------------------------
(***************************************************************************)
(* Two upload commands at the user's first use, with a file in common; of  *)
(* the other two files one cannot be parsed and one is too large.          *)
(***************************************************************************)
EXTENDS UploadCli

MCCommand == {"c1", "c2"}
MCFile == {"talk", "notes", "film"}
MCConvertible == {"talk", "film"}
MCOversized == {"film"}
MCPaths == [c \in MCCommand |->
  CASE c = "c1" -> <<"notes", "talk">> [] c = "c2" -> <<"talk", "film">>]
MCTranscripts == [file : MCFile, author : MCCommand]
=============================================================================
