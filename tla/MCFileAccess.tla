----------------------------- MODULE MCFileAccess -----------------------------
(***************************************************************************)
(* FileAccess with two nodes, two files and a table of five entries.       *)
(***************************************************************************)
EXTENDS FileAccess

MCHwIds == {"n1", "n2"}
MCSwIds == {1, 2}
=============================================================================
