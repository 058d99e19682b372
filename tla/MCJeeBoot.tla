------------------------------- MODULE MCJeeBoot -------------------------------
(***************************************************************************)
(* Small instances of JeeBoot.  Units are strings; a page has four units,  *)
(* the vector slots are 1, 2 and 3 (1, 6 and 7 in the code), a full fetch  *)
(* reply three.  HelloLen equals the length of a fetch reply with two      *)
(* units, so that a loader can also take one for the other.                *)
(***************************************************************************)
EXTENDS JeeBoot

MCUnit == {"0", "ff", "ldr", "sum", "boot", "junk",
           "a0", "a1", "a4", "b0", "b1", "b4", "b5"}

\* Five units: a full chunk and one of two, the second page needs padding.
FileA == <<"a0", "a1", "0", "0", "a4">>
\* Eight units: two full chunks and one of two, two pages exactly.
FileB == <<"b0", "b1", "0", "0", "b4", "b5", "ff", "b4">>

OneNode == {"n1"}
OneAssign == [n \in OneNode |-> "s1"]
OneSwId == {"s1"}

VersionsAB == [s \in OneSwId |-> {FileA, FileB}]
=============================================================================
