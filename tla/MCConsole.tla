----------------------------- MODULE MCConsole -----------------------------
(* A typed line, then two files, one that includes another and one that is
   missing; the last line ends in an error. *)
EXTENDS Console

MCFiles == [a |-> <<Include(<<"b">>), Text("wrong")>>, b |-> <<Blank, Text("says")>>]
MCTyped == <<Text("prints"), Include(<<"a", "c">>)>>
MCOutput == "prints" :> <<Said("prints"), NL>> @@ "says" :> <<Said("says")>> @@ "wrong" :> <<>>
MCFails == {"wrong"}

ASSUME MCExpands ==
    \A f \in DOMAIN Files :
        Expansion[f] \in Seq(STRING) /\ Expansion[f] = AllLines(Files[f], Expansion)

\* The target knows what is typed, and says nothing of an empty line.
ASSUME MCUnderstood ==
    /\ \A i \in DOMAIN TypedLines : TypedLines[i] \in DOMAIN Output
    /\ "" \in DOMAIN Output =>
         "" \notin Fails /\ \A i \in DOMAIN Output[""] : Output[""][i] = NL
=============================================================================
