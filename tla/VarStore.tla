------------------------------- MODULE VarStore -------------------------------
(***************************************************************************)
(* What RomVars promises: an array of variables that a power cycle leaves  *)
(* as they are.  They change one at a time: the one that a set() under way *)
(* is for gets the value that set() was called with, once, no later than   *)
(* that call returns, and no other variable changes.  When the power fails *)
(* before, it stays as it was.  The promise ends at an event after which   *)
(* the variables are no longer sound: RomVars names it.                    *)
(***************************************************************************)
CONSTANTS
  Index, Word, Empty,
  NoRequest     \* no set() is under way: none of Requests

VARIABLES value, request, power, sound

vars == <<value, request, power, sound>>

Requests == [index : Index, val : Word]

Init ==
  /\ value = [i \in Index |-> Empty]
  /\ request = NoRequest
  /\ power = "off"
  /\ sound = TRUE

PowerUp == power = "off" /\ power' = "on" /\ UNCHANGED <<value, request, sound>>

(* What a set() under way has not done by then is dropped.                  *)
PowerDown ==
  /\ power = "on" /\ power' = "off"
  /\ request' = NoRequest
  /\ UNCHANGED <<value, sound>>

(* set() is called.                                                         *)
Set(i, w) ==
  /\ power = "on" /\ request = NoRequest
  /\ request' = [index |-> i, val |-> w]
  /\ UNCHANGED <<value, power, sound>>

(* The variable gets its new value, at the end of the call or before.       *)
Commit ==
  /\ power = "on" /\ request # NoRequest
  /\ value' = [value EXCEPT ![request.index] = request.val]
  /\ request' \in {request, NoRequest}
  /\ UNCHANGED <<power, sound>>

(* set() returns, and the variable has the new value.                       *)
Return ==
  /\ power = "on" /\ request # NoRequest
  /\ value[request.index] = request.val
  /\ request' = NoRequest
  /\ UNCHANGED <<value, power, sound>>

(* What comes after that is any words, and calls in any order.              *)
Spoil == sound' = FALSE /\ value' \in [Index -> Word]

Next ==
  \/ PowerUp \/ PowerDown
  \/ \E i \in Index, w \in Word : Set(i, w)
  \/ Commit \/ Return
  \/ Spoil

Spec == Init /\ [][Next]_vars
=============================================================================
