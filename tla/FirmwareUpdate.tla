---------------------------- MODULE FirmwareUpdate ----------------------------
(***************************************************************************)
(* What over-the-air updating promises for each node: its flash goes       *)
(* through arbitrary intermediate contents, but only while no application  *)
(* runs, and an application that runs is a whole one that was published    *)
(* for this node.                                                          *)
(***************************************************************************)
CONSTANTS
  Nodes,
  Approved,  \* [Nodes -> set of files published for the node's software]
  Partial    \* a flash content which is none of these

VARIABLES
  image,     \* what the flash of each node holds
  running    \* whether its application runs

Init ==
  /\ image \in [Nodes -> {Partial} \union UNION {Approved[n] : n \in Nodes}]
  /\ running = [n \in Nodes |-> FALSE]

Rewrite(n) ==
  /\ ~running[n]
  /\ \E content \in {Partial} \union Approved[n] :
       image' = [image EXCEPT ![n] = content]
  /\ UNCHANGED running

Launch(n) ==
  /\ ~running[n]
  /\ image[n] \in Approved[n]
  /\ running' = [running EXCEPT ![n] = TRUE]
  /\ UNCHANGED image

PowerCycle(n) ==
  /\ running' = [running EXCEPT ![n] = FALSE]
  /\ UNCHANGED image

Next == \E n \in Nodes : Rewrite(n) \/ Launch(n) \/ PowerCycle(n)

Spec == Init /\ [][Next]_<<image, running>>
=============================================================================
