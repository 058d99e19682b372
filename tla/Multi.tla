------------------------------- MODULE Multi -------------------------------
(***************************************************************************)
(* The cooperative multitasker for Mecrisp Forth (multi.fs, multi-irq.fs): *)
(* a circular list of tasks, each with a flag that says whether it is      *)
(* active.  The running task may do anything with the list, an interrupt   *)
(* may wake and idle tasks at any time, and (pause) goes from task to task *)
(* until it meets an active one.  What the tasks do is left open here.     *)
(***************************************************************************)

CONSTANTS
    Tasks,
    Boot            \* boot-task

VARIABLES
    up,             \* the current task
    nxt,            \* pointer to the next task of each task
    active,         \* tasks whose task-state is true
    hopping,        \* (pause) is looking for the next active task
    ring            \* history: tasks inserted and not removed

multiVars == <<up, nxt, active, hopping, ring>>

ASSUME BootAssumption == Boot \in Tasks

MultiInit ==
    /\ up = Boot /\ hopping = FALSE
    /\ nxt = [t \in Tasks |-> Boot]     \* of the others, never read
    /\ active = {Boot}
    /\ ring = {Boot}

\* The tasks that one meets from the current one on.
Closed(S) == \A t \in S : nxt[t] \in S
Met == {t \in Tasks : \A S \in SUBSET Tasks : up \in S /\ Closed(S) => t \in S}

\* task-in-list? goes on until it is back at the current task, which it never is
\* when the current task has removed itself.
Listed == up \in ring
taskInList(t) == t \in Met

\* The first task met that points to t.
previousUp(t) == up     \* mutant: the current task is taken for it
previous(t) == IF nxt[up] = t THEN up ELSE CHOOSE p \in Met : nxt[p] = t

insertShort(t) ==       \* mutant: the new task points back to the current one
    /\ ~hopping /\ Listed
    /\ nxt' = IF taskInList(t) THEN nxt ELSE [nxt EXCEPT ![t] = up, ![up] = t]
    /\ ring' = ring \cup {t}
    /\ UNCHANGED <<up, hopping>>
insert(t) ==
    /\ ~hopping /\ Listed
    /\ nxt' = IF taskInList(t) THEN nxt ELSE [nxt EXCEPT ![t] = nxt[up], ![up] = t]
    /\ ring' = ring \cup {t}
    /\ UNCHANGED <<up, hopping>>

\* A task that is alone stays.
remove(t) ==
    /\ ~hopping /\ Listed
    /\ nxt' = IF taskInList(t) THEN [nxt EXCEPT ![previous(t)] = nxt[t]] ELSE nxt
    /\ ring' = IF ring = {t} THEN ring ELSE ring \ {t}
    /\ UNCHANGED <<up, active, hopping>>

activate(t) == insert(t) /\ active' = active \cup {t}
background(t) == insert(t) /\ active' = active \ {t}

wake(t) == active' = active \cup {t}
idle(t) == active' = active \ {t}

\* will-stop and wont-stop are idle and wake for the current task; stop is will-stop
\* and pause, with a gap between them.
willStop == ~hopping /\ idle(up)

pause ==
    /\ ~hopping
    /\ hopping' = TRUE
    /\ UNCHANGED <<up, nxt, active, ring>>
Hop ==
    /\ hopping
    /\ up' = nxt[up]
    /\ hopping' = (up' \notin active)
    /\ UNCHANGED <<nxt, active, ring>>

MultiNext ==
    \/ pause \/ Hop
    \/ \E t \in Tasks :
        \/ remove(t) \/ activate(t) \/ background(t)
        \/ (insert(t) /\ UNCHANGED active)
        \/ ((wake(t) \/ idle(t)) /\ UNCHANGED <<up, nxt, hopping, ring>>)
MultiSpec == MultiInit /\ [][MultiNext]_multiVars
-----------------------------------------------------------------------------
(* Properties. *)

\* Types.
MultiTypeOK ==
    /\ up \in Tasks /\ nxt \in [Tasks -> Tasks] /\ active \subseteq Tasks
    /\ hopping \in BOOLEAN /\ ring \subseteq Tasks

\* Whoever inserts and removes what in which order, itself included: the list is
\* one circle through exactly the tasks that were inserted and not removed, so
\* that (pause) comes to every one of them; and a task that has removed itself
\* still points there.
RingExact ==
    /\ Closed(ring) /\ nxt[up] \in ring
    /\ \A S \in SUBSET ring : S # {} /\ Closed(S) => S = ring
    /\ \A p, q \in ring : nxt[p] = nxt[q] => p = q
=============================================================================
