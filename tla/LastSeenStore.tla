---------------------------- MODULE LastSeenStore ----------------------------
(***************************************************************************)
(* What the last-seen store promises the runs of the commands that use it, *)
(* one run after the other: a run starts from the map the store holds (or  *)
(* cannot open the store at all and ends), raises the times of its chats   *)
(* in its own copy, and puts its whole copy back in one step.  Saving is   *)
(* atomic here: no run ever sees a map that is half written.               *)
(***************************************************************************)
EXTENDS Naturals

CONSTANTS Chats, Procs, MaxTime

Maps == [Chats -> 0..MaxTime]

VARIABLES
    saved,  \* the map the store holds
    view,   \* each run's copy
    run     \* each run: "new", "active" or "ended"

vars == <<saved, view, run>>

\* Every earlier run has ended: the runs do not overlap.
Turn(p) == \A q \in Procs : q < p => run[q] = "ended"

Init ==
    /\ saved \in Maps
    /\ view = [p \in Procs |-> [c \in Chats |-> 0]]
    /\ run = [p \in Procs |-> "new"]

\* A run opens the store and copies what it holds.
Start(p) ==
    /\ run[p] = "new" /\ Turn(p)
    /\ run' = [run EXCEPT ![p] = "active"]
    /\ view' = [view EXCEPT ![p] = saved]
    /\ UNCHANGED saved

\* A run cannot open the store and ends at once.
Refuse(p) ==
    /\ run[p] = "new" /\ Turn(p)
    /\ run' = [run EXCEPT ![p] = "ended"]
    /\ UNCHANGED <<saved, view>>

\* A run learns of a later message in chat c.
Advance(p, c, ts) ==
    /\ run[p] = "active"
    /\ ts > view[p][c]
    /\ view' = [view EXCEPT ![p][c] = ts]
    /\ UNCHANGED <<saved, run>>

\* A run puts its copy back.
Save(p) ==
    /\ run[p] = "active"
    /\ saved' = view[p]
    /\ UNCHANGED <<view, run>>

\* A run ends: it has finished, failed or was killed.
End(p) ==
    /\ run[p] = "active"
    /\ run' = [run EXCEPT ![p] = "ended"]
    /\ UNCHANGED <<saved, view>>

Next ==
    \E p \in Procs :
        \/ Start(p) \/ Refuse(p) \/ Save(p) \/ End(p)
        \/ \E c \in Chats, ts \in 1..MaxTime : Advance(p, c, ts)

Spec == Init /\ [][Next]_vars
=============================================================================
