------------------------------ MODULE AppUpdate ------------------------------
(***************************************************************************)
(* What an update promises the owner of a board, however often it is       *)
(* interrupted and repeated.  A flashboot that verifies what it starts     *)
(* runs the old app, then either nothing or the new app: no mixture of the *)
(* two, and the old app, once gone, does not come back.  One that jumps to *)
(* the app unconditionally promises nothing of the kind: whatever bytes    *)
(* are there are run.  The finished update runs the new app on both, for   *)
(* good.                                                                   *)
(***************************************************************************)
VARIABLES
  verifies,  \* does this board's flashboot check the hash of what it starts?
  runs,      \* what it would start now: "old", "new", "none" or "broken"
  finished

vars == <<verifies, runs, finished>>

Init == verifies \in BOOLEAN /\ runs = "old" /\ ~finished

(* The flash is erased, by the first attempt or by a repeated one.         *)
TakeDown == verifies /\ ~finished /\ runs' = "none" /\ UNCHANGED <<verifies, finished>>

BringUp ==
  /\ verifies /\ ~finished /\ runs = "none" /\ runs' = "new"
  /\ UNCHANGED <<verifies, finished>>

(* Erased or programmed in part, the app is started all the same.          *)
Jump ==
  /\ ~verifies /\ ~finished /\ runs' \in {"old", "new", "broken"}
  /\ UNCHANGED <<verifies, finished>>

Finish == ~finished /\ runs = "new" /\ finished' = TRUE /\ UNCHANGED <<verifies, runs>>

Next == TakeDown \/ BringUp \/ Jump \/ Finish

Spec == Init /\ [][Next]_vars
=============================================================================
