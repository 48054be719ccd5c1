---------------------------- MODULE FwpkgPromise ----------------------------
(***************************************************************************)
(* What the fwpkg format promises two tools that hand a package over.  The *)
(* reader is told that there is nothing to be had, or gets the writer's    *)
(* partitions: all of them, in order and intact, when the sum confirms     *)
(* them.  When it does not, the reader may still go on, and its report     *)
(* must say so; even then it has the package but for one partition, or the *)
(* first partitions of it.                                                 *)
(***************************************************************************)
EXTENDS SequencesExt

VARIABLES
  sent,    \* the writer's partitions
  answer,  \* "pending", "confirmed", "doubtful" or "refused"
  got      \* the partitions the reader has taken over: none before an answer

vars == <<sent, answer, got>>

Init == answer = "pending" /\ got = << >>

Confirm == answer = "pending" /\ answer' = "confirmed" /\ got' = sent /\ UNCHANGED sent

AllButOne(s, t) ==
  Len(s) = Len(t) /\ \E k \in 1..Len(t) : \A l \in 1..Len(t) : l # k => s[l] = t[l]

Doubt ==
  /\ answer = "pending" /\ answer' = "doubtful"
  /\ AllButOne(got', sent) \/ IsPrefix(got', sent)
  /\ UNCHANGED sent

Refuse == answer = "pending" /\ answer' = "refused" /\ UNCHANGED <<sent, got>>

Next == Confirm \/ Doubt \/ Refuse

Spec == Init /\ [][Next]_vars
=============================================================================
