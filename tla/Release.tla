------------------------------ MODULE Release ------------------------------
(* What a release promises: nothing is uploaded unless somebody asked for a *)
(* real release, the command line never comes before the library it needs, *)
(* and a release is reported only when both are there.                     *)
VARIABLES asked, published, reported

Init == asked = FALSE /\ published = {} /\ reported = FALSE

Ask == asked' = TRUE /\ UNCHANGED <<published, reported>>

PublishLib == asked /\ published = {} /\ published' = {"lib"} /\ UNCHANGED <<asked, reported>>

PublishCli ==
  asked /\ published = {"lib"} /\ published' = {"lib", "cli"} /\ UNCHANGED <<asked, reported>>

Report ==
  published = {"lib", "cli"} /\ reported' = TRUE /\ UNCHANGED <<asked, published>>

Next == Ask \/ PublishLib \/ PublishCli \/ Report

Spec == Init /\ [][Next]_<<asked, published, reported>>
=============================================================================
