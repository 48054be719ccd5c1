------------------------------ MODULE Publish ------------------------------
(***************************************************************************)
(* The release workflow.  Nothing keeps two of its runs from going on at   *)
(* once (a tag is pushed while somebody dispatches it by hand): each is a  *)
(* job here, and they share a registry.  The registry lists a new version  *)
(* in its index some time after the upload; the library's is what the      *)
(* command line's publication waits for.  Time goes by in steps of a       *)
(* `sleep 30`; a call may take any number of them.                         *)
(***************************************************************************)
EXTENDS Naturals

CONSTANTS
  Jobs,
  Tries,              \* how often pub() calls cargo
  MaxDelay, MaxFaults \* bounds

ASSUME PublishAssumption == Tries \in Nat \ {0} /\ MaxDelay \in Nat /\ MaxFaults \in Nat

VARIABLES
  jobs,      \* job -> [pc, dry, crate, tries, hit]: see JobType
  uploaded,  \* the crates the registry has
  lag,       \* how long the library will still be missing from the index
  delay,     \* what lag was at first
  faults

vars == <<jobs, uploaded, lag, delay, faults>>

Crates == {"lib", "cli"}

(* tries: failed calls for this crate; hit: a fault has met this run.      *)
JobType ==
  [pc: {"idle", "checks", "dry", "call", "sent", "sleep", "awake", "green", "red"},
   dry: BOOLEAN, crate: Crates, tries: 0..Tries, hit: BOOLEAN]

Init ==
  /\ jobs = [j \in Jobs |->
               [pc |-> "idle", dry |-> TRUE, crate |-> "lib", tries |-> 0, hit |-> FALSE]]
  /\ uploaded = {} /\ delay \in 0..MaxDelay /\ lag = delay /\ faults = 0

At(j, pc) == jobs[j].pc = pc

GoTo(j, pc) == jobs' = [jobs EXCEPT ![j].pc = pc]

Registry == <<uploaded, lag, delay>>

(* The DRY variable: only a dispatched run can be dry, and is by default.   *)
Trigger(j, event, dry_run) ==
  /\ At(j, "idle")
  /\ jobs' = [jobs EXCEPT ![j].pc = "checks",
                          ![j].dry = (event = "workflow_dispatch" /\ dry_run)]
  /\ UNCHANGED <<Registry, faults>>

Checks(j) ==
  /\ At(j, "checks") /\ GoTo(j, IF jobs[j].dry THEN "dry" ELSE "call")
  /\ UNCHANGED <<Registry, faults>>

(* Packaging and checking, no upload.                                      *)
DryRun(j) == At(j, "dry") /\ GoTo(j, "green") /\ UNCHANGED <<Registry, faults>>

-----------------------------------------------------------------------------
(* pub(): calls of cargo publish, as they are answered.                    *)
Indexed == "lib" \in uploaded /\ lag = 0

Answer(crate) ==
  IF crate \in uploaded THEN "already uploaded"
  ELSE IF crate = "cli" /\ ~Indexed THEN "no matching package"
  ELSE "ok"

(* A bug to be caught: no pause before the command line is published.      *)
Succeed_NoPause(j) ==
  IF jobs[j].crate = "lib"
  THEN jobs' = [jobs EXCEPT ![j].pc = "call", ![j].crate = "cli", ![j].tries = 0]
  ELSE GoTo(j, "green")

(* pub returns 0: the library is given time to be indexed, then comes the  *)
(* command line.                                                           *)
Succeed(j) ==
  IF jobs[j].crate = "lib"
  THEN jobs' = [jobs EXCEPT ![j].pc = "sleep", ![j].crate = "cli", ![j].tries = 0]
  ELSE GoTo(j, "green")

(* cargo has uploaded the crate, but not returned yet.                     *)
Upload(j) ==
  /\ At(j, "call") /\ Answer(jobs[j].crate) = "ok"
  /\ uploaded' = uploaded \cup {jobs[j].crate}
  /\ GoTo(j, "sent") /\ UNCHANGED <<lag, delay, faults>>

Uploaded(j) == At(j, "sent") /\ Succeed(j) /\ UNCHANGED <<Registry, faults>>

(* A bug to be caught: an upload that was made before counts as a failure. *)
AlreadyUploaded_Red(j) ==
  /\ At(j, "call") /\ Answer(jobs[j].crate) = "already uploaded"
  /\ GoTo(j, "red") /\ UNCHANGED <<Registry, faults>>

AlreadyUploaded(j) ==
  /\ At(j, "call") /\ Answer(jobs[j].crate) = "already uploaded"
  /\ Succeed(j) /\ UNCHANGED <<Registry, faults>>

Retry(j, hit) ==
  jobs' = [jobs EXCEPT ![j].pc = "sleep", ![j].tries = @ + 1, ![j].hit = @ \/ hit]

NotIndexed(j) ==
  /\ At(j, "call") /\ Answer(jobs[j].crate) = "no matching package"
  /\ Retry(j, FALSE) /\ UNCHANGED <<Registry, faults>>

(* A bug to be caught: one try too many.                                   *)
Wake_OneMore(j) ==
  /\ At(j, "awake") /\ GoTo(j, IF jobs[j].tries > Tries THEN "red" ELSE "call")
  /\ UNCHANGED <<Registry, faults>>

(* The loop sleeps after its last try, too.                                *)
Wake(j) ==
  /\ At(j, "awake") /\ GoTo(j, IF jobs[j].tries = Tries THEN "red" ELSE "call")
  /\ UNCHANGED <<Registry, faults>>

-----------------------------------------------------------------------------
Hit == faults < MaxFaults /\ faults' = faults + 1 /\ UNCHANGED Registry

Calling(j) == jobs[j].pc \in {"call", "sent"}

(* A bug to be caught: without pipefail the result is that of tee.         *)
CallFails_NoPipefail(j) == Calling(j) /\ Hit /\ Succeed(j)

(* A call fails with a message the loop does not know, and the upload may   *)
(* have been made all the same.                                            *)
CallFails(j) ==
  /\ Calling(j) /\ Hit
  /\ jobs' = [jobs EXCEPT ![j].pc = "red", ![j].hit = TRUE]

(* The index cannot resolve a dependency it has.                           *)
IndexFails(j) == At(j, "call") /\ Hit /\ Retry(j, TRUE)

(* A check or the dry run fails, or the runner is lost.                    *)
Stopped(j) ==
  /\ jobs[j].pc \in {"checks", "dry", "sleep", "awake"} /\ Hit
  /\ jobs' = [jobs EXCEPT ![j].pc = "red", ![j].hit = TRUE]

(* Somebody runs a failed job again.                                       *)
Rerun(j) ==
  /\ At(j, "red")
  /\ jobs' = [jobs EXCEPT ![j].pc = "checks", ![j].crate = "lib", ![j].tries = 0,
                          ![j].hit = FALSE]
  /\ UNCHANGED <<Registry, faults>>

Tick ==
  /\ (\E j \in Jobs : At(j, "sleep")) \/ ("lib" \in uploaded /\ lag > 0)
  /\ jobs' = [j \in Jobs |-> IF At(j, "sleep") THEN [jobs[j] EXCEPT !.pc = "awake"] ELSE jobs[j]]
  /\ lag' = IF "lib" \in uploaded /\ lag > 0 THEN lag - 1 ELSE lag
  /\ UNCHANGED <<uploaded, delay, faults>>

Over == (\A j \in Jobs : At(j, "green")) /\ UNCHANGED vars

JobStep(j) == Checks(j) \/ DryRun(j) \/ Upload(j) \/ Uploaded(j) \/ AlreadyUploaded(j)
                \/ NotIndexed(j) \/ Wake(j) \/ Rerun(j)

Next ==
  \/ \E j \in Jobs :
       \/ \E event \in {"push", "workflow_dispatch"}, dry_run \in BOOLEAN :
            Trigger(j, event, dry_run)
       \/ JobStep(j) \/ CallFails(j) \/ IndexFails(j) \/ Stopped(j)
  \/ Tick \/ Over

(* Steps are taken, sleeps end, and somebody does run a failed job again.  *)
Spec == Init /\ [][Next]_vars /\ WF_vars(Tick) /\ \A j \in Jobs : WF_vars(JobStep(j))

-----------------------------------------------------------------------------
Asked == \E j \in Jobs : ~jobs[j].dry

Reported == \E j \in Jobs : At(j, "green") /\ ~jobs[j].dry

Promise == INSTANCE Release WITH asked <- Asked, published <- uploaded, reported <- Reported

(* The types of jobs and registry.                                         *)
PublishTypeOK ==
  /\ jobs \in [Jobs -> JobType]
  /\ uploaded \subseteq Crates /\ delay \in 0..MaxDelay /\ lag \in 0..delay
  /\ faults \in 0..MaxFaults

(* Whatever fails, and however two jobs meet: a dry run uploads nothing,    *)
(* the library is first, and a release job is green only when both crates  *)
(* are in the registry.                                                    *)
KeepsTheReleasePromise == Promise!Spec

(* A job that no fault has met goes red only when the index took longer    *)
(* than all the tries: a lag of six pauses is still waited for, although   *)
(* another job may have made the upload.                                   *)
RedForAReason == \A j \in Jobs : At(j, "red") /\ ~jobs[j].hit => delay > Tries

(* "Idempotent": wherever it failed, running the job again is the remedy.   *)
(* Every release that was asked for is completed and reported.             *)
ReleaseCompletes ==
  \A j \in Jobs : (~jobs[j].dry) ~> (At(j, "green") /\ uploaded = Crates)
=============================================================================
