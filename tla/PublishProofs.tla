--------------------------- MODULE PublishProofs ---------------------------
(***************************************************************************)
(* Proofs about the release workflow, for any number of jobs, of tries and *)
(* of faults, and any lag of the index.  A job that no fault has met knows *)
(* how much time has gone by since the upload: Waited counts its pauses.   *)
(***************************************************************************)
EXTENDS Publish, TLAPS

(* Where a job may be, by what it has done.                                *)
Stage(j) ==
  /\ jobs[j].pc \in {"idle", "checks", "dry"} => jobs[j].tries = 0 /\ jobs[j].crate = "lib"
  /\ jobs[j].pc \in {"call", "sent"} => jobs[j].tries < Tries
  /\ jobs[j].pc = "idle" => jobs[j].dry
  /\ jobs[j].dry => jobs[j].pc \in {"idle", "checks", "dry", "green", "red"}
  /\ jobs[j].pc = "dry" => jobs[j].dry

(* What the registry must have for it.                                     *)
Backed(j) ==
  /\ jobs[j].crate = "cli" => "lib" \in uploaded
  /\ jobs[j].pc = "sent" => jobs[j].crate \in uploaded
  /\ jobs[j].pc = "green" /\ ~jobs[j].dry => uploaded = Crates

(* How long it has waited for the index.                                   *)
Waited(j) ==
  ~jobs[j].hit =>
    /\ jobs[j].crate = "lib" => jobs[j].tries = 0
    /\ jobs[j].tries > 0 => delay > jobs[j].tries
    /\ jobs[j].pc = "red" => jobs[j].tries = Tries
    /\ jobs[j].crate = "cli" /\ jobs[j].pc = "sleep" => lag = 0 \/ delay - lag >= jobs[j].tries
    /\ jobs[j].crate = "cli" /\ jobs[j].pc \in {"awake", "call"} =>
         lag = 0 \/ delay - lag > jobs[j].tries

(* The library first, and only when a release was asked for.               *)
Chain ==
  /\ "cli" \in uploaded => "lib" \in uploaded
  /\ uploaded # {} => Asked

IInv ==
  /\ PublishTypeOK
  /\ \A j \in Jobs : Stage(j) /\ Backed(j) /\ Waited(j)
  /\ Chain

-----------------------------------------------------------------------------
(* An action of one job that adds to the registry at most, and keeps what   *)
(* the invariant says of this job, keeps the invariant.                    *)
LEMMA OneJob ==
  ASSUME IInv, NEW j \in Jobs, NEW new \in JobType, jobs' = [jobs EXCEPT ![j] = new],
         uploaded \subseteq uploaded', uploaded' \subseteq Crates,
         UNCHANGED <<lag, delay>>, faults' \in 0..MaxFaults,
         Stage(j)', Backed(j)', Waited(j)',
         jobs[j].dry \/ ~new.dry,
         "cli" \in uploaded' => "lib" \in uploaded',
         uploaded' = uploaded \/ ~new.dry
  PROVE  IInv'
  <1>1. PublishTypeOK'
    BY DEF IInv, PublishTypeOK
  <1>2. ASSUME NEW k \in Jobs PROVE Stage(k)' /\ Backed(k)' /\ Waited(k)'
    <2>1. CASE k = j
      BY <2>1
    <2>2. CASE k # j
      <3>1. jobs'[k] = jobs[k]
        BY <2>2 DEF IInv, PublishTypeOK
      <3>2. uploaded = Crates => uploaded' = Crates
        OBVIOUS
      <3>3. Stage(k) /\ Backed(k) /\ Waited(k)
        BY DEF IInv
      <3> QED
        BY <3>1, <3>2, <3>3 DEF Stage, Backed, Waited
    <2> QED
      BY <2>1, <2>2
  <1>3. uploaded' # {} => Asked'
    <2> SUFFICES ASSUME uploaded' # {} PROVE \E k \in Jobs : ~jobs'[k].dry
      BY DEF Asked
    <2>1. jobs'[j] = new
      BY DEF IInv, PublishTypeOK
    <2>2. CASE ~new.dry
      BY <2>1, <2>2
    <2>3. CASE new.dry
      <3>1. PICK k \in Jobs : ~jobs[k].dry
        BY <2>3 DEF IInv, Chain, Asked
      <3>2. jobs'[k] = jobs[k]
        BY <2>3, <3>1 DEF IInv, PublishTypeOK
      <3> QED
        BY <3>1, <3>2
    <2> QED
      BY <2>2, <2>3
  <1> QED
    BY <1>1, <1>2, <1>3 DEF IInv, Chain

(* Nothing uploaded, nothing asked for.                                    *)
LEMMA Initially == Init => IInv
  <1> SUFFICES ASSUME Init PROVE IInv
    OBVIOUS
  <1>1. PublishTypeOK
    BY PublishAssumption DEF Init, PublishTypeOK, JobType, Crates
  <1>2. ASSUME NEW j \in Jobs PROVE Stage(j) /\ Backed(j) /\ Waited(j)
    BY DEF Init, Stage, Backed, Waited
  <1> QED
    BY <1>1, <1>2 DEF Init, IInv, Chain

(* What OneJob asks for, of an action that leaves the registry alone.      *)
LEMMA Alone ==
  ASSUME IInv, NEW j \in Jobs, NEW new \in JobType, jobs' = [jobs EXCEPT ![j] = new],
         UNCHANGED Registry, faults' \in 0..MaxFaults,
         Stage(j)', Backed(j)', Waited(j)',
         jobs[j].dry \/ ~new.dry
  PROVE  IInv'
  <1>1. UNCHANGED <<uploaded, lag, delay>>
    BY DEF Registry
  <1>2. uploaded \subseteq Crates /\ ("cli" \in uploaded => "lib" \in uploaded)
    BY DEF IInv, PublishTypeOK, Chain
  <1> QED
    BY <1>1, <1>2, OneJob

(* The steps a job takes by itself.                                        *)
LEMMA JobSteps ==
  ASSUME IInv, NEW j \in Jobs, JobStep(j)
  PROVE  IInv'
  <1>1. jobs[j] \in JobType /\ Stage(j) /\ Backed(j) /\ Waited(j) /\ PublishTypeOK
    BY DEF IInv, PublishTypeOK
  <1>2. /\ uploaded \subseteq Crates /\ delay \in Nat /\ lag \in Nat /\ lag <= delay
        /\ faults \in 0..MaxFaults /\ jobs \in [Jobs -> JobType]
    BY <1>1, PublishAssumption DEF PublishTypeOK
  <1> USE <1>1, <1>2, PublishAssumption
  <1> USE DEF At, GoTo, Registry, JobType, Crates
  <1>3. CASE Checks(j)
    <2> DEFINE new == [jobs[j] EXCEPT !.pc = IF jobs[j].dry THEN "dry" ELSE "call"]
    <2>1. new \in JobType /\ jobs' = [jobs EXCEPT ![j] = new]
      BY <1>3 DEF Checks
    <2>2. Stage(j)' /\ Backed(j)' /\ Waited(j)'
      BY <1>3 DEF Checks, Stage, Backed, Waited
    <2> QED
      BY <1>3, <2>1, <2>2, Alone DEF Checks
  <1>4. CASE DryRun(j)
    <2> DEFINE new == [jobs[j] EXCEPT !.pc = "green"]
    <2>1. new \in JobType /\ jobs' = [jobs EXCEPT ![j] = new]
      BY <1>4 DEF DryRun
    <2>2. Stage(j)' /\ Backed(j)' /\ Waited(j)'
      BY <1>4 DEF DryRun, Stage, Backed, Waited
    <2> QED
      BY <1>4, <2>1, <2>2, Alone DEF DryRun
  <1>5. CASE Upload(j)
    <2> DEFINE new == [jobs[j] EXCEPT !.pc = "sent"]
    <2>1. new \in JobType /\ jobs' = [jobs EXCEPT ![j] = new]
      BY <1>5 DEF Upload
    <2>2. /\ uploaded' = uploaded \cup {jobs[j].crate} /\ UNCHANGED <<lag, delay, faults>>
          /\ jobs[j].pc = "call"
      BY <1>5 DEF Upload
    <2>3. jobs'[j] = new
      BY <2>1
    <2>4. Stage(j)' /\ Backed(j)' /\ Waited(j)'
      BY <2>2, <2>3 DEF Stage, Backed, Waited
    <2>5. ~new.dry /\ ("cli" \in uploaded' => "lib" \in uploaded')
      BY <2>2 DEF IInv, Stage, Backed, Chain
    <2> QED
      BY <2>1, <2>2, <2>4, <2>5, OneJob
  <1>6. CASE Uploaded(j) \/ AlreadyUploaded(j)
    <2> DEFINE new == IF jobs[j].crate = "lib"
                      THEN [jobs[j] EXCEPT !.pc = "sleep", !.crate = "cli", !.tries = 0]
                      ELSE [jobs[j] EXCEPT !.pc = "green"]
    <2>1. new \in JobType
      <3>1. 0 \in 0..Tries
        OBVIOUS
      <3>2. CASE jobs[j].crate = "lib"
        BY <3>1, <3>2
      <3>3. CASE jobs[j].crate # "lib"
        BY <3>3
      <3> QED
        BY <3>2, <3>3
    <2>2. jobs' = [jobs EXCEPT ![j] = new] /\ UNCHANGED <<Registry, faults>>
      BY <1>6 DEF Uploaded, AlreadyUploaded, Succeed
    <2>3. jobs[j].pc \in {"call", "sent"} /\ jobs[j].crate \in uploaded
      BY <1>6 DEF Uploaded, AlreadyUploaded, Answer, Indexed, Backed
    <2>4. jobs'[j] = new
      BY <2>2
    <2>5. Stage(j)'
      BY <2>3, <2>4 DEF Stage
    <2>6. Backed(j)'
      BY <2>2, <2>3, <2>4 DEF Backed, IInv, Chain
    <2>7. Waited(j)'
      BY <2>2, <2>3, <2>4 DEF Waited
    <2> QED
      BY <2>1, <2>2, <2>5, <2>6, <2>7, Alone
  <1>7. CASE NotIndexed(j)
    <2> DEFINE new == [jobs[j] EXCEPT !.pc = "sleep", !.tries = @ + 1, !.hit = @ \/ FALSE]
    <2>1. jobs' = [jobs EXCEPT ![j] = new] /\ UNCHANGED <<Registry, faults>>
      BY <1>7 DEF NotIndexed, Retry
    <2>2. /\ jobs[j].pc = "call" /\ jobs[j].tries < Tries /\ ~jobs[j].dry
          /\ jobs[j].crate = "cli" /\ ~Indexed
      BY <1>7 DEF NotIndexed, Answer, Stage
    <2>3. new \in JobType
      <3>1. jobs[j].tries + 1 \in 0..Tries
        BY <2>2
      <3>2. (jobs[j].hit \/ FALSE) \in BOOLEAN
        OBVIOUS
      <3> QED
        BY <3>1, <3>2
    <2>4. jobs'[j] = new
      BY <2>1
    <2>5. Stage(j)' /\ Backed(j)'
      BY <2>1, <2>2, <2>4 DEF Stage, Backed
    <2>6. lag > 0
      BY <2>2 DEF Indexed, Backed
    <2>7. Waited(j)'
      BY <2>1, <2>2, <2>4, <2>6 DEF Waited
    <2> QED
      BY <2>1, <2>3, <2>5, <2>7, Alone
  <1>8. CASE Wake(j)
    <2> DEFINE new == [jobs[j] EXCEPT !.pc = IF jobs[j].tries = Tries THEN "red" ELSE "call"]
    <2>1. new \in JobType /\ jobs' = [jobs EXCEPT ![j] = new]
      BY <1>8 DEF Wake
    <2>2. Stage(j)' /\ Backed(j)' /\ Waited(j)'
      BY <1>8 DEF Wake, Stage, Backed, Waited
    <2> QED
      BY <1>8, <2>1, <2>2, Alone DEF Wake
  <1>9. CASE Rerun(j)
    <2> DEFINE new == [jobs[j] EXCEPT !.pc = "checks", !.crate = "lib", !.tries = 0, !.hit = FALSE]
    <2>1. jobs' = [jobs EXCEPT ![j] = new]
      BY <1>9 DEF Rerun
    <2>2. new \in JobType
      <3>1. 0 \in 0..Tries
        OBVIOUS
      <3> QED
        BY <3>1
    <2>3. Stage(j)' /\ Backed(j)' /\ Waited(j)'
      BY <1>9, <2>1 DEF Rerun, Stage, Backed, Waited
    <2> QED
      BY <1>9, <2>1, <2>2, <2>3, Alone DEF Rerun
  <1> QED
    BY <1>3, <1>4, <1>5, <1>6, <1>7, <1>8, <1>9 DEF JobStep

(* A run that starts is not dry unless it was dispatched as one.           *)
LEMMA Triggered ==
  ASSUME IInv, NEW j \in Jobs, NEW event \in {"push", "workflow_dispatch"},
         NEW dry_run \in BOOLEAN, Trigger(j, event, dry_run)
  PROVE  IInv'
  <1> DEFINE new == [jobs[j] EXCEPT !.pc = "checks",
                                    !.dry = (event = "workflow_dispatch" /\ dry_run)]
  <1>1. jobs[j] \in JobType /\ Stage(j) /\ Backed(j) /\ Waited(j) /\ faults \in 0..MaxFaults
    BY DEF IInv, PublishTypeOK
  <1>2. jobs \in [Jobs -> JobType]
    BY DEF IInv, PublishTypeOK
  <1>3. jobs' = [jobs EXCEPT ![j] = new] /\ UNCHANGED <<Registry, faults>>
    BY <1>2 DEF Trigger
  <1>4. new \in JobType
    BY <1>1 DEF JobType
  <1>5. jobs[j].pc = "idle" /\ jobs'[j] = new
    BY <1>2, <1>3 DEF Trigger, At
  <1>6. Stage(j)' /\ Backed(j)' /\ Waited(j)'
    BY <1>1, <1>3, <1>5 DEF Stage, Backed, Waited, Registry, JobType
  <1>7. jobs[j].dry
    BY <1>1, <1>5 DEF Stage
  <1> QED
    BY <1>1, <1>3, <1>4, <1>6, <1>7, Alone

(* After a fault a job is marked as hit, so Waited asks nothing of it.     *)
LEMMA Faults ==
  ASSUME IInv, NEW j \in Jobs, CallFails(j) \/ IndexFails(j) \/ Stopped(j)
  PROVE  IInv'
  <1>1. jobs[j] \in JobType /\ Stage(j) /\ Backed(j)
    BY DEF IInv, PublishTypeOK
  <1>2. jobs \in [Jobs -> JobType]
    BY DEF IInv, PublishTypeOK
  <1>3. faults' \in 0..MaxFaults /\ UNCHANGED Registry
    <2>1. Hit
      BY DEF CallFails, IndexFails, Stopped
    <2>2. faults \in 0..MaxFaults
      BY DEF IInv, PublishTypeOK
    <2> QED
      BY <2>1, <2>2, PublishAssumption DEF Hit
  <1>4. CASE CallFails(j) \/ Stopped(j)
    <2> DEFINE new == [jobs[j] EXCEPT !.pc = "red", !.hit = TRUE]
    <2>1. jobs' = [jobs EXCEPT ![j] = new] /\ jobs[j].pc # "idle"
      BY <1>2, <1>4 DEF CallFails, Stopped, Calling, At
    <2>2. new \in JobType
      BY <1>1 DEF JobType
    <2>3. jobs'[j] = new
      BY <1>2, <2>1
    <2>4. Stage(j)' /\ Backed(j)' /\ Waited(j)'
      BY <1>1, <1>3, <2>3 DEF Stage, Backed, Waited, Registry, JobType
    <2>5. jobs[j].dry \/ ~new.dry
      BY <1>1 DEF JobType
    <2> QED
      BY <1>3, <2>1, <2>2, <2>4, <2>5, Alone
  <1>5. CASE IndexFails(j)
    <2> DEFINE new == [jobs[j] EXCEPT !.pc = "sleep", !.tries = @ + 1, !.hit = @ \/ TRUE]
    <2>1. jobs' = [jobs EXCEPT ![j] = new] /\ jobs[j].pc = "call"
      BY <1>2, <1>5 DEF IndexFails, Retry, At
    <2>2. jobs[j].tries + 1 \in 0..Tries
      BY <1>1, <2>1, PublishAssumption DEF Stage, JobType
    <2>3. new \in JobType
      BY <1>1, <2>2 DEF JobType
    <2>4. jobs'[j] = new
      BY <1>2, <2>1
    <2>5. Stage(j)' /\ Backed(j)'
      BY <1>1, <1>3, <2>1, <2>2, <2>4 DEF Stage, Backed, Registry, JobType
    <2>6. Waited(j)'
      <3>1. jobs'[j].hit
        BY <1>1, <2>4 DEF JobType
      <3> QED
        BY <3>1 DEF Waited
    <2>7. jobs[j].dry \/ ~new.dry
      BY <1>1 DEF JobType
    <2> QED
      BY <1>3, <2>1, <2>3, <2>5, <2>6, <2>7, Alone
  <1> QED
    BY <1>4, <1>5

(* Time moves every sleeper and the index at once.                         *)
LEMMA Ticked == ASSUME IInv, Tick PROVE IInv'
  <1>1. PublishTypeOK /\ Chain
    BY DEF IInv
  <1>2. lag \in Nat /\ lag' \in Nat /\ lag' <= lag /\ delay \in Nat /\ lag <= delay
    BY <1>1, PublishAssumption DEF PublishTypeOK, Tick
  <1>3. ASSUME NEW j \in Jobs
        PROVE  /\ jobs'[j] = IF jobs[j].pc = "sleep" THEN [jobs[j] EXCEPT !.pc = "awake"]
                             ELSE jobs[j]
               /\ jobs'[j] \in JobType
    <2>1. jobs[j] \in JobType
      BY <1>1 DEF PublishTypeOK
    <2> QED
      BY <2>1 DEF Tick, At, JobType
  <1>4. PublishTypeOK'
    BY <1>1, <1>2, <1>3 DEF PublishTypeOK, Tick
  <1>5. ASSUME NEW j \in Jobs PROVE Stage(j)' /\ Backed(j)' /\ Waited(j)'
    <2>1. jobs[j] \in JobType /\ Stage(j) /\ Backed(j) /\ Waited(j)
      BY DEF IInv, PublishTypeOK
    <2>2. CASE jobs[j].pc = "sleep"
      <3>1. jobs'[j] = [jobs[j] EXCEPT !.pc = "awake"]
        BY <1>3, <2>2
      <3>2. Stage(j)' /\ Backed(j)'
        BY <2>1, <2>2, <3>1 DEF Stage, Backed, JobType, Tick
      <3>3. Waited(j)'
        BY <1>2, <2>1, <2>2, <3>1 DEF Waited, Backed, JobType, Tick
      <3> QED
        BY <3>2, <3>3
    <2>3. CASE jobs[j].pc # "sleep"
      <3>1. jobs'[j] = jobs[j]
        BY <1>3, <2>3
      <3>2. Stage(j)' /\ Backed(j)'
        <4>1. UNCHANGED <<uploaded, delay>>
          BY DEF Tick
        <4> QED
          BY <2>1, <3>1, <4>1 DEF Stage, Backed
      <3>3. Waited(j)'
        BY <1>2, <2>1, <2>3, <3>1 DEF Waited, JobType, Tick
      <3> QED
        BY <3>2, <3>3
    <2> QED
      BY <2>2, <2>3
  <1>6. Asked => Asked'
    <2> SUFFICES ASSUME NEW k \in Jobs, ~jobs[k].dry PROVE ~jobs'[k].dry
      BY DEF Asked
    <2>1. jobs[k] \in JobType
      BY <1>1 DEF PublishTypeOK
    <2> QED
      BY <1>3, <2>1 DEF JobType
  <1> QED
    BY <1>1, <1>4, <1>5, <1>6 DEF IInv, Chain, Tick

(* All steps together.                                                     *)
LEMMA Inductive == IInv /\ [Next]_vars => IInv'
  <1> SUFFICES ASSUME IInv, [Next]_vars PROVE IInv'
    OBVIOUS
  <1>1. CASE Over \/ UNCHANGED vars
    BY <1>1 DEF Over, vars, IInv, PublishTypeOK, Stage, Backed, Waited, Chain, Asked
  <1> QED
    BY <1>1, JobSteps, Triggered, Faults, Ticked DEF Next

(* So the invariant holds throughout.                                      *)
LEMMA Invariance == Spec => []IInv
  BY Initially, Inductive, PTL DEF Spec

-----------------------------------------------------------------------------
(* The types of jobs and registry: no job ever calls cargo more than Tries   *)
(* times for a crate.                                                      *)
THEOREM PublishTypes == Spec => []PublishTypeOK
  <1>1. IInv => PublishTypeOK
    BY DEF IInv
  <1> QED
    BY <1>1, Invariance, PTL

(* Without a fault a job goes red only after a lag of more than Tries       *)
(* pauses, whoever made the upload.                                        *)
THEOREM PublishRedForAReason == Spec => []RedForAReason
  <1>1. IInv => RedForAReason
    <2> SUFFICES ASSUME IInv, NEW j \in Jobs, jobs[j].pc = "red", ~jobs[j].hit
                 PROVE  delay > Tries
      BY DEF RedForAReason, At
    <2> QED
      BY PublishAssumption DEF IInv, Waited
  <1> QED
    BY <1>1, Invariance, PTL

-----------------------------------------------------------------------------
(* The refinement of Release.                                              *)
Promised == [Promise!Next]_<<Asked, uploaded, Reported>>

(* A job that is no longer green, or dry when it turns green, reports       *)
(* nothing; and only a trigger decides whether a release was asked for.    *)
LEMMA Unreported ==
  ASSUME IInv, NEW j \in Jobs, NEW new \in JobType, jobs' = [jobs EXCEPT ![j] = new],
         jobs[j].pc # "green", new.pc = "green" => new.dry, new.dry = jobs[j].dry
  PROVE  UNCHANGED <<Asked, Reported>>
  <1>1. jobs \in [Jobs -> JobType]
    BY DEF IInv, PublishTypeOK
  <1>2. \A k \in Jobs : jobs'[k] = IF k = j THEN new ELSE jobs[k]
    BY <1>1
  <1>3. \A k \in Jobs : jobs'[k].dry = jobs[k].dry
    BY <1>2
  <1>4. \A k \in Jobs : (jobs'[k].pc = "green" /\ ~jobs'[k].dry)
                          <=> (jobs[k].pc = "green" /\ ~jobs[k].dry)
    BY <1>2
  <1> QED
    BY <1>3, <1>4 DEF Asked, Reported, At

(* An upload is one of the two of Release, in its order.                   *)
LEMMA Uploading ==
  ASSUME IInv, NEW j \in Jobs, Upload(j)
  PROVE  Promise!PublishLib \/ Promise!PublishCli
  <1>1. jobs[j] \in JobType /\ jobs \in [Jobs -> JobType] /\ uploaded \subseteq Crates
    BY DEF IInv, PublishTypeOK
  <1>2. jobs[j].pc = "call" /\ uploaded' = uploaded \cup {jobs[j].crate}
    BY DEF Upload, At
  <1>3. ~jobs[j].dry
    BY <1>2 DEF IInv, Stage
  <1>4. Asked
    BY <1>3 DEF Asked
  <1>5. UNCHANGED <<Asked, Reported>>
    <2> DEFINE new == [jobs[j] EXCEPT !.pc = "sent"]
    <2>1. jobs' = [jobs EXCEPT ![j] = new]
      BY <1>1 DEF Upload, GoTo
    <2>2. new \in JobType /\ new.pc = "sent" /\ new.dry = jobs[j].dry
      BY <1>1 DEF JobType
    <2> QED
      BY <1>2, <2>1, <2>2, Unreported
  <1>6. "cli" \in uploaded => "lib" \in uploaded
    BY DEF IInv, Chain
  <1>7. CASE jobs[j].crate = "lib"
    <2>1. "lib" \notin uploaded
      BY <1>7 DEF Upload, Answer
    <2>2. uploaded = {}
      BY <1>1, <1>6, <2>1 DEF Crates
    <2> QED
      BY <1>2, <1>4, <1>5, <1>7, <2>2 DEF Promise!PublishLib
  <1>8. CASE jobs[j].crate = "cli"
    <2>1. "cli" \notin uploaded /\ "lib" \in uploaded
      BY <1>8 DEF Upload, Answer, Indexed
    <2>2. uploaded = {"lib"}
      BY <1>1, <2>1 DEF Crates
    <2> QED
      BY <1>2, <1>4, <1>5, <1>8, <2>2 DEF Promise!PublishCli
  <1> QED
    BY <1>1, <1>7, <1>8 DEF JobType, Crates

(* The end of a call that worked, or that another one made needless: the    *)
(* job goes on to the command line, or reports what Backed says is true.   *)
LEMMA Succeeding ==
  ASSUME IInv, NEW j \in Jobs, Uploaded(j) \/ AlreadyUploaded(j)
  PROVE  Promised
  <1>1. jobs[j] \in JobType /\ jobs \in [Jobs -> JobType] /\ uploaded \subseteq Crates
    BY DEF IInv, PublishTypeOK
  <1>2. jobs[j].pc \in {"call", "sent"} /\ UNCHANGED uploaded /\ Succeed(j)
    BY DEF Uploaded, AlreadyUploaded, At, Registry
  <1>3. jobs[j].crate \in uploaded
    BY DEF Uploaded, AlreadyUploaded, Answer, Indexed, At, IInv, Backed
  <1>4. CASE jobs[j].crate = "lib"
    <2> DEFINE new == [jobs[j] EXCEPT !.pc = "sleep", !.crate = "cli", !.tries = 0]
    <2>1. jobs' = [jobs EXCEPT ![j] = new]
      BY <1>1, <1>2, <1>4 DEF Succeed
    <2>2. new \in JobType /\ new.pc = "sleep" /\ new.dry = jobs[j].dry
      <3>1. 0 \in 0..Tries
        BY PublishAssumption
      <3> QED
        BY <1>1, <3>1 DEF JobType, Crates
    <2>3. UNCHANGED <<Asked, Reported>>
      BY <1>2, <2>1, <2>2, Unreported
    <2> QED
      BY <1>2, <2>3 DEF Promised
  <1>5. CASE jobs[j].crate = "cli"
    <2> DEFINE new == [jobs[j] EXCEPT !.pc = "green"]
    <2>1. jobs' = [jobs EXCEPT ![j] = new]
      BY <1>1, <1>2, <1>5 DEF Succeed, GoTo
    <2>2. jobs'[j].pc = "green" /\ \A k \in Jobs : jobs'[k].dry = jobs[k].dry
      BY <1>1, <2>1 DEF JobType
    <2>3. ~jobs[j].dry
      BY <1>2 DEF IInv, Stage
    <2>4. Reported' = TRUE
      BY <2>2, <2>3 DEF Reported, At
    <2>5. UNCHANGED Asked
      BY <2>2 DEF Asked
    <2>6. uploaded = {"lib", "cli"}
      BY <1>1, <1>3, <1>5 DEF IInv, Chain, Crates
    <2> QED
      BY <1>2, <2>4, <2>5, <2>6 DEF Promised, Promise!Next, Promise!Report
  <1> QED
    BY <1>1, <1>4, <1>5 DEF JobType, Crates

(* What the other steps of a job are to Release: nothing.                  *)
LEMMA OtherJobSteps ==
  ASSUME IInv, NEW j \in Jobs,
         \/ Checks(j) \/ DryRun(j) \/ NotIndexed(j) \/ Wake(j) \/ Rerun(j)
         \/ CallFails(j) \/ IndexFails(j) \/ Stopped(j)
  PROVE  UNCHANGED <<Asked, uploaded, Reported>>
  <1>1. jobs[j] \in JobType /\ jobs \in [Jobs -> JobType]
    BY DEF IInv, PublishTypeOK
  <1>2. UNCHANGED uploaded
    BY DEF Checks, DryRun, NotIndexed, Wake, Rerun, CallFails, IndexFails, Stopped, Hit, Registry
  <1>3. jobs[j].pc # "green"
    BY DEF Checks, DryRun, NotIndexed, Wake, Rerun, CallFails, IndexFails, Stopped, Calling, At
  <1>4. /\ \A k \in Jobs \ {j} : jobs'[k] = jobs[k]
        /\ jobs'[j].dry = jobs[j].dry
        /\ jobs'[j].pc = "green" => jobs[j].dry
    <2>1. CASE DryRun(j)
      BY <1>1, <2>1 DEF DryRun, GoTo, At, IInv, Stage, JobType
    <2>2. CASE Checks(j) \/ Wake(j)
      BY <1>1, <2>2 DEF Checks, Wake, GoTo, JobType
    <2>3. CASE NotIndexed(j) \/ IndexFails(j)
      <3>1. PICK hit \in BOOLEAN : Retry(j, hit)
        BY <2>3 DEF NotIndexed, IndexFails
      <3>2. /\ \A k \in Jobs \ {j} : jobs'[k] = jobs[k]
            /\ jobs'[j] = [jobs[j] EXCEPT !.pc = "sleep", !.tries = @ + 1, !.hit = @ \/ hit]
        BY <1>1, <3>1 DEF Retry
      <3> QED
        BY <1>1, <3>2 DEF JobType
    <2>4. CASE Rerun(j)
      BY <1>1, <2>4 DEF Rerun, JobType
    <2>5. CASE CallFails(j) \/ Stopped(j)
      BY <1>1, <2>5 DEF CallFails, Stopped, JobType
    <2> QED
      BY <2>1, <2>2, <2>3, <2>4, <2>5
  <1>5. \A k \in Jobs : (jobs'[k].pc = "green" /\ ~jobs'[k].dry)
                          <=> (jobs[k].pc = "green" /\ ~jobs[k].dry)
    BY <1>3, <1>4
  <1> QED
    BY <1>2, <1>4, <1>5 DEF Asked, Reported, At

(* A trigger asks for a release, or for nothing.                           *)
LEMMA Triggering ==
  ASSUME IInv, NEW j \in Jobs, NEW event \in {"push", "workflow_dispatch"},
         NEW dry_run \in BOOLEAN, Trigger(j, event, dry_run)
  PROVE  Promised
  <1> DEFINE dry == (event = "workflow_dispatch" /\ dry_run)
             new == [jobs[j] EXCEPT !.pc = "checks", !.dry = dry]
  <1>1. jobs[j] \in JobType /\ jobs \in [Jobs -> JobType]
    BY DEF IInv, PublishTypeOK
  <1>2. jobs' = [jobs EXCEPT ![j] = new] /\ UNCHANGED uploaded
    BY <1>1 DEF Trigger, Registry
  <1>3. jobs[j].pc = "idle" /\ jobs[j].dry
    BY DEF Trigger, At, IInv, Stage
  <1>4. \A k \in Jobs : jobs'[k] = IF k = j THEN new ELSE jobs[k]
    BY <1>1, <1>2
  <1>5. new.pc = "checks" /\ new.dry = dry
    BY <1>1 DEF JobType
  <1>6. UNCHANGED Reported
    BY <1>3, <1>4, <1>5 DEF Reported, At
  <1>7. CASE dry
    <2>1. UNCHANGED Asked
      BY <1>3, <1>4, <1>5, <1>7 DEF Asked
    <2> QED
      BY <1>2, <1>6, <2>1 DEF Promised
  <1>8. CASE ~dry
    <2>1. Asked' = TRUE
      BY <1>4, <1>5, <1>8 DEF Asked
    <2> QED
      BY <1>2, <1>6, <2>1 DEF Promised, Promise!Next, Promise!Ask
  <1> QED
    BY <1>7, <1>8

(* Time passing is no step of Release.                                     *)
LEMMA Ticking == ASSUME IInv, Tick PROVE UNCHANGED <<Asked, uploaded, Reported>>
  <1>1. ASSUME NEW k \in Jobs
        PROVE  /\ jobs'[k].dry = jobs[k].dry
               /\ jobs'[k].pc = "green" <=> jobs[k].pc = "green"
    <2>1. jobs[k] \in JobType
      BY DEF IInv, PublishTypeOK
    <2> QED
      BY <2>1 DEF Tick, At, JobType
  <1>2. UNCHANGED uploaded
    BY DEF Tick
  <1> QED
    BY <1>1, <1>2 DEF Asked, Reported, At

(* Two jobs, lost replies, reruns: a dry run uploads nothing, the library   *)
(* is first, and a release is reported only when both crates are there.    *)
THEOREM PublishKeepsThePromise == Spec => KeepsTheReleasePromise
  <1>1. Init => Promise!Init
    BY DEF Init, Promise!Init, Asked, Reported, At
  <1>2. IInv /\ [Next]_vars => Promised
    <2> SUFFICES ASSUME IInv, [Next]_vars PROVE Promised
      OBVIOUS
    <2>1. CASE Over \/ UNCHANGED vars
      BY <2>1 DEF Over, vars, Promised, Asked, Reported, At
    <2>2. CASE Tick
      BY <2>2, Ticking DEF Promised
    <2>3. ASSUME NEW j \in Jobs, NEW event \in {"push", "workflow_dispatch"},
                 NEW dry_run \in BOOLEAN, Trigger(j, event, dry_run)
          PROVE  Promised
      BY <2>3, Triggering
    <2>4. ASSUME NEW j \in Jobs, JobStep(j) \/ CallFails(j) \/ IndexFails(j) \/ Stopped(j)
          PROVE  Promised
      <3>1. CASE Upload(j)
        BY <3>1, Uploading DEF Promised, Promise!Next
      <3>2. CASE Uploaded(j) \/ AlreadyUploaded(j)
        BY <3>2, Succeeding
      <3>3. CASE ~Upload(j) /\ ~Uploaded(j) /\ ~AlreadyUploaded(j)
        BY <2>4, <3>3, OtherJobSteps DEF Promised, JobStep
      <3> QED
        BY <3>1, <3>2, <3>3
    <2> QED
      BY <2>1, <2>2, <2>3, <2>4 DEF Next
  <1> QED
    BY <1>1, <1>2, Invariance, PTL DEF Spec, KeepsTheReleasePromise, Promise!Spec, Promised
=============================================================================
