-------------------------- MODULE DeployRefinementProofs --------------------------
(***************************************************************************)
(* DeployServer implements DeployContract, for any number of calls,        *)
(* packages, configurations, files, directories and crashes.               *)
(***************************************************************************)
EXTENDS DeployRefinement, DeployServerProofs

(* What a task is writing stays its own or becomes another call's: the     *)
(* only other writers are tasks of other calls.                            *)
LEMMA StillThereStep ==
  ASSUME TypeOK, Discipline, EntriesStillThere, [Next]_vars
  PROVE  EntriesStillThere'
<1> SUFFICES ASSUME NEW o \in Request, opened'[o] # NoFile PROVE StillThere(o)'
  BY DEF EntriesStillThere, StillThere
<1> USE DEF TypeOK, Discipline, Disciplined, machine, disks, task, history
<1>1. body' = body /\ (Admitted(o) => held'[o] = held[o])
  BY CallProgress
<1>2. CASE opened'[o] = opened[o]
  <2>1. Admitted(o) /\ opened[o] \in File /\ PlanOf(o).deploy_path \in Dir
    BY <1>2, HeldPlan
  <2> DEFINE d == PlanOf(o).deploy_path
             f == opened[o]
  <2>2. PlanOf(o)' = PlanOf(o)
    BY <1>1, <2>1 DEF PlanOf
  <2>3. disk[d][f] = Torn(o) \/ disk[d][f].by \in Request \ {o}
    BY <1>2 DEF EntriesStillThere, StillThere, Live
  <2>4. disk'[d][f] = Torn(o) \/ disk'[d][f].by \in Request \ {o}
    <3>1. CASE disk'[d][f] = disk[d][f]
      BY <2>3, <3>1
    <3>2. CASE disk'[d][f] # disk[d][f]
      <4>1. PICK r \in Request :
              /\ \/ opened[r] = NoFile /\ opened'[r] = f /\ disk'[d][f] = Torn(r)
                 \/ opened[r] = f /\ disk'[d][f] = Whole(r) /\ opened'[r] = NoFile
        BY <2>1, <3>2, DiskWrites
      <4>2. r # o
        BY <1>2, <2>1, <4>1
      <4>3. QED BY <4>1, <4>2 DEF Torn, Whole
    <3>3. QED BY <3>1, <3>2
  <2>5. QED BY <1>2, <2>2, <2>4 DEF StillThere, Live
<1>3. CASE opened'[o] # opened[o]
  <2>1. PICK f \in File : OpenEntry(o, f)
    <3>1. ASSUME NEW r \in Request, NEW f \in File, OpenEntry(r, f)
          PROVE  r = o
      BY <1>3, <3>1 DEF OpenEntry
    <3>2. ASSUME NEW r \in Request, CallStep(r), ~ \E f \in File : OpenEntry(r, f)
          PROVE  opened'[o] = opened[o] \/ opened'[o] = NoFile
      BY <3>2 DEF CallStep, HandlerStep, JobStep, HookExit, Fault, Refuse, Admit,
           BeforeStart, BeforeSkip, Verify, BackupStart, UnpackStart, AfterStart, AfterSkip,
           CopyFile, BackupDone, CloseEntry, UnpackDone, BeforeSucceeds, BeforeFails,
           AfterExits, OrphanExits, JobFails, StageFails, Drop
    <3>3. ASSUME Crash \/ Restart \/ Reload \/ Tick \/ UNCHANGED vars
          PROVE  opened'[o] = opened[o] \/ opened'[o] = NoFile
      BY <3>3 DEF Crash, Restart, Reload, Tick, vars
    <3>4. QED BY <1>3, <3>1, <3>2, <3>3 DEF Next
  <2>2. Admitted(o) /\ PlanOf(o).deploy_path \in Dir
    BY <2>1, HeldPlan DEF OpenEntry
  <2>3. PlanOf(o)' = PlanOf(o)
    BY <1>1, <2>2 DEF PlanOf
  <2>4. opened'[o] = f /\ disk'[PlanOf(o).deploy_path][f] = Torn(o)
    BY <2>1, <2>2 DEF OpenEntry, Tree
  <2>5. QED BY <2>3, <2>4 DEF StillThere, Live
<1>4. QED BY <1>2, <1>3

(* A step of call r that is not its admission.                             *)
Only(r) ==
  /\ body' = body /\ held' = held
  /\ \A o \in Request \ {r} :
       <<pc[o], job[o], todo[o], answer[o]>>' = <<pc[o], job[o], todo[o], answer[o]>>

(* A step of one call leaves the abstract state of the others alone, and   *)
(* no step but the admission changes a directory or an archive.            *)
LEMMA OneCallMoves ==
  ASSUME NEW r \in Request, Only(r)
  PROVE  /\ phase'    = [phase EXCEPT ![r] = Phase(r)']
         /\ finished' = [finished EXCEPT ![r] = Finished(r)']
         /\ target' = target /\ archive' = archive
<1>1. ASSUME NEW o \in Request
      PROVE  Target(o)' = Target(o) /\ Archive(o)' = Archive(o)
  BY DEF Only, Target, Archive, Admitted, PlanOf
<1>2. ASSUME NEW o \in Request \ {r}
      PROVE  Phase(o)' = Phase(o) /\ Finished(o)' = Finished(o)
  BY DEF Only, Phase, Finished
<1>3. target' = target /\ archive' = archive
  BY <1>1 DEF target, archive
<1>4. QED BY <1>2, <1>3 DEF phase, finished

(* The steps that only the server sees: stages, scripts, the copy of a     *)
(* snapshot.                                                               *)
LEMMA Hidden ==
  ASSUME NEW r \in Request, Only(r), disk' = disk,
         Phase(r)' = Phase(r), Finished(r)' = Finished(r)
  PROVE  UNCHANGED Contract!vars
<1>1. /\ phase'    = [phase EXCEPT ![r] = Phase(r)']
      /\ finished' = [finished EXCEPT ![r] = Finished(r)']
      /\ target' = target /\ archive' = archive
  BY OneCallMoves
<1>2. phase' = phase /\ finished' = finished
  BY <1>1 DEF phase, finished
<1>3. QED BY <1>1, <1>2 DEF Contract!vars

(* A step that changes what the contract knows of a call, not the disk.    *)
LEMMA Turns ==
  ASSUME NEW r \in Request, Only(r), disk' = disk,
         Finished(r)' \in {Finished(r), {}}
  PROVE  /\ Phase(r) = "new" /\ Phase(r)' = "refused" /\ Finished(r)' = Finished(r)
              => Contract!Refuse(r)
         /\ Phase(r) = "accepted" /\ Phase(r)' = "deployed" /\ Finished(r)' = Finished(r)
              /\ Finished(r) = Archive(r) => Contract!Succeed(r)
         /\ Phase(r) = "accepted" /\ Phase(r)' = "failed" /\ Finished(r)' = {}
              => Contract!Fail(r)
         /\ Phase(r) = "accepted" /\ Phase(r)' = "abandoned" /\ Finished(r)' = Finished(r)
              => Contract!Abandon(r)
         /\ Phase(r) \in {"accepted", "abandoned"} /\ Phase(r)' = "gone" /\ Finished(r)' = {}
              => Contract!Leave(r)
<1>1. /\ phase'    = [phase EXCEPT ![r] = Phase(r)']
      /\ finished' = [finished EXCEPT ![r] = Finished(r)']
      /\ target' = target /\ archive' = archive
  BY OneCallMoves
<1>2. phase[r] = Phase(r) /\ finished[r] = Finished(r) /\ archive[r] = Archive(r)
  BY DEF phase, finished, archive
<1>3. Finished(r)' = Finished(r) => finished' = finished
  BY <1>1 DEF finished
<1>4. QED
  BY <1>1, <1>2, <1>3
     DEF Contract!Refuse, Contract!Succeed, Contract!Fail, Contract!Abandon, Contract!Leave,
         Contract!Become, Contract!Forget, Contract!Complete

(* What the contract sees of a call at each point of its handler and task. *)
LEMMA CallState ==
  ASSUME TypeOK, Discipline, NEW r \in Request
  PROVE  /\ pc[r] = "new" => Phase(r) = "new" /\ Finished(r) = {}
         /\ Handling(r) => Phase(r) = "accepted"
         /\ pc[r] \in {"before", "verify", "backup"} => Finished(r) = {}
         /\ pc[r] = "unpack" /\ job[r] # "unpack" => Finished(r) = {}
         /\ pc[r] = "after" =>
              job[r] = "none" /\ Finished(r) = body[r].entries /\ Archive(r) = body[r].entries
         /\ job[r] # "none" /\ ~ Handling(r) => answer[r] = "lost" /\ Phase(r) = "abandoned"
         /\ job[r] = "copy" => Finished(r) = {}
         /\ job[r] = "unpack" =>
              /\ Finished(r) = body[r].entries \ todo[r] /\ todo[r] \subseteq body[r].entries
              /\ Archive(r) = body[r].entries /\ Target(r) = PlanOf(r).deploy_path
<1>1. Disciplined(r) /\ answer[r] \in Answers /\ job[r] \in {"none", "copy", "unpack"}
      /\ pc[r] \in Stages \cup {"new", "end"}
  BY DEF TypeOK, Discipline
<1>2. pc[r] # "new" /\ answer[r] \notin Refusals => Admitted(r)
  BY <1>1 DEF Disciplined
<1>3. pc[r] # "end" => answer[r] = "none"
  BY <1>1 DEF Disciplined
<1>4. job[r] # "none" => Admitted(r) /\ pc[r] # "new"
  BY <1>1 DEF Disciplined
<1>5. /\ job[r] = "copy" => pc[r] = "backup" \/ answer[r] = "lost"
      /\ job[r] = "unpack" => (pc[r] = "unpack" \/ answer[r] = "lost")
                              /\ todo[r] \subseteq body[r].entries
      /\ pc[r] = "end" <=> answer[r] # "none"
  BY <1>1 DEF Disciplined
<1>6. QED
  BY <1>1, <1>2, <1>3, <1>4, <1>5
     DEF Phase, Finished, Archive, Target, Handling, Stages, Refusals

-----------------------------------------------------------------------------
(* One lemma per kind of step: which step of the contract it is.           *)

LEMMA RefuseStep ==
  ASSUME TypeOK, Discipline, NEW r \in Request, Refuse(r)
  PROVE  Contract!Refuse(r)
<1>1. Verdict(config, body[r]) \in Refusals
  BY DEF Refuse, Verdict, Refusals
<1>2. Only(r) /\ disk' = disk
  BY DEF Refuse, Finish, Only, TypeOK, task, disks
<1>3. pc'[r] = "end" /\ answer'[r] \in Refusals /\ job'[r] = job[r]
  BY <1>1 DEF Refuse, Finish, TypeOK, task
<1>4. Phase(r) = "new" /\ Finished(r) = {} /\ job[r] # "unpack"
  <2>1. Phase(r) = "new" /\ Finished(r) = {} /\ pc[r] = "new"
    BY CallState DEF Refuse
  <2>2. QED BY <2>1 DEF Discipline, Disciplined
<1>5. Phase(r)' = "refused" /\ Finished(r)' = {}
  BY <1>3, <1>4 DEF Phase, Finished, Refusals
<1>6. QED BY <1>2, <1>4, <1>5, Turns

LEMMA AcceptStep ==
  ASSUME TypeOK, Discipline, NEW r \in Request, Admit(r)
  PROVE  Contract!Accept(r)
<1>1. body' = body /\ disk' = disk /\ answer' = answer /\ job' = job /\ todo' = todo
      /\ pc' = [pc EXCEPT ![r] = "before"] /\ held' = [held EXCEPT ![r] = config]
  BY DEF Admit, GoTo, task, disks
<1>2. pc[r] = "new" /\ Verdict(config, body[r]) = "admit" /\ config \in Config /\ body[r] \in Body
      /\ pc \in [Request -> Stages \cup {"new", "end"}]
      /\ held \in [Request -> Config \cup {NoConfig}]
  BY DEF Admit, TypeOK
<1>3. Phase(r) = "new" /\ Finished(r) = {} /\ answer[r] = "none" /\ job[r] = "none"
  BY <1>2, CallState DEF Discipline, Disciplined
<1>4. pc'[r] = "before" /\ held'[r] = config /\ config # NoConfig
  BY <1>1, <1>2, ConfigIsConfig
<1>5. Phase(r)' = "accepted" /\ Finished(r)' = {}
  BY <1>1, <1>3, <1>4 DEF Phase, Finished
<1>6. Target(r)' \in Dir
  <2>1. config.packages[body[r].package_name] \in Plan
    BY <1>2, AdmittedPlan
  <2>2. QED BY <1>1, <1>4, <2>1 DEF Target, Admitted, PlanOf, Plan
<1>7. Archive(r)' \in SUBSET File
  BY <1>1, <1>2, <1>4, BodyAssumption DEF Archive, Admitted, DeployRequest
<1>8. ASSUME NEW o \in Request \ {r}
      PROVE  /\ Phase(o)' = Phase(o) /\ Target(o)' = Target(o)
             /\ Archive(o)' = Archive(o) /\ Finished(o)' = Finished(o)
  <2>1. pc'[o] = pc[o] /\ held'[o] = held[o]
    BY <1>1, <1>2
  <2>2. QED BY <1>1, <2>1 DEF Phase, Target, Archive, Finished, Admitted, PlanOf
<1>9. /\ phase'    = [phase EXCEPT ![r] = Phase(r)']
      /\ target'   = [target EXCEPT ![r] = Target(r)']
      /\ archive'  = [archive EXCEPT ![r] = Archive(r)']
      /\ finished' = finished
  BY <1>3, <1>5, <1>8 DEF phase, target, archive, finished
<1>10. phase[r] = "new"
  BY <1>3 DEF phase
<1>11. QED BY <1>1, <1>5, <1>6, <1>7, <1>9, <1>10 DEF Contract!Accept, Contract!Become

(* A handler that goes from one stage to the next, before the archive is   *)
(* unpacked or while it is.                                                *)
LEMMA StageStep ==
  ASSUME TypeOK, Discipline, NEW r \in Request, Only(r), disk' = disk,
         Handling(r), answer' = answer,
         \/ /\ pc[r] # "after" /\ Finished(r) = {}
            /\ pc'[r] \in Stages \ {"after"} /\ (job'[r] = "unpack" => todo'[r] = body[r].entries)
         \/ pc'[r] = pc[r] /\ job'[r] = job[r] /\ todo'[r] = todo[r]
  PROVE  UNCHANGED Contract!vars
<1>1. Phase(r) = "accepted" /\ answer[r] = "none"
  BY CallState DEF Discipline, Disciplined, Handling, Stages
<1>2. pc'[r] \in Stages
  BY DEF Handling
<1>3. Phase(r)' = "accepted"
  BY <1>1, <1>2 DEF Phase, Stages
<1>4. Finished(r)' = Finished(r)
  BY <1>1 DEF Finished, Only, Stages
<1>5. QED BY <1>1, <1>3, <1>4, Hidden

LEMMA HiddenStep ==
  ASSUME TypeOK, Discipline, NEW r \in Request,
         \/ BeforeStart(r) \/ BeforeSkip(r) \/ BeforeSucceeds(r) \/ BackupStart(r)
         \/ UnpackStart(r) \/ AfterStart(r) \/ OrphanExits(r) \/ \E f \in File : CopyFile(r, f)
         \/ Verify(r) /\ body[r].hash_matches
  PROVE  UNCHANGED Contract!vars
<1>1. Only(r) /\ disk' = disk /\ answer' = answer
  BY DEF BeforeStart, BeforeSkip, BeforeSucceeds, BackupStart, UnpackStart, AfterStart,
         OrphanExits, CopyFile, Verify, GoTo, Only, TypeOK, task, disks
<1>2. CASE BeforeStart(r) \/ AfterStart(r)
  BY <1>1, <1>2, StageStep DEF BeforeStart, AfterStart, Handling, Stages, task
<1>3. CASE BeforeSkip(r) \/ BeforeSucceeds(r) \/ (Verify(r) /\ body[r].hash_matches)
  <2>1. pc[r] \in {"before", "verify"} /\ pc'[r] \in {"verify", "backup", "unpack"}
        /\ job'[r] = job[r]
    BY <1>3 DEF BeforeSkip, BeforeSucceeds, Verify, AfterVerify, GoTo, TypeOK, task
  <2>2. job[r] # "unpack" /\ Finished(r) = {}
    BY <2>1, CallState DEF Discipline, Disciplined
  <2>3. QED BY <1>1, <2>1, <2>2, StageStep DEF Handling, Stages
<1>4. CASE BackupStart(r) \/ UnpackStart(r)
  <2>1. pc[r] \in {"backup", "unpack"} /\ job[r] = "none" /\ pc' = pc
        /\ (job'[r] = "unpack" => todo'[r] = body[r].entries)
    BY <1>4 DEF BackupStart, UnpackStart, TypeOK
  <2>2. Finished(r) = {}
    BY <2>1, CallState
  <2>3. QED BY <1>1, <2>1, <2>2, StageStep DEF Handling, Stages
<1>5. CASE OrphanExits(r) \/ \E f \in File : CopyFile(r, f)
  <2>1. pc' = pc /\ job' = job /\ (job[r] = "unpack" => todo' = todo)
    BY <1>5 DEF OrphanExits, CopyFile, task
  <2>2. Phase(r)' = Phase(r) /\ Finished(r)' = Finished(r)
    BY <1>1, <2>1 DEF Phase, Finished, Only
  <2>3. QED BY <1>1, <2>2, Hidden
<1>6. QED BY <1>2, <1>3, <1>4, <1>5

(* A failed stage, the answer of which goes to the client.                 *)
LEMMA FailStep ==
  ASSUME TypeOK, Discipline, NEW r \in Request, Only(r), disk' = disk,
         Handling(r), pc[r] # "after", pc'[r] = "end", answer'[r] = "failed",
         job'[r] # "unpack"
  PROVE  Contract!Fail(r)
<1>1. Phase(r) = "accepted"
  BY CallState
<1>2. Phase(r)' = "failed" /\ Finished(r)' = {}
  BY DEF Phase, Finished
<1>3. QED BY <1>1, <1>2, Turns

(* An abandoned task that ends, by itself or by an error.                  *)
LEMMA LeaveStep ==
  ASSUME TypeOK, Discipline, NEW r \in Request, Only(r), disk' = disk,
         ~ Handling(r), job[r] # "none", job'[r] = "none", pc' = pc, answer' = answer
  PROVE  Contract!Leave(r)
<1>1. Phase(r) = "abandoned" /\ answer[r] = "lost"
  BY CallState
<1>2. pc[r] # "after"
  BY DEF Handling, Stages
<1>3. Phase(r)' = "gone" /\ Finished(r)' = {}
  BY <1>1, <1>2 DEF Phase, Finished
<1>4. QED BY <1>1, <1>3, Turns

LEMMA SucceedStep ==
  ASSUME TypeOK, Discipline, NEW r \in Request, Only(r), disk' = disk,
         pc[r] = "after", pc'[r] = "end", answer'[r] = "ok", job' = job
  PROVE  Contract!Succeed(r)
<1>1. /\ Phase(r) = "accepted" /\ job[r] = "none"
      /\ Finished(r) = body[r].entries /\ Archive(r) = body[r].entries
  BY CallState DEF Handling, Stages
<1>2. Phase(r)' = "deployed" /\ Finished(r)' = body[r].entries
  BY <1>1 DEF Phase, Finished, Only
<1>3. QED BY <1>1, <1>2, Turns

LEMMA EndStep ==
  ASSUME TypeOK, Discipline, NEW r \in Request,
         \/ BeforeFails(r) \/ (Verify(r) /\ ~ body[r].hash_matches)
         \/ AfterSkip(r) \/ AfterExits(r) \/ StageFails(r) \/ JobFails(r) \/ Drop(r)
  PROVE  Contract!Succeed(r) \/ Contract!Fail(r) \/ Contract!Abandon(r) \/ Contract!Leave(r)
<1>1. Only(r) /\ disk' = disk
  BY DEF BeforeFails, Verify, AfterSkip, AfterExits, StageFails, JobFails, Drop, Fail, Succeed,
         Finish, Only, TypeOK, task, disks
<1>2. CASE BeforeFails(r) \/ (Verify(r) /\ ~ body[r].hash_matches)
  <2>1. pc[r] \in {"before", "verify"} /\ pc'[r] = "end" /\ answer'[r] = "failed"
        /\ job'[r] = job[r]
    BY <1>2 DEF BeforeFails, Verify, Fail, Finish, TypeOK, task
  <2>2. job[r] # "unpack"
    BY <2>1 DEF Discipline, Disciplined
  <2>3. QED BY <1>1, <2>1, <2>2, FailStep DEF Handling, Stages
<1>3. CASE AfterSkip(r) \/ AfterExits(r)
  <2>1. pc[r] = "after" /\ pc'[r] = "end" /\ answer'[r] = "ok" /\ job' = job
    BY <1>3 DEF AfterSkip, AfterExits, Succeed, Finish, TypeOK, task
  <2>2. QED BY <1>1, <2>1, SucceedStep
<1>4. CASE StageFails(r)
  <2>1. Handling(r) /\ job[r] = "none" /\ job' = job /\ pc'[r] = "end"
    BY <1>4 DEF StageFails, Fail, Succeed, Finish, TypeOK, task, Handling
  <2>2. IF pc[r] = "after" THEN answer'[r] = "ok" ELSE answer'[r] = "failed"
    BY <1>4 DEF StageFails, Fail, Succeed, Finish, TypeOK
  <2>3. QED BY <1>1, <2>1, <2>2, SucceedStep, FailStep
<1>5. CASE JobFails(r)
  <2>1. job[r] # "none" /\ job'[r] = "none"
    BY <1>5 DEF JobFails, TypeOK
  <2>2. CASE Handling(r)
    <3>1. pc'[r] = "end" /\ answer'[r] = "failed"
      BY <1>5, <2>2 DEF JobFails, Fail, Finish, TypeOK
    <3>2. pc[r] # "after"
      BY <2>1, CallState
    <3>3. QED BY <1>1, <2>1, <2>2, <3>1, <3>2, FailStep
  <2>3. CASE ~ Handling(r)
    <3>1. pc' = pc /\ answer' = answer
      BY <1>5, <2>3 DEF JobFails
    <3>2. QED BY <1>1, <2>1, <2>3, <3>1, LeaveStep
  <2>4. QED BY <2>2, <2>3
<1>6. CASE Drop(r)
  <2>1. Handling(r) /\ Phase(r) = "accepted"
    BY <1>6, CallState DEF Drop
  <2>2. pc'[r] = "end" /\ answer'[r] = "lost" /\ job'[r] = job[r] /\ todo'[r] = todo[r]
    BY <1>6 DEF Drop, Finish, TypeOK, task
  <2>3. CASE job[r] = "none"
    <3>1. Phase(r)' = "gone" /\ Finished(r)' = {}
      BY <2>2, <2>3 DEF Phase, Finished
    <3>2. QED BY <1>1, <2>1, <3>1, Turns
  <2>4. CASE job[r] # "none"
    <3>1. Phase(r)' = "abandoned"
      BY <2>2, <2>4 DEF Phase
    <3>2. Finished(r)' = Finished(r)
      <4>1. CASE job[r] = "unpack"
        BY <1>1, <2>2, <4>1 DEF Finished, Only
      <4>2. CASE job[r] # "unpack"
        <5>1. job[r] = "copy"
          BY <2>4, <4>2 DEF TypeOK
        <5>2. Finished(r) = {}
          BY <5>1, CallState
        <5>3. QED BY <2>2, <4>2, <5>2 DEF Finished
      <4>3. QED BY <4>1, <4>2
    <3>3. QED BY <1>1, <2>1, <3>1, <3>2, Turns
  <2>5. QED BY <2>3, <2>4
<1>7. QED BY <1>2, <1>3, <1>4, <1>5, <1>6

(* The end of a task: the handler's next stage, or the end of a task whose *)
(* handler is gone.                                                        *)
LEMMA JobDoneStep ==
  ASSUME TypeOK, Discipline, NEW r \in Request, BackupDone(r) \/ UnpackDone(r)
  PROVE  Contract!Leave(r) \/ UNCHANGED Contract!vars
<1>1. Only(r) /\ disk' = disk /\ answer' = answer
  BY DEF BackupDone, UnpackDone, GoTo, Only, TypeOK, disks
<1>2. job[r] # "none" /\ job'[r] = "none"
  BY DEF BackupDone, UnpackDone, TypeOK
<1>3. CASE ~ Handling(r)
  <2>1. pc' = pc
    BY <1>3 DEF BackupDone, UnpackDone, Handling, Stages
  <2>2. QED BY <1>1, <1>2, <1>3, <2>1, LeaveStep
<1>4. CASE Handling(r) /\ BackupDone(r)
  <2>1. pc[r] = "backup"
    BY <1>4 DEF BackupDone, Discipline, Disciplined, Handling, Stages
  <2>2. pc'[r] = "unpack"
    BY <1>4, <2>1 DEF BackupDone, GoTo, TypeOK
  <2>3. Finished(r) = {}
    BY <2>1, CallState
  <2>4. QED BY <1>1, <1>2, <1>4, <2>1, <2>2, <2>3, StageStep DEF Stages
<1>5. CASE Handling(r) /\ UnpackDone(r)
  <2>1. job[r] = "unpack" /\ todo[r] = {} /\ opened[r] = NoFile
    BY <1>5 DEF UnpackDone, Unpacked
  <2>2. pc[r] = "unpack" /\ answer[r] = "none"
    BY <1>5, <2>1 DEF Discipline, Disciplined, Handling, Stages
  <2>3. pc'[r] = "after"
    BY <1>5, <2>2 DEF UnpackDone, GoTo, TypeOK
  <2>4. Phase(r) = "accepted" /\ Finished(r) = body[r].entries
    BY <1>5, <2>1, CallState
  <2>5. Phase(r)' = "accepted" /\ Finished(r)' = body[r].entries
    BY <1>1, <1>2, <2>2, <2>3 DEF Phase, Finished, Only
  <2>6. QED BY <1>1, <2>4, <2>5, Hidden
<1>6. QED BY <1>3, <1>4, <1>5

LEMMA OpenStep ==
  ASSUME TypeOK, Discipline, NEW r \in Request, NEW f \in File, OpenEntry(r, f)
  PROVE  Contract!Open(r, f)
<1>1. Only(r) /\ pc' = pc /\ job' = job /\ todo' = todo /\ answer' = answer
  BY DEF OpenEntry, Only
<1>2. job[r] = "unpack" /\ f \in todo[r]
      /\ disk' = [disk EXCEPT ![PlanOf(r).deploy_path][f] = Torn(r)]
  BY DEF OpenEntry
<1>3. Phase(r)' = Phase(r) /\ Finished(r)' = Finished(r)
  BY <1>1 DEF Phase, Finished, Only
<1>4. phase' = phase /\ finished' = finished /\ target' = target /\ archive' = archive
  BY <1>1, <1>3, OneCallMoves DEF phase, finished
<1>5. /\ phase[r] \in {"accepted", "abandoned"}
      /\ f \in archive[r] /\ f \notin finished[r] /\ target[r] = PlanOf(r).deploy_path
  <2>1. /\ Finished(r) = body[r].entries \ todo[r] /\ todo[r] \subseteq body[r].entries
        /\ Archive(r) = body[r].entries /\ Target(r) = PlanOf(r).deploy_path
        /\ Phase(r) \in {"accepted", "abandoned"}
    BY <1>2, CallState
  <2>2. QED BY <1>2, <2>1 DEF phase, archive, finished, target
<1>6. QED BY <1>2, <1>4, <1>5 DEF Contract!Open, Contract!Writing, Contract!Torn, Torn

LEMMA CloseStep ==
  ASSUME TypeOK, Discipline, EntriesStillThere, NEW r \in Request, CloseEntry(r)
  PROVE  opened[r] \in File /\ Contract!Close(r, opened[r])
<1> DEFINE f == opened[r]
<1>1. Only(r) /\ pc' = pc /\ job' = job /\ answer' = answer
  BY DEF CloseEntry, Only, TypeOK
<1>2. job[r] = "unpack" /\ f \in todo[r] /\ f \in File /\ f # NoFile
      /\ todo'[r] = todo[r] \ {f}
  BY DEF CloseEntry, TypeOK, Discipline, Disciplined
<1>3. /\ Finished(r) = body[r].entries \ todo[r] /\ todo[r] \subseteq body[r].entries
      /\ Archive(r) = body[r].entries /\ Target(r) = PlanOf(r).deploy_path
      /\ Phase(r) \in {"accepted", "abandoned"}
  BY <1>2, CallState
<1>4. Phase(r)' = Phase(r) /\ Finished(r)' = Finished(r) \cup {f}
  BY <1>1, <1>2, <1>3 DEF Phase, Finished, Only
<1>5. phase' = phase /\ finished' = [finished EXCEPT ![r] = @ \cup {f}]
      /\ target' = target /\ archive' = archive
  BY <1>1, <1>4, OneCallMoves DEF phase, finished
<1>6. /\ phase[r] \in {"accepted", "abandoned"}
      /\ f \in archive[r] /\ f \notin finished[r] /\ target[r] = PlanOf(r).deploy_path
  BY <1>2, <1>3 DEF phase, archive, finished, target
<1>7. Live(r)[f] = Torn(r) \/ Live(r)[f].by \in Request \ {r}
  BY <1>2 DEF EntriesStillThere, StillThere
<1>8. \/ Live(r)[f] = Torn(r) /\ disk' = [disk EXCEPT ![PlanOf(r).deploy_path][f] = Whole(r)]
      \/ Live(r)[f].by \in Request \ {r} /\ disk' = disk
  <2>1. disk' = IF Live(r)[f] = Torn(r)
                THEN [disk EXCEPT ![PlanOf(r).deploy_path][f] = Whole(r)] ELSE disk
    BY DEF CloseEntry
  <2>2. QED BY <1>7, <2>1
<1>9. QED
  BY <1>2, <1>5, <1>6, <1>8
     DEF Contract!Close, Contract!Writing, Contract!Torn, Contract!Whole, Torn, Whole, Live

LEMMA HaltStep ==
  ASSUME TypeOK, Discipline, Crash
  PROVE  Contract!Halt
<1>1. body' = body /\ held' = held /\ disk' = disk
  BY DEF Crash, disks
<1>2. ASSUME NEW c \in Request
      PROVE  /\ Phase(c)' = IF Phase(c) \in {"accepted", "abandoned"} THEN "gone" ELSE Phase(c)
             /\ Finished(c)' = IF Phase(c) \in {"accepted", "abandoned"} THEN {} ELSE Finished(c)
  <2>1. job'[c] = "none"
    BY DEF Crash
  <2>2. CASE Handling(c)
    <3>1. pc'[c] = "end" /\ answer'[c] = "lost"
      BY <2>2 DEF Crash
    <3>2. Phase(c) = "accepted"
      BY <2>2, CallState
    <3>3. QED BY <2>1, <3>1, <3>2 DEF Phase, Finished
  <2>3. CASE ~ Handling(c)
    <3>1. pc'[c] = pc[c] /\ answer'[c] = answer[c]
      BY <2>3 DEF Crash
    <3>2. pc[c] # "after"
      BY <2>3 DEF Handling, Stages
    <3>3. CASE job[c] = "none"
      <4>1. pc[c] = "new" \/ answer[c] # "none"
        BY <2>3 DEF TypeOK, Discipline, Disciplined, Handling
      <4>2. pc[c] = "new" => answer[c] = "none"
        BY DEF Discipline, Disciplined
      <4>3. Phase(c) \notin {"accepted", "abandoned"}
        BY <3>3, <4>1, <4>2 DEF Phase
      <4>4. Phase(c)' = Phase(c) /\ Finished(c)' = Finished(c)
        BY <1>1, <2>1, <3>1, <3>3 DEF Phase, Finished
      <4>5. QED BY <4>3, <4>4
    <3>4. CASE job[c] # "none"
      <4>1. Phase(c) = "abandoned" /\ answer[c] = "lost"
        BY <2>3, <3>4, CallState
      <4>2. QED BY <2>1, <3>1, <3>2, <4>1 DEF Phase, Finished
    <3>5. QED BY <3>3, <3>4
  <2>4. QED BY <2>2, <2>3
<1>3. target' = target /\ archive' = archive
  BY <1>1 DEF target, archive, Target, Archive, PlanOf, Admitted
<1>4. QED BY <1>1, <1>2, <1>3 DEF Contract!Halt, phase, finished

(* The clock, the configuration and a restart do not show.                 *)
LEMMA SurroundingsStep ==
  ASSUME Restart \/ Reload \/ Tick \/ UNCHANGED vars
  PROVE  UNCHANGED Contract!vars
<1>1. /\ body' = body /\ held' = held /\ disk' = disk /\ pc' = pc
      /\ job' = job /\ todo' = todo /\ answer' = answer
  BY DEF Restart, Reload, Tick, vars, disks, task
<1>2. QED
  BY <1>1 DEF Contract!vars, phase, finished, target, archive, Phase, Finished, Target,
              Archive, PlanOf, Admitted

(* Every step of the server is one of the contract, or one it does not     *)
(* show.                                                                   *)
LEMMA ContractStep ==
  ASSUME TypeOK, Discipline, EntriesStillThere, [Next]_vars
  PROVE  [Contract!Next]_Contract!vars
<1>1. ASSUME NEW r \in Request, CallStep(r)
      PROVE  Contract!CallStep(r) \/ UNCHANGED Contract!vars
  <2>1. CASE \E f \in File : OpenEntry(r, f)
    BY <2>1, OpenStep DEF Contract!CallStep
  <2>2. CASE CloseEntry(r)
    BY <2>2, CloseStep DEF Contract!CallStep
  <2>3. CASE Refuse(r) \/ Admit(r)
    BY <2>3, RefuseStep, AcceptStep DEF Contract!CallStep
  <2>4. CASE \/ BeforeStart(r) \/ BeforeSkip(r) \/ BeforeSucceeds(r) \/ BackupStart(r)
             \/ UnpackStart(r) \/ AfterStart(r) \/ OrphanExits(r) \/ \E f \in File : CopyFile(r, f)
             \/ Verify(r) /\ body[r].hash_matches
    BY <2>4, HiddenStep
  <2>5. CASE \/ BeforeFails(r) \/ (Verify(r) /\ ~ body[r].hash_matches)
             \/ AfterSkip(r) \/ AfterExits(r) \/ StageFails(r) \/ JobFails(r) \/ Drop(r)
    BY <2>5, EndStep DEF Contract!CallStep
  <2>6. CASE BackupDone(r) \/ UnpackDone(r)
    BY <2>6, JobDoneStep DEF Contract!CallStep
  <2>7. QED
    BY <1>1, <2>1, <2>2, <2>3, <2>4, <2>5, <2>6 DEF CallStep, HandlerStep, JobStep, HookExit, Fault
<1>2. CASE Crash
  BY <1>2, HaltStep DEF Contract!Next
<1>3. CASE Restart \/ Reload \/ Tick \/ UNCHANGED vars
  BY <1>3, SurroundingsStep
<1>4. QED BY <1>1, <1>2, <1>3 DEF Next, Contract!Next

(* The server keeps the contract: calls are accepted once, write only what *)
(* and where they were accepted for, are answered "deployed" only when all *)
(* is written out, and touch nothing once they are answered or gone,       *)
(* whatever fails, crashes, is reloaded or runs beside them.               *)
THEOREM ServerKeepsContract == Spec => Implements
<1>1. Init => Contract!Init /\ EntriesStillThere
  <2> SUFFICES ASSUME Init PROVE Contract!Init /\ EntriesStillThere
    OBVIOUS
  <2>1. disk \in [Dir -> [File -> {Absent, Seed}]]
    BY DEF Init
  <2>2. DOMAIN disk = Dir
        /\ \A d \in Dir : DOMAIN disk[d] = File /\ \A f \in File : disk[d][f].by \notin Request
    BY <2>1, RequestAssumption DEF Absent, Seed
  <2>3. /\ phase = [c \in Request |-> "new"] /\ target = [c \in Request |-> "none"]
        /\ archive = [c \in Request |-> {}] /\ finished = [c \in Request |-> {}]
    BY DEF Init, phase, target, archive, finished, Phase, Target, Archive, Finished, Admitted
  <2>4. EntriesStillThere
    BY DEF Init, EntriesStillThere, StillThere
  <2>5. QED BY <2>2, <2>3, <2>4 DEF Contract!Init
<1>2. TypeOK /\ Discipline /\ EntriesStillThere /\ [Next]_vars
        => EntriesStillThere' /\ [Contract!Next]_Contract!vars
  BY StillThereStep, ContractStep
<1>3. QED BY <1>1, <1>2, TypeCorrect, PTL DEF Spec, Implements, Contract!Spec

-----------------------------------------------------------------------------
Promised == INSTANCE DeployContractProofs WITH Call <- Request

(* Hence the server gives what the contract is for: a file of a call lies  *)
(* where its admitted plan has put it and is of its archive, and a client  *)
(* that is told "deployed" finds all of it whole, or replaced by another   *)
(* call's, and none of it half written.                                    *)
THEOREM ServerDelivers == Spec => [](Contract!InItsPlace /\ Contract!DeployedIsWhole)
<1>1. Contract!Init => Promised!Init
  BY DEF Contract!Init, Promised!Init
<1>2. [Contract!Next]_Contract!vars => [Promised!Next]_Promised!vars
  <2>1. ASSUME NEW c \in Request, Contract!CallStep(c) PROVE Promised!CallStep(c)
    BY <2>1
    DEF Contract!CallStep, Promised!CallStep, Contract!Refuse,
        Promised!Refuse, Contract!Accept, Promised!Accept, Contract!Open,
        Promised!Open, Contract!Close, Promised!Close, Contract!Succeed,
        Promised!Succeed, Contract!Fail, Promised!Fail, Contract!Abandon,
        Promised!Abandon, Contract!Leave, Promised!Leave, Contract!Become,
        Promised!Become, Contract!Writing, Promised!Writing,
        Contract!Complete, Promised!Complete, Contract!Forget,
        Promised!Forget, Contract!Torn, Promised!Torn, Contract!Whole,
        Promised!Whole
  <2>2. Contract!Halt => Promised!Halt
    BY DEF Contract!Halt, Promised!Halt
  <2> QED
    BY <2>1, <2>2 DEF Contract!Next, Promised!Next, Contract!vars, Promised!vars
<1>3. Promised!InItsPlace /\ Promised!DeployedIsWhole
        => Contract!InItsPlace /\ Contract!DeployedIsWhole
  BY DEF Promised!InItsPlace, Contract!InItsPlace, Promised!DeployedIsWhole,
         Contract!DeployedIsWhole, Promised!Kept, Contract!Kept, Promised!Torn, Contract!Torn,
         Promised!Whole, Contract!Whole
<1> QED
  BY <1>1, <1>2, <1>3, ServerKeepsContract, Promised!Promise, PTL
  DEF Implements, Contract!Spec, Promised!Spec
=============================================================================
