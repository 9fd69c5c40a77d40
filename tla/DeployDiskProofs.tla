---------------------------- MODULE DeployDiskProofs ----------------------------
(***************************************************************************)
(* What DeployServer leaves on the disk when calls share a directory: no   *)
(* half-written file goes unnoticed, a deployment that was answered with   *)
(* success is in place unless a rival replaced it, and the old files are   *)
(* saved before they are overwritten.                                      *)
(***************************************************************************)
EXTENDS DeployRefinementProofs

(* What an admitted call works with stays.                                 *)
LEMMA Steady ==
  ASSUME TypeOK, Discipline, [Next]_vars, NEW o \in Request, Admitted(o)
  PROVE  /\ Admitted(o)' /\ PlanOf(o)' = PlanOf(o) /\ SnapDirOf(o)' = SnapDirOf(o)
         /\ stamp'[o] = stamp[o] /\ prior'[o] = prior[o] /\ ~ Admit(o)
         /\ body' = body
<1> USE DEF TypeOK, machine, disks, task, history, Finish, GoTo, Collect, Fail, Succeed
<1>1. body' = body /\ held'[o] = held[o]
  BY CallProgress
<1>2. ~ Admit(o)
  BY DEF Admit, Discipline, Disciplined
<1>3. stamp'[o] = stamp[o] /\ prior'[o] = prior[o]
  <2>1. CASE Still(o) \/ Crash
    BY <2>1 DEF Still, Crash
  <2>2. CASE CallStep(o)
    <3>1. CASE Refuse(o) \/ HandlerStep(o)
      BY <3>1 DEF Refuse, HandlerStep, BeforeStart, BeforeSkip, Verify, BackupStart, UnpackStart,
         AfterStart, AfterSkip
    <3>2. CASE JobStep(o)
      BY <3>2 DEF JobStep, CopyFile, OpenEntry, BackupDone, CloseEntry, UnpackDone
    <3>3. CASE HookExit(o)
      BY <3>3 DEF HookExit, BeforeSucceeds, BeforeFails, AfterExits, OrphanExits
    <3>4. CASE Fault(o)
      BY <3>4 DEF Fault, JobFails, StageFails, Drop
    <3> QED
      BY <1>2, <2>2, <3>1, <3>2, <3>3, <3>4 DEF CallStep
  <2> QED
    BY <2>1, <2>2, StepOf
<1> QED
  BY <1>1, <1>2, <1>3 DEF Admitted, PlanOf, SnapDirOf

-----------------------------------------------------------------------------
(* No silent tear.                                                         *)

(* An entry that is being written is written out, or its call fails or has *)
(* lost its client.                                                        *)
LEMMA OpenedGoesOn ==
  ASSUME TypeOK, Discipline, [Next]_vars, NEW r \in Request,
         job[r] = "unpack", opened[r] # NoFile
  PROVE  \/ opened'[r] = opened[r] /\ job'[r] = "unpack"
         \/ CloseEntry(r)
         \/ answer'[r] \in {"failed", "lost"}
<1> USE DEF TypeOK, machine, disks, task, history, Finish, GoTo, Collect, Fail, Succeed
<1>1. pc[r] = "unpack" \/ answer[r] = "lost"
  BY DEF Discipline, Disciplined
<1>2. CASE Still(r)
  BY <1>2 DEF Still
<1>3. CASE Crash
  BY <1>1, <1>3 DEF Crash, Handling, Stages
<1>4. CASE Refuse(r) \/ Admit(r) \/ HandlerStep(r)
  BY <1>1, <1>4 DEF Refuse, Admit, HandlerStep, BeforeStart, BeforeSkip, Verify, BackupStart,
     UnpackStart, AfterStart, AfterSkip
<1>5. CASE JobStep(r)
  BY <1>5 DEF JobStep, CopyFile, OpenEntry, BackupDone, UnpackDone, Unpacked
<1>6. CASE HookExit(r)
  BY <1>6 DEF HookExit, BeforeSucceeds, BeforeFails, AfterExits, OrphanExits
<1>7. CASE Fault(r)
  BY <1>1, <1>7 DEF Fault, JobFails, StageFails, Drop, Handling, Stages
<1> QED
  BY <1>2, <1>3, <1>4, <1>5, <1>6, <1>7, StepOf DEF CallStep

(* A half-written file is being written, or its writer's client was not    *)
(* told of a success: for any number of calls, files and crashes.          *)
THEOREM NoTears == Spec => []NoSilentTear
<1>1. Init => NoSilentTear
  BY RequestAssumption DEF Init, NoSilentTear, Absent, Seed, Torn
<1>2. TypeOK /\ Discipline /\ OnlyVettedContent /\ NoSilentTear /\ [Next]_vars => NoSilentTear'
  <2> SUFFICES ASSUME TypeOK, Discipline, OnlyVettedContent, NoSilentTear, [Next]_vars,
                      NEW d \in Dir, NEW f \in File, NEW r \in Request,
                      disk'[d][f] = Torn(r)
               PROVE  (job'[r] = "unpack" /\ opened'[r] = f) \/ answer'[r] \in {"failed", "lost"}
    BY DEF NoSilentTear
  <2>1. CASE disk'[d][f] # disk[d][f]
    <3>1. PICK q \in Request :
            \/ opened'[q] = f /\ job'[q] = "unpack" /\ disk'[d][f] = Torn(q)
            \/ disk'[d][f] = Whole(q)
      BY <2>1, DiskWrites
    <3>2. Torn(r) = Torn(q) \/ Torn(r) = Whole(q)
      BY <3>1
    <3>3. Torn(r).by = r /\ Torn(r).whole = FALSE /\ Torn(q).by = q /\ Whole(q).whole = TRUE
      BY DEF Torn, Whole
    <3>4. q = r /\ Torn(r) # Whole(q)
      BY <3>2, <3>3
    <3> QED
      BY <3>1, <3>4
  <2>2. CASE disk'[d][f] = disk[d][f]
    <3>1. Admitted(r) /\ PlanOf(r).deploy_path = d
      BY <2>2 DEF OnlyVettedContent, Torn, MayHold, VettedPlan, PlanOf
    <3>2. CASE answer[r] \in {"failed", "lost"}
      BY <3>2, CallProgress
    <3>3. CASE job[r] = "unpack" /\ opened[r] = f
      <4>1. f # NoFile
        BY NoFileAssumption
      <4>2. ASSUME CloseEntry(r) PROVE FALSE
        <5>1. disk' = [disk EXCEPT ![d][f] = Whole(r)]
          BY <2>2, <3>1, <3>3, <4>2 DEF CloseEntry, Live
        <5>2. disk'[d][f] = Whole(r)
          BY <5>1 DEF TypeOK, Tree
        <5> QED
          BY <5>2 DEF Torn, Whole
      <4> QED
        BY <3>3, <4>1, <4>2, OpenedGoesOn
    <3> QED
      BY <2>2, <3>2, <3>3 DEF NoSilentTear
  <2> QED
    BY <2>1, <2>2
<1> QED
  BY <1>1, <1>2, TypeCorrect, OnlyVetted, PTL DEF Spec

-----------------------------------------------------------------------------
(* Rivals.                                                                 *)

(* A call that is at work is a rival of every other call admitted to the   *)
(* same directory: of those before it because it came later, of those      *)
(* after it because it was still at work when they came.                   *)
Met ==
  /\ \A r \in Request : ~ Admitted(r) => rivals[r] = {}
  /\ \A r, o \in Request :
       /\ r # o /\ Admitted(r) /\ Admitted(o)
       /\ PlanOf(r).deploy_path = PlanOf(o).deploy_path /\ Active(o)
       => o \in rivals[r]

(* Only its admission sets a call to work.                                 *)
LEMMA ActiveBefore ==
  ASSUME TypeOK, Discipline, [Next]_vars, NEW o \in Request, Active(o)', ~ Admit(o)
  PROVE  Active(o)
<1> USE DEF TypeOK, machine, disks, task, history, Finish, GoTo, Collect, Fail, Succeed,
            Active, Handling, Stages
<1>1. CASE Still(o)
  BY <1>1 DEF Still
<1>2. CASE Crash
  BY <1>2 DEF Crash
<1>3. CASE Refuse(o) \/ HandlerStep(o)
  BY <1>3 DEF Refuse, HandlerStep, BeforeStart, BeforeSkip, Verify, BackupStart,
     UnpackStart, AfterStart, AfterSkip
<1>4. CASE JobStep(o)
  BY <1>4 DEF JobStep, CopyFile, OpenEntry, BackupDone, UnpackDone, CloseEntry
<1>5. CASE HookExit(o)
  <2>1. CASE OrphanExits(o)
    BY <2>1 DEF OrphanExits
  <2> QED
    BY <1>5, <2>1 DEF HookExit, BeforeSucceeds, BeforeFails, AfterExits
<1>6. CASE Fault(o)
  BY <1>6 DEF Fault, JobFails, StageFails, Drop
<1> QED
  BY <1>1, <1>2, <1>3, <1>4, <1>5, <1>6, StepOf DEF CallStep

(* Admissions alone add rivals, and only to admitted calls.                *)
LEMMA RivalsGrow ==
  ASSUME TypeOK, Discipline, Met, [Next]_vars, NEW o \in Request
  PROVE  rivals[o] \subseteq rivals'[o]
<1> USE DEF TypeOK, machine, disks, task, history, Finish, GoTo, Collect, Fail, Succeed
<1>1. ASSUME NEW r \in Request, Admit(r) PROVE rivals[o] \subseteq rivals'[o]
  <2>1. CASE o = r
    BY <1>1, <2>1 DEF Admit, Met, Discipline, Disciplined
  <2>2. CASE o # r
    BY <1>1, <2>2 DEF Admit
  <2> QED
    BY <2>1, <2>2
<1>2. ASSUME ~ \E r \in Request : Admit(r) PROVE rivals' = rivals
  <2>1. ASSUME NEW r \in Request, Refuse(r) \/ HandlerStep(r) PROVE rivals' = rivals
    BY <2>1 DEF Refuse, HandlerStep, BeforeStart, BeforeSkip, Verify, BackupStart,
       UnpackStart, AfterStart, AfterSkip
  <2>2. ASSUME NEW r \in Request, JobStep(r) PROVE rivals' = rivals
    BY <2>2 DEF JobStep, CopyFile, OpenEntry, BackupDone, UnpackDone, CloseEntry
  <2>3. ASSUME NEW r \in Request, HookExit(r) PROVE rivals' = rivals
    BY <2>3 DEF HookExit, BeforeSucceeds, BeforeFails, AfterExits, OrphanExits
  <2>4. ASSUME NEW r \in Request, Fault(r) PROVE rivals' = rivals
    BY <2>4 DEF Fault, JobFails, StageFails, Drop
  <2>5. CASE Crash \/ Restart \/ Reload \/ Tick \/ UNCHANGED vars
    BY <2>5 DEF Crash, Restart, Reload, Tick, vars
  <2> QED
    BY <1>2, <2>1, <2>2, <2>3, <2>4, <2>5 DEF Next, CallStep
<1> QED
  BY <1>1, <1>2

(* An admission leaves what is known of the other calls.                   *)
LEMMA AdmitMeets ==
  ASSUME TypeOK, Discipline, Met, [Next]_vars, NEW a \in Request, Admit(a)
  PROVE  Met'
<1> USE DEF TypeOK, machine, disks, task, history, GoTo
<1>1. ~ Admitted(a) /\ Admitted(a)' /\ PlanOf(a)' = config.packages[body[a].package_name]
  BY ConfigIsConfig DEF Admit, Admitted, PlanOf, Discipline, Disciplined
<1>2. \A o \in Request \ {a} :
        /\ Admitted(o)' = Admitted(o) /\ PlanOf(o)' = PlanOf(o) /\ Active(o)' = Active(o)
  BY DEF Admit, Admitted, PlanOf, Active, Handling
<1> DEFINE there  == config.packages[body[a].package_name].deploy_path
           same   == {o \in Request \ {a} : Admitted(o) /\ PlanOf(o).deploy_path = there}
<1>3. \A o \in Request : rivals'[o] = IF o = a THEN {x \in same : Active(x)}
                                    ELSE IF o \in same THEN rivals[o] \cup {a} ELSE rivals[o]
  BY DEF Admit
<1>4. ASSUME NEW r \in Request, ~ Admitted(r)' PROVE rivals'[r] = {}
  BY <1>1, <1>2, <1>3, <1>4 DEF Met
<1>5. ASSUME NEW r \in Request, NEW o \in Request,
             r # o, Admitted(r)', Admitted(o)',
             PlanOf(r)'.deploy_path = PlanOf(o)'.deploy_path, Active(o)'
      PROVE  o \in rivals'[r]
  <2>1. CASE r = a
    BY <1>1, <1>2, <1>3, <1>5, <2>1
  <2>2. CASE o = a
    BY <1>1, <1>2, <1>3, <1>5, <2>2
  <2>3. CASE r # a /\ o # a
    <3>1. rivals[r] \subseteq rivals'[r]
      BY <1>3, <2>3
    <3>2. /\ Admitted(r) /\ Admitted(o) /\ Active(o)
          /\ PlanOf(r).deploy_path = PlanOf(o).deploy_path
      BY <1>2, <1>5, <2>3
    <3>3. o \in rivals[r]
      BY <1>5, <3>2 DEF Met
    <3> QED
      BY <3>1, <3>3
  <2> QED
    BY <2>1, <2>2, <2>3
<1> QED
  BY <1>4, <1>5 DEF Met

(* So does every other step.                                               *)
LEMMA MetStep == TypeOK /\ Discipline /\ Met /\ [Next]_vars => Met'
<1> SUFFICES ASSUME TypeOK, Discipline, Met, [Next]_vars PROVE Met'
  OBVIOUS
<1>1. CASE \E a \in Request : Admit(a)
  BY <1>1, AdmitMeets
<1>2. CASE ~ \E a \in Request : Admit(a)
  <2>1. held' = held /\ rivals' = rivals
    <3> USE DEF machine, disks, task, history
    <3>1. ASSUME NEW r \in Request, Refuse(r) \/ HandlerStep(r)
          PROVE held' = held /\ rivals' = rivals
      BY <3>1 DEF Refuse, HandlerStep, BeforeStart, BeforeSkip, Verify, BackupStart,
         UnpackStart, AfterStart, AfterSkip
    <3>2. ASSUME NEW r \in Request, JobStep(r) PROVE held' = held /\ rivals' = rivals
      BY <3>2 DEF JobStep, CopyFile, OpenEntry, BackupDone, UnpackDone, CloseEntry
    <3>3. ASSUME NEW r \in Request, HookExit(r) PROVE held' = held /\ rivals' = rivals
      BY <3>3 DEF HookExit, BeforeSucceeds, BeforeFails, AfterExits, OrphanExits
    <3>4. ASSUME NEW r \in Request, Fault(r) PROVE held' = held /\ rivals' = rivals
      BY <3>4 DEF Fault, JobFails, StageFails, Drop
    <3>5. CASE Crash \/ Restart \/ Reload \/ Tick \/ UNCHANGED vars
      BY <3>5 DEF Crash, Restart, Reload, Tick, vars
    <3> QED
      BY <1>2, <3>1, <3>2, <3>3, <3>4, <3>5 DEF Next, CallStep
  <2>2. \A r \in Request : Admitted(r)' = Admitted(r)
    BY <2>1 DEF Admitted
  <2>3. \A r \in Request : Admitted(r) => PlanOf(r)' = PlanOf(r)
    BY Steady
  <2>4. \A r \in Request : Active(r)' => Active(r)
    BY <1>2, ActiveBefore
  <2> QED
    BY <2>1, <2>2, <2>3, <2>4 DEF Met
<1> QED
  BY <1>1, <1>2

(* A call that changes a file is a rival of all others that are admitted   *)
(* to the directory, and they are its rivals as long as they are at work.  *)
LEMMA WritersAreRivals ==
  ASSUME TypeOK, Discipline, Met, NEW r \in Request, NEW q \in Request, r # q,
         Admitted(r), Admitted(q), PlanOf(q).deploy_path = PlanOf(r).deploy_path,
         job[q] = "unpack"
  PROVE  q \in rivals[r] /\ (Active(r) => Overlap(r, q))
BY DEF Met, Active, Overlap

-----------------------------------------------------------------------------
(* What is answered with success is in place.                              *)

(* The entries a call has written out are whole, and the one it is writing *)
(* is there, but for those a rival has replaced.                           *)
Placed(r)  == \A f \in Finished(r) : Live(r)[f] = Whole(r) \/ Live(r)[f].by \in rivals[r]
Writing(r) == opened[r] # NoFile =>
                Live(r)[opened[r]] = Torn(r) \/ Live(r)[opened[r]].by \in rivals[r]

Installed == \A r \in Request : Admitted(r) => Placed(r) /\ Writing(r)

(* An entry is finished by being closed only.                              *)
LEMMA FinishedByClosing ==
  ASSUME TypeOK, Discipline, [Next]_vars, NEW r \in Request, Admitted(r),
         NEW f \in Finished(r)'
  PROVE  f \in Finished(r) \/ (CloseEntry(r) /\ f = opened[r])
<1> USE DEF TypeOK, machine, disks, task, history, Finish, GoTo, Collect, Fail, Succeed
<1>0. body' = body /\ ~ Admit(r)
  BY Steady
<1>1. Disciplined(r) /\ pc[r] \in Stages \cup {"new", "end"}
  BY DEF Discipline
<1>2. CASE Still(r)
  BY <1>0, <1>2 DEF Still, Finished
<1>3. CASE Crash
  BY <1>0, <1>1, <1>3 DEF Crash, Finished, Handling, Stages, Disciplined
<1>4. CASE Refuse(r) \/ HandlerStep(r)
  <2>1. CASE UnpackStart(r)
    BY <1>0, <2>1 DEF UnpackStart, Finished
  <2>2. CASE Refuse(r)
    BY <1>1, <2>2 DEF Refuse, Disciplined
  <2>3. CASE AfterStart(r) \/ AfterSkip(r) \/ BeforeStart(r) \/ BackupStart(r)
    BY <1>0, <1>1, <2>3 DEF AfterStart, AfterSkip, BeforeStart, BackupStart, Finished, Disciplined
  <2>4. CASE BeforeSkip(r) \/ Verify(r)
    BY <1>0, <1>1, <2>4 DEF BeforeSkip, Verify, AfterVerify, Finished, Disciplined
  <2> QED
    BY <1>4, <2>1, <2>2, <2>3, <2>4 DEF HandlerStep
<1>5. CASE JobStep(r)
  <2>1. CASE CloseEntry(r)
    BY <1>0, <2>1 DEF CloseEntry, Finished
  <2>2. CASE BackupDone(r) \/ UnpackDone(r)
    BY <1>0, <1>1, <2>2 DEF BackupDone, UnpackDone, Unpacked, Finished, Disciplined
  <2>3. ASSUME NEW g \in File, CopyFile(r, g) \/ OpenEntry(r, g) PROVE f \in Finished(r)
    BY <1>0, <1>1, <2>3 DEF CopyFile, OpenEntry, Finished, Disciplined
  <2> QED
    BY <1>5, <2>1, <2>2, <2>3 DEF JobStep
<1>6. CASE HookExit(r)
  BY <1>0, <1>1, <1>6 DEF HookExit, BeforeSucceeds, BeforeFails, AfterExits, OrphanExits,
     Finished, Disciplined
<1>7. CASE Fault(r)
  BY <1>0, <1>1, <1>7 DEF Fault, JobFails, StageFails, Drop, Finished, Disciplined, Handling, Stages
<1> QED
  BY <1>0, <1>2, <1>3, <1>4, <1>5, <1>6, <1>7, StepOf DEF CallStep

(* An entry is opened by its own call's task, which puts it there.         *)
LEMMA OpenedByOpening ==
  ASSUME TypeOK, Discipline, [Next]_vars, NEW r \in Request, Admitted(r),
         opened'[r] # NoFile, opened'[r] # opened[r]
  PROVE  disk'[PlanOf(r).deploy_path][opened'[r]] = Torn(r)
<1>1. PICK f \in File : OpenEntry(r, f)
  <2> USE DEF TypeOK, machine, disks, task, history
  <2>1. CASE Still(r) \/ Crash
    BY <2>1 DEF Still, Crash
  <2>2. CASE Refuse(r) \/ Admit(r) \/ HandlerStep(r)
    BY <2>2 DEF Refuse, Admit, HandlerStep, BeforeStart, BeforeSkip, Verify, BackupStart,
       UnpackStart, AfterStart, AfterSkip
  <2>3. CASE JobStep(r)
    BY <2>3 DEF JobStep, CopyFile, BackupDone, CloseEntry, UnpackDone
  <2>4. CASE HookExit(r) \/ Fault(r)
    BY <2>4 DEF HookExit, BeforeSucceeds, BeforeFails, AfterExits, OrphanExits,
       Fault, JobFails, StageFails, Drop
  <2> QED
    BY <2>1, <2>2, <2>3, <2>4, StepOf DEF CallStep
<1>2. PlanOf(r).deploy_path \in Dir
  BY HeldPlan
<1> QED
  BY <1>1, <1>2 DEF OpenEntry, TypeOK, Tree

(* Whoever writes to a call's directory is the call itself, or a rival.    *)
LEMMA WrittenBy ==
  ASSUME TypeOK, Discipline, Met, [Next]_vars, NEW r \in Request, Admitted(r),
         NEW f \in File, Live(r)'[f] # Live(r)[f]
  PROVE  \/ Live(r)'[f].by \in rivals'[r]
         \/ opened[r] = NoFile /\ opened'[r] = f /\ job'[r] = "unpack" /\ Live(r)'[f] = Torn(r)
         \/ opened[r] = f /\ opened'[r] = NoFile /\ Live(r)'[f] = Whole(r)
<1> DEFINE d == PlanOf(r).deploy_path
<1>1. d \in Dir /\ Live(r)[f] = disk[d][f] /\ Live(r)'[f] = disk'[d][f]
  BY HeldPlan, Steady DEF Live
<1>2. PICK q \in Request :
        /\ job[q] = "unpack" /\ Admitted(q) /\ PlanOf(q).deploy_path = d
        /\ \/ /\ opened[q] = NoFile /\ opened'[q] = f
              /\ job'[q] = "unpack" /\ disk'[d][f] = Torn(q)
           \/ /\ opened[q] = f /\ opened'[q] = NoFile
              /\ disk'[d][f] = Whole(q)
  BY <1>1, DiskWrites
<1>3. CASE q = r
  BY <1>1, <1>2, <1>3
<1>4. CASE q # r
  <2>1. q \in rivals'[r]
    BY <1>2, <1>4, WritersAreRivals, RivalsGrow
  <2>2. disk'[d][f].by = q
    BY <1>2 DEF Torn, Whole
  <2> QED
    BY <1>1, <2>1, <2>2
<1> QED
  BY <1>3, <1>4

(* An admission starts with nothing finished and nothing open.             *)
LEMMA AdmittedEmpty ==
  ASSUME TypeOK, Discipline, [Next]_vars, NEW r \in Request, ~ Admitted(r), Admitted(r)'
  PROVE  Finished(r)' = {} /\ opened'[r] = NoFile /\ Admit(r)
<1> USE DEF TypeOK, machine, disks, task, history, Finish, GoTo, Collect, Fail, Succeed
<1>1. Admit(r)
  BY StepOf, ~ Admitted(r), Admitted(r)' DEF Admitted, Still, Crash, CallStep, Refuse, HandlerStep,
     BeforeStart, BeforeSkip, Verify, BackupStart, UnpackStart, AfterStart, AfterSkip, JobStep,
     CopyFile, OpenEntry, BackupDone, CloseEntry, UnpackDone, HookExit, BeforeSucceeds, BeforeFails,
     AfterExits, OrphanExits, Fault, JobFails, StageFails, Drop
<1>2. job[r] = "none" /\ opened[r] = NoFile /\ answer[r] = "none"
  BY <1>1 DEF Admit, Discipline, Disciplined
<1> QED
  BY <1>1, <1>2 DEF Admit, Finished
(* A file stays as it was, is written by a rival, or is written as the     *)
(* call's own task opens or closes it.                                     *)
LEMMA InstalledStep ==
  ASSUME TypeOK, Discipline, Discipline', Met, Installed, [Next]_vars
  PROVE  Installed'
<1> SUFFICES ASSUME NEW r \in Request, Admitted(r)' PROVE Placed(r)' /\ Writing(r)'
  BY DEF Installed
<1>1. CASE ~ Admitted(r)
  BY <1>1, AdmittedEmpty DEF Placed, Writing
<1>2. CASE Admitted(r)
  <2>1. rivals[r] \subseteq rivals'[r] /\ Placed(r) /\ Writing(r)
    BY <1>2, RivalsGrow DEF Installed
  <2>2. Live(r)' = disk'[PlanOf(r).deploy_path] /\ PlanOf(r)' = PlanOf(r) /\ body' = body
    BY <1>2, Steady DEF Live
  <2>3. ASSUME NEW f \in Finished(r)'
        PROVE  Live(r)'[f] = Whole(r) \/ Live(r)'[f].by \in rivals'[r]
    <3>1. f \in body[r].entries /\ body[r].entries \subseteq File
      BY <2>2, <2>3, BodyAssumption DEF Finished, TypeOK, DeployRequest
    <3>2. CASE Live(r)'[f] # Live(r)[f]
      <4>1. ASSUME opened'[r] = f, job'[r] = "unpack" PROVE FALSE
        <5>1. opened'[r] # NoFile
          BY <3>1, <4>1, NoFileAssumption
        <5>2. f \in todo'[r]
          BY <4>1, <5>1 DEF Discipline, Disciplined
        <5> QED
          BY <2>3, <4>1, <5>2 DEF Finished
      <4> QED
        BY <1>2, <3>1, <3>2, <4>1, WrittenBy
    <3>3. CASE Live(r)'[f] = Live(r)[f]
      <4>1. CASE f \in Finished(r)
        BY <2>1, <3>3, <4>1 DEF Placed
      <4>2. CASE CloseEntry(r) /\ f = opened[r]
        <5>1. CASE Live(r)[f] = Torn(r)
          <6>1. disk' = [disk EXCEPT ![PlanOf(r).deploy_path][f] = Whole(r)]
            BY <4>2, <5>1 DEF CloseEntry
          <6>2. PlanOf(r).deploy_path \in Dir
            BY <1>2, HeldPlan
          <6>3. Live(r)'[f] = Whole(r)
            BY <2>2, <3>1, <6>1, <6>2 DEF TypeOK, Tree
          <6> QED
            BY <6>3
        <5>2. CASE Live(r)[f].by \in rivals[r]
          BY <2>1, <3>3, <5>2
        <5>3. Writing(r) /\ opened[r] # NoFile
          BY <2>1, <4>2 DEF CloseEntry
        <5> QED
          BY <4>2, <5>1, <5>2, <5>3 DEF Writing
      <4> QED
        BY <1>2, <2>3, <4>1, <4>2, FinishedByClosing
    <3> QED
      BY <3>2, <3>3
  <2>4. ASSUME opened'[r] # NoFile
        PROVE  Live(r)'[opened'[r]] = Torn(r) \/ Live(r)'[opened'[r]].by \in rivals'[r]
    <3>1. CASE opened'[r] # opened[r]
      BY <1>2, <2>2, <2>4, <3>1, OpenedByOpening
    <3>2. CASE opened'[r] = opened[r]
      <4>1. opened[r] \in File /\ opened[r] # NoFile
        BY <2>4, <3>2 DEF TypeOK
      <4>2. CASE Live(r)'[opened[r]] # Live(r)[opened[r]]
        BY <1>2, <3>2, <4>1, <4>2, WrittenBy
      <4>3. CASE Live(r)'[opened[r]] = Live(r)[opened[r]]
        BY <2>1, <3>2, <4>1, <4>3 DEF Writing
      <4> QED
        BY <4>2, <4>3
    <3> QED
      BY <3>1, <3>2
  <2> QED
    BY <2>3, <2>4 DEF Placed, Writing, Torn, Whole
<1> QED
  BY <1>1, <1>2

(* In every reachable state calls at work on one directory know of each    *)
(* other, and what a call has written is there or taken by a rival.        *)
LEMMA InstalledAlways == Spec => [](TypeOK /\ Discipline /\ Met /\ Installed)
<1>1. Init => Met /\ Installed
  BY DEF Init, Met, Installed, Admitted
<1>2. TypeOK /\ Discipline /\ Met /\ Installed /\ [Next]_vars => Met' /\ Installed'
  BY MetStep, DisciplineStep, InstalledStep
<1> QED
  BY <1>1, <1>2, TypeCorrect, PTL DEF Spec

(* A call that is answered "deployed" has all its files in place, whole,   *)
(* but for those that a rival - a call admitted after it, or at work on    *)
(* the directory while it was, the task an earlier attempt left behind     *)
(* included - has replaced: for any number of calls, files and crashes.    *)
THEOREM InPlace == Spec => []InstalledUnlessSuperseded
<1>1. TypeOK /\ Discipline /\ Installed => InstalledUnlessSuperseded
  <2> SUFFICES ASSUME TypeOK, Discipline, Installed, NEW r \in Request, answer[r] = "ok",
                      NEW f \in body[r].entries
               PROVE  Live(r)[f] = Whole(r) \/ Live(r)[f].by \in rivals[r]
    BY DEF InstalledUnlessSuperseded, Live, PlanOf, VettedPlan
  <2>1. pc[r] = "end" /\ job[r] # "unpack" /\ Admitted(r)
    BY DEF TypeOK, Discipline, Disciplined, Refusals
  <2>2. f \in Finished(r)
    BY <2>1 DEF Finished
  <2> QED
    BY <2>1, <2>2 DEF Installed, Placed
<1> QED
  BY <1>1, InstalledAlways, PTL
-----------------------------------------------------------------------------
(* The old files are saved first.                                          *)

(* Backups are on for the call, and no other is at work on its directory   *)
(* while it is, or uses its snapshot.                                      *)
Clear(r) ==
  /\ Admitted(r) /\ PlanOf(r).backup_enabled
  /\ \A o \in Request : ~ Overlap(r, o) /\ ~ SameSnapshot(r, o)

Saved(r, f) == prior[r][f] # Absent => snaps[SnapDirOf(r)][stamp[r]][f] = prior[r][f]

BeforeCopied(r) == pc[r] \in {"before", "verify", "backup"} \/ job[r] = "copy"
Overwriting(r)  == pc[r] \in {"unpack", "after"} \/ job[r] = "unpack" \/ answer[r] = "ok"

(* The directory is the one the call found until its copy is made; what    *)
(* the copy has passed is in the snapshot, and all of it is there once the *)
(* call unpacks, and from then on.                                         *)
Kept(r) ==
  /\ BeforeCopied(r) => Live(r) = prior[r]
  /\ job[r] = "copy" => \A f \in File \ todo[r] : Saved(r, f)
  /\ Overwriting(r) \/ (\E d \in Dir, f \in File : disk[d][f].by = r)
       => \A f \in File : Saved(r, f)

Backups ==
  /\ \A r \in Request : pc[r] = "backup" \/ job[r] = "copy" => PlanOf(r).backup_enabled
  /\ \A r \in Request : Clear(r) => Kept(r)

(* Only the copy of a backup writes to the snapshots.                      *)
LEMMA SnapWrites ==
  ASSUME TypeOK, [Next]_vars, snaps' # snaps
  PROVE  \E q \in Request, g \in File : CopyFile(q, g)
<1> USE DEF machine, disks, task, history
<1>1. ASSUME NEW q \in Request, Refuse(q) \/ Admit(q) \/ HandlerStep(q) PROVE FALSE
  BY <1>1 DEF Refuse, Admit, HandlerStep, BeforeStart, BeforeSkip, Verify, BackupStart,
     UnpackStart, AfterStart, AfterSkip
<1>2. ASSUME NEW q \in Request, JobStep(q) PROVE \E g \in File : CopyFile(q, g)
  BY <1>2 DEF JobStep, OpenEntry, BackupDone, CloseEntry, UnpackDone
<1>3. ASSUME NEW q \in Request, HookExit(q) \/ Fault(q) PROVE FALSE
  BY <1>3 DEF HookExit, BeforeSucceeds, BeforeFails, AfterExits, OrphanExits,
     Fault, JobFails, StageFails, Drop
<1>4. ASSUME Crash \/ Restart \/ Reload \/ Tick \/ UNCHANGED vars PROVE FALSE
  BY <1>4 DEF Crash, Restart, Reload, Tick, vars
<1> QED
  BY <1>1, <1>2, <1>3, <1>4 DEF Next, CallStep

(* The order of the stages, as far as the backup is concerned: the copy    *)
(* starts from the whole directory, and unpacking after the whole copy.    *)
LEMMA StageOrder ==
  ASSUME TypeOK, Discipline, [Next]_vars, NEW r \in Request, Admitted(r)
  PROVE  /\ BeforeCopied(r)' => BeforeCopied(r)
         /\ job'[r] = "copy" =>
              \/ job[r] = "copy" /\ todo'[r] = todo[r]
              \/ \E f \in File : CopyFile(r, f)
              \/ BackupStart(r)
         /\ Overwriting(r)' => \/ Overwriting(r)
                               \/ job[r] = "copy" /\ todo[r] = {}
                               \/ ~ PlanOf(r).backup_enabled
         /\ pc'[r] = "backup" \/ job'[r] = "copy" =>
              pc[r] = "backup" \/ job[r] = "copy" \/ PlanOf(r).backup_enabled
<1> USE DEF TypeOK, machine, disks, task, history, Finish, GoTo, Collect, Fail, Succeed,
            BeforeCopied, Overwriting
<1>0. Disciplined(r) /\ ~ Admit(r)
  BY Steady DEF Discipline
<1>1. CASE Still(r)
  BY <1>1 DEF Still
<1>2. CASE Crash
  BY <1>2 DEF Crash
<1>3. ~ Refuse(r)
  BY <1>0 DEF Refuse, Disciplined
<1>4. CASE HandlerStep(r)
  <2>1. CASE BeforeStart(r) \/ BeforeSkip(r) \/ BackupStart(r) \/ UnpackStart(r)
    BY <2>1 DEF BeforeStart, BeforeSkip, BackupStart, UnpackStart
  <2>2. CASE Verify(r)
    BY <2>2 DEF Verify, AfterVerify
  <2>3. CASE AfterStart(r) \/ AfterSkip(r)
    BY <2>3 DEF AfterStart, AfterSkip
  <2> QED
    BY <1>4, <2>1, <2>2, <2>3 DEF HandlerStep
<1>5. CASE JobStep(r)
  <2>1. CASE BackupDone(r)
    BY <1>0, <2>1 DEF BackupDone, Disciplined
  <2>2. CASE CloseEntry(r) \/ UnpackDone(r)
    BY <1>0, <2>2 DEF CloseEntry, UnpackDone, Disciplined
  <2>3. CASE \E f \in File : CopyFile(r, f)
    BY <2>3 DEF CopyFile
  <2>4. CASE \E f \in File : OpenEntry(r, f)
    BY <2>4 DEF OpenEntry
  <2> QED
    BY <1>5, <2>1, <2>2, <2>3, <2>4 DEF JobStep
<1>6. CASE HookExit(r)
  BY <1>6 DEF HookExit, BeforeSucceeds, BeforeFails, AfterExits, OrphanExits
<1>7. CASE Fault(r)
  BY <1>7 DEF Fault, JobFails, StageFails, Drop
<1> QED
  BY <1>0, <1>1, <1>2, <1>3, <1>4, <1>5, <1>6, <1>7, StepOf DEF CallStep

(* Who gets in a call's way stays in its way.                              *)
LEMMA ClearBefore ==
  ASSUME TypeOK, Discipline, Met, [Next]_vars, NEW r \in Request, Admitted(r), Clear(r)'
  PROVE  Clear(r)
<1>1. PlanOf(r).backup_enabled
  BY Steady DEF Clear
<1>2. ASSUME NEW o \in Request, Overlap(r, o) PROVE FALSE
  <2>1. Overlap(r, o)'
    BY <1>2, RivalsGrow DEF Overlap
  <2> QED
    BY <2>1 DEF Clear
<1>3. ASSUME NEW o \in Request, SameSnapshot(r, o) PROVE FALSE
  <2>1. Admitted(o) /\ o # r
    BY <1>3 DEF SameSnapshot
  <2>2. SameSnapshot(r, o)'
    BY <1>3, <2>1, Steady DEF SameSnapshot, VettedPlan, PlanOf
  <2> QED
    BY <2>2 DEF Clear
<1> QED
  BY <1>1, <1>2, <1>3 DEF Clear
(* What the copy has passed is saved, if the directory is as it was found. *)
LEMMA CopySaves ==
  ASSUME TypeOK, Discipline, Met, [Next]_vars, NEW r \in Request, Clear(r),
         NEW f \in File, CopyFile(r, f), Live(r) = prior[r]
  PROVE  Saved(r, f)' /\ todo'[r] = todo[r] \ {f}
<1>0. ~ BeingReplaced(r, f)
  <2>1. ASSUME NEW o \in Request \ {r}, job[o] = "unpack",
               PlanOf(o).deploy_path = PlanOf(r).deploy_path
        PROVE  FALSE
    <3>1. Admitted(o) /\ Admitted(r) /\ Active(r)
      BY <2>1 DEF Discipline, Disciplined, Clear, CopyFile, Active
    <3> QED
      BY <2>1, <3>1, WritersAreRivals DEF Clear
  <2> QED
    BY <2>1 DEF BeingReplaced
<1>1. Admitted(r)
  BY DEF CopyFile, Discipline, Disciplined
<1>2. SnapDirOf(r) \in SnapDir /\ stamp[r] \in Second
  BY <1>1, HeldPlan DEF TypeOK
<1>3. SnapDirOf(r)' = SnapDirOf(r) /\ stamp'[r] = stamp[r] /\ prior'[r] = prior[r]
  BY <1>1, Steady
<1>4. prior[r][f] # Absent => snaps'[SnapDirOf(r)][stamp[r]][f] = prior[r][f]
  <2>1. ASSUME prior[r][f] # Absent
        PROVE  snaps' = [snaps EXCEPT ![SnapDirOf(r)][stamp[r]][f] = prior[r][f]]
    BY <1>0, <2>1 DEF CopyFile, Present
  <2> QED
    BY <1>2, <2>1 DEF TypeOK, Tree
<1> QED
  BY <1>3, <1>4 DEF Saved, CopyFile, TypeOK

(* A saved file stays saved: other copies go to other snapshots.           *)
LEMMA SavedStays ==
  ASSUME TypeOK, Discipline, Met, Backups, [Next]_vars, NEW r \in Request, Clear(r),
         NEW f \in File, Saved(r, f)
  PROVE  Saved(r, f)'
<1>1. Admitted(r) /\ Kept(r)
  BY DEF Clear, Backups
<1>2. SnapDirOf(r)' = SnapDirOf(r) /\ stamp'[r] = stamp[r] /\ prior'[r] = prior[r]
  BY <1>1, Steady
<1>3. CASE snaps' = snaps
  BY <1>2, <1>3 DEF Saved
<1>4. ASSUME NEW q \in Request, NEW g \in File, CopyFile(q, g) PROVE Saved(r, f)'
  <2>1. Admitted(q) /\ job[q] = "copy" /\ PlanOf(q).backup_enabled
    BY <1>4 DEF CopyFile, Discipline, Disciplined, Backups
  <2>2. CASE q = r /\ g = f
    BY <1>1, <1>4, <2>1, <2>2, CopySaves DEF Kept, BeforeCopied
  <2>3. CASE q # r \/ g # f
    <3>1. SnapDirOf(q) # SnapDirOf(r) \/ stamp[q] # stamp[r] \/ g # f
      BY <2>1, <2>3 DEF Clear, SameSnapshot, VettedPlan, PlanOf
    <3>2. SnapDirOf(q) \in SnapDir /\ SnapDirOf(r) \in SnapDir
          /\ stamp[q] \in Second /\ stamp[r] \in Second
      BY <1>1, <2>1, HeldPlan DEF TypeOK
    <3>3. snaps'[SnapDirOf(r)][stamp[r]][f] = snaps[SnapDirOf(r)][stamp[r]][f]
      <4>1. \/ snaps' = snaps
            \/ snaps' = [snaps EXCEPT ![SnapDirOf(q)][stamp[q]][g] = Live(q)[g]]
        BY <1>4 DEF CopyFile
      <4>2. CASE snaps' = [snaps EXCEPT ![SnapDirOf(q)][stamp[q]][g] = Live(q)[g]]
        <5> DEFINE s == SnapDirOf(q)
        <5>1. /\ \A d \in SnapDir \ {s} : snaps'[d] = snaps[d]
              /\ snaps'[s] = [snaps[s] EXCEPT ![stamp[q]][g] = Live(q)[g]]
          BY <3>2, <4>2 DEF TypeOK
        <5>2. /\ \A t \in Second \ {stamp[q]} : snaps'[s][t] = snaps[s][t]
              /\ \A h \in File \ {g} : snaps'[s][stamp[q]][h] = snaps[s][stamp[q]][h]
          BY <3>2, <5>1 DEF TypeOK, Tree
        <5> QED
          BY <3>1, <3>2, <5>1, <5>2
      <4> QED
        BY <4>1, <4>2
    <3> QED
      BY <1>2, <3>3 DEF Saved
  <2> QED
    BY <2>2, <2>3
<1> QED
  BY <1>3, <1>4, SnapWrites

(* The directory of a call that nobody is in the way of is as it was found *)
(* until it unpacks.                                                       *)
LEMMA FoundStays ==
  ASSUME TypeOK, Discipline, Met, [Next]_vars, NEW r \in Request, Clear(r),
         BeforeCopied(r), Live(r) = prior[r]
  PROVE  Live(r)' = prior[r]
<1>1. Admitted(r) /\ PlanOf(r).deploy_path \in Dir
  BY HeldPlan DEF Clear
<1>2. Live(r)' = disk'[PlanOf(r).deploy_path]
  BY <1>1, Steady DEF Live
<1>3. Active(r) /\ job[r] # "unpack"
  BY DEF BeforeCopied, Active, Handling, Stages, Discipline, Disciplined
<1>4. ASSUME NEW f \in File, disk'[PlanOf(r).deploy_path][f] # disk[PlanOf(r).deploy_path][f]
      PROVE  FALSE
  <2>1. PICK q \in Request : job[q] = "unpack" /\ Admitted(q)
                             /\ PlanOf(q).deploy_path = PlanOf(r).deploy_path
    BY <1>1, <1>4, DiskWrites
  <2>2. q # r
    BY <1>3, <2>1
  <2>3. Overlap(r, q)
    BY <1>1, <1>3, <2>1, <2>2, WritersAreRivals
  <2> QED
    BY <2>3 DEF Clear
<1>5. disk[PlanOf(r).deploy_path] \in Tree /\ disk'[PlanOf(r).deploy_path] \in Tree
  BY <1>1, TypeStep DEF TypeOK
<1> QED
  BY <1>2, <1>4, <1>5 DEF Live, Tree
(* An admitted call has found the directory as it is, and none of its      *)
(* files is there yet.                                                     *)
LEMMA KeptFromTheStart ==
  ASSUME TypeOK, Discipline, OnlyVettedContent, [Next]_vars, NEW r \in Request, Admit(r)
  PROVE  Kept(r)' /\ pc'[r] = "before" /\ job'[r] = "none"
<1>1. ~ Admitted(r) /\ job[r] = "none" /\ answer[r] = "none"
  BY DEF Admit, Discipline, Disciplined
<1>2. /\ disk' = disk /\ pc'[r] = "before" /\ job'[r] = "none" /\ answer'[r] = "none"
      /\ prior'[r] = disk[config.packages[body[r].package_name].deploy_path]
      /\ held'[r] = config /\ body' = body
  BY <1>1 DEF Admit, GoTo, disks, task, TypeOK
<1>3. Live(r)' = prior'[r]
  BY <1>2 DEF Live, PlanOf
<1>4. \A d \in Dir, f \in File : disk'[d][f].by # r
  BY <1>1, <1>2 DEF OnlyVettedContent, MayHold
<1> QED
  BY <1>2, <1>3, <1>4 DEF Kept, Overwriting

(* What a call that nobody is in the way of has kept so far, it keeps.     *)
LEMMA KeptOn ==
  ASSUME TypeOK, Discipline, Met, Backups, [Next]_vars, NEW r \in Request,
         Admitted(r), Clear(r)'
  PROVE  Kept(r)'
<1>1. Clear(r) /\ Kept(r) /\ prior'[r] = prior[r]
  BY ClearBefore, Steady DEF Backups
<1>2. BeforeCopied(r)' => Live(r)' = prior'[r]
  BY <1>1, StageOrder, FoundStays DEF Kept
<1>3. ASSUME job'[r] = "copy", NEW f \in File \ todo'[r] PROVE Saved(r, f)'
  <2>1. CASE job[r] = "copy" /\ todo'[r] = todo[r]
    BY <1>1, <1>3, <2>1, SavedStays DEF Kept
  <2>2. ASSUME NEW g \in File, CopyFile(r, g) PROVE Saved(r, f)'
    <3>1. job[r] = "copy" /\ Live(r) = prior[r]
      BY <1>1, <2>2 DEF CopyFile, Kept, BeforeCopied
    <3>2. CASE f = g
      BY <1>1, <2>2, <3>1, <3>2, CopySaves
    <3>3. CASE f # g
      <4>1. f \notin todo[r]
        BY <1>1, <1>3, <2>2, <3>1, <3>3, CopySaves
      <4> QED
        BY <1>1, <3>1, <4>1, SavedStays DEF Kept
    <3> QED
      BY <3>2, <3>3
  <2>3. CASE BackupStart(r)
    <3>1. Live(r) = prior[r] /\ Present(Live(r)) \subseteq todo'[r] /\ snaps' = snaps
      BY <1>1, <2>3 DEF BackupStart, Kept, BeforeCopied, TypeOK, disks
    <3>2. prior[r][f] = Absent
      BY <1>3, <3>1 DEF Present
    <3> QED
      BY <1>1, <3>2 DEF Saved
  <2> QED
    BY <1>3, <2>1, <2>2, <2>3, StageOrder
<1>4. ASSUME Overwriting(r)' \/ \E d \in Dir, f \in File : disk'[d][f].by = r,
             NEW f \in File
      PROVE  Saved(r, f)'
  <2>1. \/ Overwriting(r)
        \/ job[r] = "copy" /\ todo[r] = {}
        \/ \E d \in Dir, g \in File : disk[d][g].by = r
    <3>1. CASE Overwriting(r)'
      BY <1>1, <3>1, StageOrder DEF Clear
    <3>2. ASSUME NEW d \in Dir, NEW g \in File, disk'[d][g].by = r, disk[d][g].by # r
          PROVE  Overwriting(r)
      <4>1. PICK q \in Request :
              job[q] = "unpack" /\ (disk'[d][g] = Torn(q) \/ disk'[d][g] = Whole(q))
        BY <3>2, DiskWrites
      <4>2. q = r
        BY <3>2, <4>1 DEF Torn, Whole
      <4> QED
        BY <4>1, <4>2 DEF Overwriting
    <3> QED
      BY <1>4, <3>1, <3>2
  <2>2. Saved(r, f)
    BY <1>1, <2>1 DEF Kept
  <2> QED
    BY <1>1, <2>2, SavedStays
<1> QED
  BY <1>2, <1>3, <1>4 DEF Kept

(* Admitted or going on, a call keeps its backup.                          *)
LEMMA BackupsStep ==
  ASSUME TypeOK, Discipline, Discipline', Met, Backups, OnlyVettedContent, [Next]_vars
  PROVE  Backups'
<1>1. ASSUME NEW r \in Request, Admitted(r)
      PROVE  /\ pc'[r] = "backup" \/ job'[r] = "copy" => PlanOf(r)'.backup_enabled
             /\ Clear(r)' => Kept(r)'
  <2>1. pc'[r] = "backup" \/ job'[r] = "copy" => PlanOf(r)'.backup_enabled
    BY <1>1, StageOrder, Steady DEF Backups
  <2>2. Clear(r)' => Kept(r)'
    BY <1>1, KeptOn
  <2> QED
    BY <2>1, <2>2
<1>2. ASSUME NEW r \in Request, ~ Admitted(r), Admitted(r)'
      PROVE  pc'[r] = "before" /\ job'[r] = "none" /\ Kept(r)'
  BY <1>2, AdmittedEmpty, KeptFromTheStart
<1>3. ASSUME NEW r \in Request, ~ Admitted(r)'
      PROVE  pc'[r] # "backup" /\ job'[r] # "copy" /\ ~ Clear(r)'
  BY <1>3 DEF Clear, Discipline, Disciplined, Refusals
<1> QED
  BY <1>1, <1>2, <1>3 DEF Backups

(* With backups on, no file of the previous deployment is overwritten      *)
(* before the snapshot holds all of that deployment, and who is told       *)
(* "deployed" has it there for good, unless another call was at work on    *)
(* the directory meanwhile or uses the same snapshot: for any number of    *)
(* calls, files, packages, reloads and crashes.                            *)
THEOREM SavedFirst == Spec => []SnapshotFirst
<1>1. Init => Backups
  BY DEF Init, Backups, Clear, Admitted
<1>2. TypeOK /\ Discipline /\ Met /\ OnlyVettedContent /\ Backups /\ [Next]_vars => Backups'
  BY DisciplineStep, BackupsStep
<1>3. Backups => SnapshotFirst
  <2> SUFFICES ASSUME Backups, NEW r \in Request, Clear(r),
                      answer[r] = "ok" \/ \E d \in Dir, f \in File : disk[d][f].by = r
               PROVE  \A f \in File : Saved(r, f)
    BY DEF SnapshotFirst, Clear, Saved, VettedPlan, PlanOf
  <2> QED
    BY DEF Backups, Kept, Overwriting
<1> QED
  BY <1>1, <1>2, <1>3, InstalledAlways, OnlyVetted, PTL DEF Spec
===============================================================================
