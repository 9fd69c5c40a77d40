--------------------------- MODULE DeployServerProofs ---------------------------
(***************************************************************************)
(* What DeployServer promises, for any number of calls, packages, keys,    *)
(* files, directories, configurations and crashes.                         *)
(***************************************************************************)
EXTENDS DeployServer, FiniteSetTheorems, TLAPS

(* A configuration is not the mark for "no snapshot taken".                *)
LEMMA ConfigIsConfig == NoConfig \notin Config
<1>1. ASSUME NoConfig \in Config PROVE FALSE
  <2>1. NoConfig \in ServerConfig
    BY <1>1, ConfigAssumption
  <2>2. DOMAIN NoConfig = {"allowed_keys", "max_file_size", "packages"}
    BY <2>1 DEF ServerConfig
  <2>3. DOMAIN NoConfig = {"none"}
    BY DEF NoConfig
  <2>4. QED BY <2>2, <2>3
<1>2. QED BY <1>1

(* An accepted body names a package the configuration knows, and what it   *)
(* says of that package is well formed.                                    *)
LEMMA AdmittedPlan ==
  ASSUME NEW c \in Config, NEW b \in Body, Verdict(c, b) = "admit"
  PROVE  c.packages[b.package_name] \in Plan
<1>1. b.package_name \in DOMAIN c.packages
  BY DEF Verdict, Configured
<1>2. PICK P \in SUBSET Package : c.packages \in [P -> Plan]
  <2>1. c \in ServerConfig
    BY ConfigAssumption
  <2>2. c.packages \in UNION {[P -> Plan] : P \in SUBSET Package}
    BY <2>1 DEF ServerConfig
  <2>3. QED BY <2>2
<1>3. QED BY <1>1, <1>2

(* What a call that was admitted works with.                               *)
LEMMA HeldPlan ==
  ASSUME TypeOK, Discipline, NEW r \in Request, Admitted(r)
  PROVE  /\ PlanOf(r) \in Plan
         /\ PlanOf(r).deploy_path \in Dir
         /\ SnapDirOf(r) \in SnapDir
<1>1. held[r] \in Config /\ body[r] \in Body /\ Verdict(held[r], body[r]) = "admit"
  BY DEF TypeOK, Discipline, Disciplined
<1>2. PlanOf(r) \in Plan
  BY <1>1, AdmittedPlan DEF PlanOf
<1>3. body[r].package_name \in Package
  BY <1>1, BodyAssumption DEF DeployRequest
<1>4. QED
  BY <1>2, <1>3 DEF Plan, SnapDirOf, SnapDir

(* Every step keeps the types.  Only the steps that write to a directory   *)
(* need to know that the call was admitted.                                *)
LEMMA TypeStep == TypeOK /\ Discipline /\ [Next]_vars => TypeOK'
<1> SUFFICES ASSUME TypeOK, Discipline, [Next]_vars PROVE TypeOK'
  OBVIOUS
<1> USE DEF TypeOK, machine, disks, task, history, Finish, GoTo, Collect, Fail, Succeed,
            Stages, Answers, Refusals
<1>1. ASSUME NEW r \in Request, Refuse(r) PROVE TypeOK'
  <2>1. Verdict(config, body[r]) \in Refusals
    BY <1>1 DEF Refuse, Verdict
  <2>2. QED BY <1>1, <2>1 DEF Refuse
<1>2. ASSUME NEW r \in Request, Admit(r) PROVE TypeOK'
  <2>1. config.packages[body[r].package_name] \in Plan
    BY <1>2, AdmittedPlan DEF Admit
  <2>2. prior' \in [Request -> Tree]
    BY <1>2, <2>1 DEF Admit, Plan
  <2>3. rivals' \in [Request -> SUBSET Request]
    BY <1>2 DEF Admit
  <2>4. held' \in [Request -> Config \cup {NoConfig}] /\ stamp' \in [Request -> Second]
    BY <1>2 DEF Admit, StartTime
  <2>5. QED BY <1>2, <2>2, <2>3, <2>4 DEF Admit
<1>3. ASSUME NEW r \in Request, BeforeStart(r) PROVE TypeOK'
  BY <1>3 DEF BeforeStart
<1>4. ASSUME NEW r \in Request, BeforeSkip(r) PROVE TypeOK'
  BY <1>4 DEF BeforeSkip
<1>5. ASSUME NEW r \in Request, BeforeSucceeds(r) PROVE TypeOK'
  BY <1>5 DEF BeforeSucceeds
<1>6. ASSUME NEW r \in Request, BeforeFails(r) PROVE TypeOK'
  BY <1>6 DEF BeforeFails
<1>7. ASSUME NEW r \in Request, Verify(r) PROVE TypeOK'
  BY <1>7 DEF Verify, AfterVerify
<1>8. ASSUME NEW r \in Request, BackupStart(r) PROVE TypeOK'
  BY <1>8 DEF BackupStart, Present
<1>9. ASSUME NEW r \in Request, NEW f \in File, CopyFile(r, f) PROVE TypeOK'
  <2>1. Admitted(r)
    BY <1>9 DEF CopyFile, Discipline, Disciplined
  <2>2. Live(r)[f] \in Content
    BY <2>1, HeldPlan DEF Live, Tree
  <2>3. snaps' \in [SnapDir -> [Second -> Tree]]
    <3> DEFINE d == SnapDirOf(r)
               s == stamp[r]
    <3>1. d \in SnapDir /\ s \in Second
      BY <2>1, HeldPlan
    <3>2. [snaps[d][s] EXCEPT ![f] = Live(r)[f]] \in Tree
      BY <3>1, <2>2 DEF Tree
    <3>3. [snaps[d] EXCEPT ![s] = [snaps[d][s] EXCEPT ![f] = Live(r)[f]]] \in [Second -> Tree]
      BY <3>1, <3>2
    <3>4. snaps' = [snaps EXCEPT ![d] = [snaps[d] EXCEPT ![s] =
                      [snaps[d][s] EXCEPT ![f] = Live(r)[f]]]] \/ snaps' = snaps
      BY <1>9 DEF CopyFile
    <3>5. QED BY <3>1, <3>3, <3>4
  <2>4. QED BY <1>9, <2>3 DEF CopyFile
<1>10. ASSUME NEW r \in Request, BackupDone(r) PROVE TypeOK'
  BY <1>10 DEF BackupDone
<1>11. ASSUME NEW r \in Request, UnpackStart(r) PROVE TypeOK'
  BY <1>11, BodyAssumption DEF UnpackStart, DeployRequest
<1>12. ASSUME NEW r \in Request, NEW f \in File, OpenEntry(r, f) PROVE TypeOK'
  <2>1. Torn(r) \in Content
    BY DEF Torn, Content, Writer
  <2>2. disk' \in [Dir -> Tree]
    BY <1>12, <2>1 DEF OpenEntry, Tree
  <2>3. QED BY <1>12, <2>2 DEF OpenEntry
<1>13. ASSUME NEW r \in Request, CloseEntry(r) PROVE TypeOK'
  <2>1. Whole(r) \in Content
    BY DEF Whole, Content, Writer
  <2>2. disk' \in [Dir -> Tree]
    BY <1>13, <2>1 DEF CloseEntry, Tree
  <2>3. QED BY <1>13, <2>2 DEF CloseEntry
<1>14. ASSUME NEW r \in Request, UnpackDone(r) PROVE TypeOK'
  BY <1>14 DEF UnpackDone, Unpacked
<1>15. ASSUME NEW r \in Request, AfterStart(r) PROVE TypeOK'
  BY <1>15 DEF AfterStart
<1>16. ASSUME NEW r \in Request, AfterSkip(r) PROVE TypeOK'
  BY <1>16 DEF AfterSkip
<1>17. ASSUME NEW r \in Request, AfterExits(r) PROVE TypeOK'
  BY <1>17 DEF AfterExits
<1>18. ASSUME NEW r \in Request, OrphanExits(r) PROVE TypeOK'
  BY <1>18 DEF OrphanExits
<1>19. ASSUME NEW r \in Request, JobFails(r) PROVE TypeOK'
  BY <1>19 DEF JobFails, Handling
<1>20. ASSUME NEW r \in Request, StageFails(r) PROVE TypeOK'
  BY <1>20 DEF StageFails
<1>21. ASSUME NEW r \in Request, Drop(r) PROVE TypeOK'
  BY <1>21 DEF Drop, Handling
<1>22. CASE Crash
  <2>1. crashes' \in 0 .. MaxCrash
    BY <1>22, BoundsAssumption DEF Crash
  <2>2. pc' \in [Request -> Stages \cup {"new", "end"}] /\ answer' \in [Request -> Answers]
    BY <1>22 DEF Crash, Handling
  <2>3. QED BY <1>22, <2>1, <2>2 DEF Crash
<1>23. CASE Restart
  BY <1>23 DEF Restart
<1>24. CASE Reload
  BY <1>24 DEF Reload
<1>25. CASE Tick
  BY <1>25, BoundsAssumption DEF Tick, Second
<1>26. CASE UNCHANGED vars
  BY <1>26 DEF vars
<1>27. QED
  BY <1>1, <1>2, <1>3, <1>4, <1>5, <1>6, <1>7, <1>8, <1>9, <1>10, <1>11, <1>12, <1>13, <1>14, <1>15, <1>16, <1>17, <1>18, <1>19, <1>20, <1>21, <1>22, <1>23, <1>24, <1>25, <1>26
     DEF Next, CallStep, HandlerStep, JobStep, HookExit, Fault

(* A call keeps its discipline through a step that leaves it alone.        *)
LEMMA Undisturbed ==
  ASSUME NEW o \in Request, Disciplined(o),
         <<body[o], pc[o], held[o], job[o], todo[o], opened[o], hook[o], log[o], answer[o]>>'
           = <<body[o], pc[o], held[o], job[o], todo[o], opened[o], hook[o], log[o], answer[o]>>
  PROVE  Disciplined(o)'
BY DEF Disciplined, Admitted, Cleared

(* Every step of any call keeps the discipline of every call: one case per *)
(* action, the call that takes the step and the others apart.              *)
LEMMA DisciplineStep == TypeOK /\ Discipline /\ [Next]_vars => Discipline'
<1> SUFFICES ASSUME TypeOK, Discipline, [Next]_vars, NEW o \in Request
             PROVE  Disciplined(o)'
  BY DEF Discipline
<1> Disciplined(o)
  BY DEF Discipline
<1> USE DEF TypeOK, machine, disks, task, history, Finish, GoTo, Collect, Fail, Succeed,
            Stages, Answers, Refusals, Admitted, Handling, Cleared
<1>1. ASSUME NEW r \in Request, Refuse(r) PROVE Disciplined(o)'
  <2>1. CASE o # r
    BY <1>1, <2>1, Undisturbed DEF Refuse
  <2>2. CASE o = r
    <3>1. Verdict(config, body[r]) \in Refusals
      BY <1>1 DEF Refuse, Verdict
    <3>2. QED BY <1>1, <2>2, <3>1 DEF Refuse, Disciplined
  <2>3. QED BY <2>1, <2>2
<1>2. ASSUME NEW r \in Request, Admit(r) PROVE Disciplined(o)'
  <2>1. CASE o # r
    BY <1>2, <2>1, Undisturbed DEF Admit
  <2>2. CASE o = r
    BY <1>2, <2>2, ConfigIsConfig DEF Admit, Disciplined
  <2>3. QED BY <2>1, <2>2
<1>3. ASSUME NEW r \in Request, BeforeStart(r) PROVE Disciplined(o)'
  <2>1. CASE o # r
    BY <1>3, <2>1, Undisturbed DEF BeforeStart
  <2>2. CASE o = r
    BY <1>3, <2>2 DEF BeforeStart, Disciplined
  <2>3. QED BY <2>1, <2>2
<1>4. ASSUME NEW r \in Request, BeforeSkip(r) PROVE Disciplined(o)'
  <2>1. CASE o # r
    BY <1>4, <2>1, Undisturbed DEF BeforeSkip
  <2>2. CASE o = r
    BY <1>4, <2>2 DEF BeforeSkip, Disciplined
  <2>3. QED BY <2>1, <2>2
<1>5. ASSUME NEW r \in Request, BeforeSucceeds(r) PROVE Disciplined(o)'
  <2>1. CASE o # r
    BY <1>5, <2>1, Undisturbed DEF BeforeSucceeds
  <2>2. CASE o = r
    BY <1>5, <2>2 DEF BeforeSucceeds, Disciplined
  <2>3. QED BY <2>1, <2>2
<1>6. ASSUME NEW r \in Request, BeforeFails(r) PROVE Disciplined(o)'
  <2>1. CASE o # r
    BY <1>6, <2>1, Undisturbed DEF BeforeFails
  <2>2. CASE o = r
    BY <1>6, <2>2 DEF BeforeFails, Disciplined
  <2>3. QED BY <2>1, <2>2
<1>7. ASSUME NEW r \in Request, Verify(r) PROVE Disciplined(o)'
  <2>1. CASE o # r
    BY <1>7, <2>1, Undisturbed DEF Verify
  <2>2. CASE o = r
    BY <1>7, <2>2 DEF Verify, AfterVerify, Disciplined
  <2>3. QED BY <2>1, <2>2
<1>8. ASSUME NEW r \in Request, BackupStart(r) PROVE Disciplined(o)'
  <2>1. CASE o # r
    BY <1>8, <2>1, Undisturbed DEF BackupStart
  <2>2. CASE o = r
    BY <1>8, <2>2 DEF BackupStart, Disciplined
  <2>3. QED BY <2>1, <2>2
<1>9. ASSUME NEW r \in Request, BackupDone(r) PROVE Disciplined(o)'
  <2>1. CASE o # r
    BY <1>9, <2>1, Undisturbed DEF BackupDone
  <2>2. CASE o = r
    BY <1>9, <2>2 DEF BackupDone, Disciplined
  <2>3. QED BY <2>1, <2>2
<1>10. ASSUME NEW r \in Request, UnpackStart(r) PROVE Disciplined(o)'
  <2>1. CASE o # r
    BY <1>10, <2>1, Undisturbed DEF UnpackStart
  <2>2. CASE o = r
    BY <1>10, <2>2 DEF UnpackStart, Disciplined
  <2>3. QED BY <2>1, <2>2
<1>11. ASSUME NEW r \in Request, CloseEntry(r) PROVE Disciplined(o)'
  <2>1. CASE o # r
    BY <1>11, <2>1, Undisturbed DEF CloseEntry
  <2>2. CASE o = r
    BY <1>11, <2>2 DEF CloseEntry, Disciplined
  <2>3. QED BY <2>1, <2>2
<1>12. ASSUME NEW r \in Request, UnpackDone(r) PROVE Disciplined(o)'
  <2>1. CASE o # r
    BY <1>12, <2>1, Undisturbed DEF UnpackDone
  <2>2. CASE o = r
    BY <1>12, <2>2 DEF UnpackDone, Unpacked, Disciplined
  <2>3. QED BY <2>1, <2>2
<1>13. ASSUME NEW r \in Request, AfterStart(r) PROVE Disciplined(o)'
  <2>1. CASE o # r
    BY <1>13, <2>1, Undisturbed DEF AfterStart
  <2>2. CASE o = r
    BY <1>13, <2>2 DEF AfterStart, Disciplined
  <2>3. QED BY <2>1, <2>2
<1>14. ASSUME NEW r \in Request, AfterSkip(r) PROVE Disciplined(o)'
  <2>1. CASE o # r
    BY <1>14, <2>1, Undisturbed DEF AfterSkip
  <2>2. CASE o = r
    BY <1>14, <2>2 DEF AfterSkip, Disciplined
  <2>3. QED BY <2>1, <2>2
<1>15. ASSUME NEW r \in Request, AfterExits(r) PROVE Disciplined(o)'
  <2>1. CASE o # r
    BY <1>15, <2>1, Undisturbed DEF AfterExits
  <2>2. CASE o = r
    BY <1>15, <2>2 DEF AfterExits, Disciplined
  <2>3. QED BY <2>1, <2>2
<1>16. ASSUME NEW r \in Request, OrphanExits(r) PROVE Disciplined(o)'
  <2>1. CASE o # r
    BY <1>16, <2>1, Undisturbed DEF OrphanExits
  <2>2. CASE o = r
    BY <1>16, <2>2 DEF OrphanExits, Disciplined
  <2>3. QED BY <2>1, <2>2
<1>17. ASSUME NEW r \in Request, JobFails(r) PROVE Disciplined(o)'
  <2>1. CASE o # r
    BY <1>17, <2>1, Undisturbed DEF JobFails
  <2>2. CASE o = r
    BY <1>17, <2>2 DEF JobFails, Disciplined
  <2>3. QED BY <2>1, <2>2
<1>18. ASSUME NEW r \in Request, StageFails(r) PROVE Disciplined(o)'
  <2>1. CASE o # r
    BY <1>18, <2>1, Undisturbed DEF StageFails
  <2>2. CASE o = r
    BY <1>18, <2>2 DEF StageFails, Disciplined
  <2>3. QED BY <2>1, <2>2
<1>19. ASSUME NEW r \in Request, Drop(r) PROVE Disciplined(o)'
  <2>1. CASE o # r
    BY <1>19, <2>1, Undisturbed DEF Drop
  <2>2. CASE o = r
    BY <1>19, <2>2 DEF Drop, Disciplined
  <2>3. QED BY <2>1, <2>2
<1>20. ASSUME NEW r \in Request, NEW f \in File, CopyFile(r, f) PROVE Disciplined(o)'
  <2>1. CASE o # r
    BY <1>20, <2>1, Undisturbed DEF CopyFile
  <2>2. CASE o = r
    BY <1>20, <2>2 DEF CopyFile, Disciplined
  <2>3. QED BY <2>1, <2>2
<1>21. ASSUME NEW r \in Request, NEW f \in File, OpenEntry(r, f) PROVE Disciplined(o)'
  <2>1. CASE o # r
    BY <1>21, <2>1, Undisturbed DEF OpenEntry
  <2>2. CASE o = r
    BY <1>21, <2>2 DEF OpenEntry, Disciplined
  <2>3. QED BY <2>1, <2>2
<1>22. CASE Crash
  BY <1>22 DEF Crash, Disciplined
<1>23. CASE Restart
  BY <1>23, Undisturbed DEF Restart
<1>24. CASE Reload
  BY <1>24, Undisturbed DEF Reload
<1>25. CASE Tick
  BY <1>25, Undisturbed DEF Tick
<1>26. CASE UNCHANGED vars
  BY <1>26, Undisturbed DEF vars
<1>27. QED
  BY <1>1, <1>2, <1>3, <1>4, <1>5, <1>6, <1>7, <1>8, <1>9, <1>10, <1>11, <1>12, <1>13, <1>14, <1>15, <1>16, <1>17, <1>18, <1>19, <1>20, <1>21, <1>22, <1>23, <1>24, <1>25, <1>26
     DEF Next, CallStep, HandlerStep, JobStep, HookExit, Fault

(* In every reachable state the variables have their types and every call  *)
(* keeps its discipline: the inductive invariant of this module.           *)
THEOREM TypeCorrect == Spec => [](TypeOK /\ Discipline)
<1>1. Init => TypeOK /\ Discipline
  <2> SUFFICES ASSUME Init PROVE TypeOK /\ Discipline
    OBVIOUS
  <2>1. Absent \in Content /\ Seed \in Content
    BY DEF Absent, Seed, Content, Writer
  <2>2. disk \in [Dir -> Tree] /\ snaps \in [SnapDir -> [Second -> Tree]]
        /\ prior \in [Request -> Tree]
    BY <2>1 DEF Init, Tree
  <2>3. 0 \in Second /\ 0 \in 0 .. MaxCrash
    BY BoundsAssumption DEF Second
  <2>4. TypeOK
    BY <2>2, <2>3 DEF Init, TypeOK, Stages, Answers
  <2>5. Discipline
    BY DEF Init, Discipline, Disciplined, Admitted, Refusals
  <2>6. QED BY <2>4, <2>5
<1>2. TypeOK /\ Discipline /\ [Next]_vars => (TypeOK /\ Discipline)'
  BY TypeStep, DisciplineStep
<1>3. QED BY <1>1, <1>2, PTL DEF Spec

(* A reply is the last thing that happens in a call: its scripts and its   *)
(* blocking tasks have all ended (src/server.rs, the await of each stage). *)
THEOREM Quiet == Spec => []AnsweredIsQuiet
<1>1. TypeOK /\ Discipline => AnsweredIsQuiet
  BY DEF TypeOK, Discipline, Disciplined, AnsweredIsQuiet, Stages
<1>2. QED BY <1>1, TypeCorrect, PTL

(* What a step may do to a call: an answer is final, what was collected is *)
(* lost by a failure only, and a snapshot of the configuration stays.      *)
LEMMA CallProgress ==
  ASSUME TypeOK, Discipline, [Next]_vars, NEW o \in Request
  PROVE  /\ body' = body
         /\ Admitted(o) => held'[o] = held[o]
         /\ log[o] \subseteq log'[o] \/ answer'[o] = "failed"
         /\ answer[o] # "none" => answer'[o] = answer[o]
<1> USE DEF TypeOK, Discipline, Disciplined, machine, disks, task, history, Finish, GoTo,
            Collect, Fail, Succeed, Stages, Handling
<1>1. ASSUME NEW r \in Request, Refuse(r) \/ Admit(r)
      PROVE  /\ body' = body
             /\ Admitted(o) => held'[o] = held[o]
             /\ log[o] \subseteq log'[o]
             /\ answer[o] # "none" => answer'[o] = answer[o]
  BY <1>1 DEF Refuse, Admit
<1>2. ASSUME NEW r \in Request, HandlerStep(r)
      PROVE  /\ body' = body /\ held' = held
             /\ log[o] \subseteq log'[o] \/ answer'[o] = "failed"
             /\ answer[o] # "none" => answer'[o] = answer[o]
  BY <1>2 DEF HandlerStep, BeforeStart, BeforeSkip, Verify, BackupStart, UnpackStart,
              AfterStart, AfterSkip
<1>3. ASSUME NEW r \in Request, JobStep(r)
      PROVE  /\ body' = body /\ held' = held
             /\ log[o] \subseteq log'[o]
             /\ answer' = answer
  <2>1. ASSUME NEW f \in File, CopyFile(r, f) \/ OpenEntry(r, f)
        PROVE  body' = body /\ held' = held /\ log' = log /\ answer' = answer
    BY <2>1 DEF CopyFile, OpenEntry
  <2>2. CASE CloseEntry(r)
    BY <2>2 DEF CloseEntry
  <2>3. CASE BackupDone(r)
    BY <2>3 DEF BackupDone
  <2>4. CASE UnpackDone(r)
    BY <2>4 DEF UnpackDone
  <2>5. QED BY <1>3, <2>1, <2>2, <2>3, <2>4 DEF JobStep
<1>4. ASSUME NEW r \in Request, HookExit(r)
      PROVE  /\ body' = body /\ held' = held
             /\ log[o] \subseteq log'[o] \/ answer'[o] = "failed"
             /\ answer[o] # "none" => answer'[o] = answer[o]
  BY <1>4 DEF HookExit, BeforeSucceeds, BeforeFails, AfterExits, OrphanExits
<1>5. ASSUME NEW r \in Request, Fault(r)
      PROVE  /\ body' = body /\ held' = held
             /\ log[o] \subseteq log'[o] \/ answer'[o] = "failed"
             /\ answer[o] # "none" => answer'[o] = answer[o]
  BY <1>5 DEF Fault, JobFails, StageFails, Drop
<1>6. ASSUME Crash \/ Restart \/ Reload \/ Tick \/ UNCHANGED vars
      PROVE  /\ body' = body /\ held' = held /\ log' = log
             /\ answer[o] # "none" => answer'[o] = answer[o]
  BY <1>6 DEF Crash, Restart, Reload, Tick, vars
<1>7. QED BY <1>1, <1>2, <1>3, <1>4, <1>5, <1>6 DEF Next, CallStep

(* Only a blocking unpack task writes to a deploy directory: its own call's *)
(* entry, in the directory the admitted plan names.                        *)
LEMMA DiskWrites ==
  ASSUME TypeOK, Discipline, [Next]_vars, NEW d \in Dir, NEW f \in File,
         disk'[d][f] # disk[d][f]
  PROVE  \E r \in Request :
           /\ job[r] = "unpack" /\ Admitted(r)
           /\ PlanOf(r).deploy_path = d /\ f \in body[r].entries
           /\ \/ /\ opened[r] = NoFile /\ opened'[r] = f
                 /\ job'[r] = "unpack" /\ disk'[d][f] = Torn(r)
              \/ /\ opened[r] = f /\ opened'[r] = NoFile
                 /\ disk'[d][f] = Whole(r)
<1> USE DEF TypeOK, Discipline, Disciplined, machine, disks, task, history, Tree
<1>1. ASSUME NEW r \in Request, NEW g \in File, OpenEntry(r, g)
      PROVE  /\ job[r] = "unpack" /\ Admitted(r)
             /\ PlanOf(r).deploy_path = d /\ g = f /\ f \in body[r].entries
             /\ opened[r] = NoFile /\ opened'[r] = f
             /\ job'[r] = "unpack" /\ disk'[d][f] = Torn(r)
  <2>1. Admitted(r) /\ job[r] = "unpack" /\ g \in body[r].entries
    BY <1>1 DEF OpenEntry
  <2>2. PlanOf(r).deploy_path \in Dir
    BY <2>1, HeldPlan
  <2>3. PlanOf(r).deploy_path = d /\ g = f
    BY <1>1, <2>2 DEF OpenEntry
  <2>4. QED BY <1>1, <2>1, <2>2, <2>3 DEF OpenEntry
<1>2. ASSUME NEW r \in Request, CloseEntry(r)
      PROVE  /\ job[r] = "unpack" /\ Admitted(r)
             /\ PlanOf(r).deploy_path = d /\ f \in body[r].entries
             /\ opened[r] = f /\ opened'[r] = NoFile
             /\ disk'[d][f] = Whole(r)
  <2>1. /\ Admitted(r) /\ job[r] = "unpack"
        /\ opened[r] \in body[r].entries /\ opened'[r] = NoFile
    BY <1>2 DEF CloseEntry
  <2>2. PlanOf(r).deploy_path \in Dir
    BY <2>1, HeldPlan
  <2>3. disk' = [disk EXCEPT ![PlanOf(r).deploy_path][opened[r]] = Whole(r)]
    BY <1>2 DEF CloseEntry
  <2>4. PlanOf(r).deploy_path = d /\ opened[r] = f
    BY <2>2, <2>3
  <2>5. QED BY <2>1, <2>2, <2>3, <2>4
<1>3. ASSUME NEW r \in Request, Refuse(r) \/ Admit(r) PROVE FALSE
  BY <1>3 DEF Refuse, Admit
<1>4. ASSUME NEW r \in Request, HandlerStep(r) PROVE FALSE
  BY <1>4 DEF HandlerStep, BeforeStart, BeforeSkip, Verify, BackupStart, UnpackStart,
              AfterStart, AfterSkip
<1>5. ASSUME NEW r \in Request, NEW g \in File, CopyFile(r, g) PROVE FALSE
  BY <1>5 DEF CopyFile
<1>6. ASSUME NEW r \in Request, BackupDone(r) \/ UnpackDone(r) PROVE FALSE
  BY <1>6 DEF BackupDone, UnpackDone
<1>7. ASSUME NEW r \in Request, HookExit(r) PROVE FALSE
  BY <1>7 DEF HookExit, BeforeSucceeds, BeforeFails, AfterExits, OrphanExits
<1>8. ASSUME NEW r \in Request, Fault(r) PROVE FALSE
  BY <1>8 DEF Fault, JobFails, StageFails, Drop
<1>9. ASSUME Crash \/ Restart \/ Reload \/ Tick \/ UNCHANGED vars PROVE FALSE
  BY <1>9 DEF Crash, Restart, Reload, Tick, vars
<1>10. QED
  BY <1>1, <1>2, <1>3, <1>4, <1>5, <1>6, <1>7, <1>8, <1>9 DEF Next, CallStep, JobStep

(* Only admitted content reaches the disk: the digest check, the before    *)
(* script and the admission come before the unpack stage on every path, in *)
(* the directory of the configuration the call was admitted against.       *)
THEOREM OnlyVetted == Spec => []OnlyVettedContent
<1>1. Init => OnlyVettedContent
  BY RequestAssumption DEF Init, OnlyVettedContent, Absent, Seed
<1>2. TypeOK /\ Discipline /\ OnlyVettedContent /\ [Next]_vars => OnlyVettedContent'
  <2> SUFFICES ASSUME TypeOK, Discipline, OnlyVettedContent, [Next]_vars,
                      NEW d \in Dir, NEW f \in File, NEW o \in Request,
                      disk'[d][f].by = o
               PROVE  MayHold(d, f, o)'
    BY DEF OnlyVettedContent
  <2>1. MayHold(d, f, o)
    <3>1. CASE disk'[d][f] = disk[d][f]
      BY <3>1 DEF OnlyVettedContent
    <3>2. CASE disk'[d][f] # disk[d][f]
      <4>1. PICK r \in Request :
              /\ job[r] = "unpack" /\ Admitted(r)
              /\ PlanOf(r).deploy_path = d /\ f \in body[r].entries
              /\ disk'[d][f] = Torn(r) \/ disk'[d][f] = Whole(r)
        BY <3>2, DiskWrites
      <4>2. r = o
        BY <4>1 DEF Torn, Whole
      <4>3. QED BY <4>1, <4>2 DEF Discipline, Disciplined, Cleared, MayHold, VettedPlan, PlanOf
    <3>3. QED BY <3>1, <3>2
  <2>2. body' = body /\ held'[o] = held[o]
        /\ (log[o] \subseteq log'[o] \/ answer'[o] = "failed")
        /\ (answer[o] # "none" => answer'[o] = answer[o])
    BY <2>1, CallProgress DEF MayHold
  <2>3. QED BY <2>1, <2>2 DEF MayHold, Admitted, VettedPlan
<1>3. QED BY <1>1, <1>2, TypeCorrect, PTL DEF Spec

(* A step leaves a call alone, but for its log and its rivals.             *)
Still(o) ==
  <<pc[o], held[o], stamp[o], hook[o], job[o], todo[o], opened[o], answer[o], prior[o]>>'
    = <<pc[o], held[o], stamp[o], hook[o], job[o], todo[o], opened[o], answer[o], prior[o]>>

(* Every step is a call's own, leaves it alone, or is the crash.           *)
LEMMA StepOf ==
  ASSUME TypeOK, [Next]_vars, NEW o \in Request
  PROVE  CallStep(o) \/ Crash \/ Still(o)
<1> USE DEF TypeOK, Still, machine, disks, task, history, Finish, GoTo, Collect, Fail, Succeed
<1>1. ASSUME NEW r \in Request, CallStep(r), r # o PROVE Still(o)
  <2>1. CASE Refuse(r) \/ Admit(r)
    BY <1>1, <2>1 DEF Refuse, Admit
  <2>2. CASE HandlerStep(r)
    BY <1>1, <2>2 DEF HandlerStep, BeforeStart, BeforeSkip, Verify, BackupStart, UnpackStart,
       AfterStart, AfterSkip
  <2>3. CASE \E f \in File : CopyFile(r, f) \/ OpenEntry(r, f)
    BY <1>1, <2>3 DEF CopyFile, OpenEntry
  <2>4. CASE BackupDone(r) \/ CloseEntry(r) \/ UnpackDone(r)
    BY <1>1, <2>4 DEF BackupDone, CloseEntry, UnpackDone
  <2>5. CASE HookExit(r)
    BY <1>1, <2>5 DEF HookExit, BeforeSucceeds, BeforeFails, AfterExits, OrphanExits
  <2>6. CASE Fault(r)
    BY <1>1, <2>6 DEF Fault, JobFails, StageFails, Drop
  <2> QED
    BY <1>1, <2>1, <2>2, <2>3, <2>4, <2>5, <2>6 DEF CallStep, JobStep
<1>2. ASSUME Restart \/ Reload \/ Tick \/ UNCHANGED vars PROVE Still(o)
  BY <1>2 DEF Restart, Reload, Tick, vars
<1> QED
  BY <1>1, <1>2 DEF Next

-----------------------------------------------------------------------------
(* A call does not go in circles.                                          *)

(* A call without a task has no files to handle.                           *)
Idle(o)     == job[o] = "none" => todo[o] = {}
IdleIsEmpty == \A o \in Request : Idle(o)

(* Tasks start with their files and end without.                           *)
LEMMA IdleStep == TypeOK /\ Discipline /\ IdleIsEmpty /\ [Next]_vars => IdleIsEmpty'
<1> SUFFICES ASSUME TypeOK, Discipline, IdleIsEmpty, [Next]_vars, NEW o \in Request
             PROVE  Idle(o)'
  BY DEF IdleIsEmpty
<1> USE DEF Idle, IdleIsEmpty, TypeOK, machine, disks, task, history, Finish, GoTo, Collect,
            Fail, Succeed
<1>1. CASE Still(o)
  BY <1>1 DEF Still
<1>2. CASE Crash
  BY <1>2 DEF Crash
<1>3. CASE Refuse(o) \/ Admit(o)
  BY <1>3 DEF Refuse, Admit
<1>4. CASE HandlerStep(o)
  BY <1>4 DEF HandlerStep, BeforeStart, BeforeSkip, Verify, BackupStart, UnpackStart,
     AfterStart, AfterSkip
<1>5. CASE JobStep(o)
  BY <1>5 DEF JobStep, CopyFile, OpenEntry, BackupDone, CloseEntry, UnpackDone, Unpacked
<1>6. CASE HookExit(o)
  BY <1>6 DEF HookExit, BeforeSucceeds, BeforeFails, AfterExits, OrphanExits
<1>7. CASE Fault(o)
  BY <1>7 DEF Fault, JobFails, StageFails, Drop
<1> QED
  BY <1>1, <1>2, <1>3, <1>4, <1>5, <1>6, <1>7, StepOf DEF CallStep

(* The numbers of files.                                                   *)
LEMMA Counts ==
  ASSUME IsFiniteSet(File), NEW S, S \subseteq File
  PROVE  /\ Cardinality(File) \in Nat
         /\ Cardinality(S) \in Nat
         /\ Cardinality(S) <= Cardinality(File)
         /\ Cardinality(S) = 0 => S = {}
         /\ \A f \in S : Cardinality(S \ {f}) = Cardinality(S) - 1
<1>1. IsFiniteSet(S) /\ Cardinality(S) <= Cardinality(File)
  BY FS_Subset
<1>2. Cardinality(File) \in Nat /\ Cardinality(S) \in Nat
  BY <1>1, FS_CardinalityType
<1>3. Cardinality(S) = 0 => S = {}
  BY <1>1, FS_EmptySet
<1>4. \A f \in S : Cardinality(S \ {f}) = Cardinality(S) - 1
  BY <1>1, FS_RemoveElement
<1> QED
  BY <1>1, <1>2, <1>3, <1>4

(* The steps left are a number, and none are left only to who rests.       *)
LEMMA LeftIsNat ==
  ASSUME IsFiniteSet(File), TypeOK, Discipline, NEW o \in Request
  PROVE  /\ TaskLeft(o) \in Nat /\ (job[o] # "none" => TaskLeft(o) > 0)
         /\ StageLeft(o) \in Nat /\ (Handling(o) => StageLeft(o) > 0)
         /\ StepsLeft(o) \in Nat /\ (StepsLeft(o) = 0 => AtRest(o))
<1> DEFINE n == Cardinality(File)
           c == Cardinality(todo[o])
<1>1. n \in Nat /\ c \in Nat /\ (c = 0 => todo[o] = {})
  <2>1. todo[o] \subseteq File
    BY DEF TypeOK
  <2> QED
    BY <2>1, Counts
<1>2. opened[o] # NoFile => c > 0
  <2>1. opened[o] # NoFile => todo[o] # {}
    BY DEF Discipline, Disciplined
  <2> HIDE DEF c
  <2> QED
    BY <1>1, <2>1
<1>3. TaskLeft(o) = IF job[o] = "none" THEN 0 ELSE (IF opened[o] = NoFile THEN 1 ELSE 0) + 2 * c
  BY DEF TaskLeft
<1> HIDE DEF n, c
<1>4. TaskLeft(o) \in Nat /\ (job[o] # "none" => TaskLeft(o) > 0)
  BY <1>1, <1>2, <1>3
<1>5. StageLeft(o) \in Nat /\ (Handling(o) => StageLeft(o) > 0)
  BY <1>1 DEF StageLeft, Handling, Stages, n
<1>6. StepsLeft(o) \in Nat /\ (StepsLeft(o) = 0 => AtRest(o))
  <2>1. StepsLeft(o) \in Nat /\ StageLeft(o) <= StepsLeft(o) /\ TaskLeft(o) <= StepsLeft(o)
        /\ (hook[o] # "none" => StepsLeft(o) > 0)
    BY <1>4, <1>5 DEF StepsLeft
  <2> QED
    BY <1>4, <1>5, <2>1 DEF AtRest, Active
<1> QED
  BY <1>4, <1>5, <1>6

(* Each kind of step that an admitted call takes leaves it fewer.          *)
LEMMA HandlerUses ==
  ASSUME IsFiniteSet(File), TypeOK, TypeOK', Discipline, NEW o \in Request, HandlerStep(o)
  PROVE  StepsLeft(o)' < StepsLeft(o)
<1> DEFINE n == Cardinality(File)
           c == Cardinality(todo[o])
           d == Cardinality(todo'[o])
<1>1. n \in Nat /\ c \in Nat /\ d \in Nat /\ c <= n /\ d <= n
  <2>1. todo[o] \subseteq File /\ todo'[o] \subseteq File
    BY DEF TypeOK
  <2> QED
    BY <2>1, Counts
<1> HIDE DEF n, c, d
<1> USE DEF TypeOK, Finish, GoTo, Collect, Fail, Succeed, Discipline, Disciplined, task
<1>2. CASE BeforeStart(o) \/ BeforeSkip(o)
  BY <1>1, <1>2 DEF BeforeStart, BeforeSkip, StepsLeft, StageLeft, TaskLeft, n, c, d
<1>3. CASE Verify(o)
  BY <1>1, <1>3 DEF Verify, AfterVerify, StepsLeft, StageLeft, TaskLeft, n, c, d
<1>4. CASE BackupStart(o)
  <2>1. /\ pc[o] = "backup" /\ hook[o] = "none" /\ job[o] = "none"
        /\ pc'[o] = "backup" /\ hook'[o] = "none" /\ job'[o] = "copy"
    <3>1. /\ pc[o] = "backup" /\ job[o] = "none" /\ pc' = pc /\ hook' = hook
          /\ job' = [job EXCEPT ![o] = "copy"]
      BY <1>4 DEF BackupStart
    <3>2. hook[o] = "none"
      BY <3>1
    <3> QED
      BY <3>1, <3>2
  <2>2. StageLeft(o) = 9 + 4 * n /\ StageLeft(o)' = 7 + 2 * n
    BY <1>1, <2>1 DEF StageLeft, n
  <2>3. TaskLeft(o) = 0 /\ TaskLeft(o)' <= 1 + 2 * d /\ TaskLeft(o)' \in Nat
    BY <1>1, <2>1 DEF TaskLeft, d
  <2> QED
    BY <1>1, <2>1, <2>2, <2>3 DEF StepsLeft
<1>5. CASE UnpackStart(o)
  BY <1>1, <1>5 DEF UnpackStart, StepsLeft, StageLeft, TaskLeft, n, c, d
<1>6. CASE AfterStart(o) \/ AfterSkip(o)
  BY <1>1, <1>6 DEF AfterStart, AfterSkip, StepsLeft, StageLeft, TaskLeft, n, c, d
<1> QED
  BY <1>2, <1>3, <1>4, <1>5, <1>6 DEF HandlerStep

(* A task handles every file once.                                         *)
LEMMA JobUses ==
  ASSUME IsFiniteSet(File), TypeOK, TypeOK', Discipline, NEW o \in Request, JobStep(o)
  PROVE  StepsLeft(o)' < StepsLeft(o)
<1> DEFINE n == Cardinality(File)
           c == Cardinality(todo[o])
           d == Cardinality(todo'[o])
<1>1. n \in Nat /\ c \in Nat /\ d \in Nat /\ c <= n /\ d <= n
      /\ \A f \in todo[o] : Cardinality(todo[o] \ {f}) = c - 1
  <2>1. todo[o] \subseteq File /\ todo'[o] \subseteq File
    BY DEF TypeOK
  <2> QED
    BY <2>1, Counts
<1> USE DEF TypeOK, Finish, GoTo, Collect, Fail, Succeed, Discipline, Disciplined, task
<1>2. ASSUME NEW f \in File, CopyFile(o, f) PROVE StepsLeft(o)' < StepsLeft(o)
  <2>1. d = c - 1
    BY <1>1, <1>2 DEF CopyFile
  <2>2. UNCHANGED <<pc[o], hook[o], job[o], opened[o]>> /\ job[o] # "none"
    BY <1>2 DEF CopyFile
  <2> HIDE DEF n, c, d
  <2> QED
    BY <1>1, <2>1, <2>2 DEF StepsLeft, StageLeft, TaskLeft, n, c, d
<1>3. ASSUME NEW f \in File, OpenEntry(o, f) PROVE StepsLeft(o)' < StepsLeft(o)
  <2>1. UNCHANGED <<pc[o], hook[o], job[o], todo[o]>> /\ job[o] # "none"
        /\ opened[o] = NoFile /\ opened'[o] # NoFile
    BY <1>3, NoFileAssumption DEF OpenEntry
  <2> HIDE DEF n, c, d
  <2> QED
    BY <1>1, <2>1 DEF StepsLeft, StageLeft, TaskLeft, n, c, d
<1>4. CASE CloseEntry(o)
  <2>1. UNCHANGED <<pc[o], hook[o], job[o]>> /\ job[o] # "none"
        /\ opened[o] # NoFile /\ opened'[o] = NoFile
    BY <1>4 DEF CloseEntry
  <2>2. d = c - 1
    BY <1>1, <1>4 DEF CloseEntry
  <2> HIDE DEF n, c, d
  <2> QED
    BY <1>1, <2>1, <2>2 DEF StepsLeft, StageLeft, TaskLeft, n, c, d
<1>5. CASE BackupDone(o)
  <2> HIDE DEF n, c, d
  <2> QED
    BY <1>1, <1>5 DEF BackupDone, StepsLeft, StageLeft, TaskLeft, n, c, d
<1>6. CASE UnpackDone(o)
  <2> HIDE DEF n, c, d
  <2> QED
    BY <1>1, <1>6 DEF UnpackDone, Unpacked, StepsLeft, StageLeft, TaskLeft, n, c, d
<1> QED
  BY <1>2, <1>3, <1>4, <1>5, <1>6 DEF JobStep

(* So does a script that exits, and what ends a call before its time.      *)
LEMMA EndUses ==
  ASSUME IsFiniteSet(File), TypeOK, TypeOK', Discipline, NEW o \in Request,
         HookExit(o) \/ Fault(o)
  PROVE  StepsLeft(o)' < StepsLeft(o)
<1> DEFINE n == Cardinality(File)
           c == Cardinality(todo[o])
           d == Cardinality(todo'[o])
<1>1. n \in Nat /\ c \in Nat /\ d \in Nat /\ c <= n /\ d <= n
  <2>1. todo[o] \subseteq File /\ todo'[o] \subseteq File
    BY DEF TypeOK
  <2> QED
    BY <2>1, Counts
<1> HIDE DEF n, c, d
<1> USE DEF TypeOK, Finish, GoTo, Collect, Fail, Succeed, Discipline, Disciplined, task
<1>2. CASE BeforeSucceeds(o) \/ BeforeFails(o)
  BY <1>1, <1>2 DEF BeforeSucceeds, BeforeFails, StepsLeft, StageLeft, TaskLeft, n, c, d
<1>3. CASE AfterExits(o) \/ OrphanExits(o)
  BY <1>1, <1>3 DEF AfterExits, OrphanExits, StepsLeft, StageLeft, TaskLeft, n, c, d
<1>4. CASE JobFails(o)
  <2>1. hook'[o] = hook[o] /\ job[o] # "none" /\ job'[o] = "none" /\ pc'[o] \notin Stages
    BY <1>4 DEF JobFails, Handling, Stages
  <2>2. StageLeft(o)' = 0 /\ TaskLeft(o)' = 0
    BY <2>1 DEF StageLeft, TaskLeft, Stages
  <2> QED
    BY <2>1, <2>2, LeftIsNat DEF StepsLeft
<1>5. CASE StageFails(o)
  BY <1>1, <1>5 DEF StageFails, Stages, StepsLeft, StageLeft, TaskLeft, n, c, d
<1>6. CASE Drop(o)
  BY <1>1, <1>6 DEF Drop, Handling, Stages, StepsLeft, StageLeft, TaskLeft, n, c, d
<1> QED
  BY <1>2, <1>3, <1>4, <1>5, <1>6 DEF HookExit, Fault

(* A crash leaves it the script that is running.                           *)
LEMMA CrashUses ==
  ASSUME IsFiniteSet(File), TypeOK, Discipline, IdleIsEmpty, NEW o \in Request, Crash,
         Standing(o)' # Standing(o)
  PROVE  StepsLeft(o)' < StepsLeft(o)
<1>1. hook'[o] = hook[o] /\ job'[o] = "none" /\ pc'[o] \notin Stages
      /\ todo'[o] = {} /\ opened'[o] = NoFile
  BY DEF Crash, Handling, Stages, TypeOK
<1>2. Handling(o) \/ job[o] # "none"
  BY <1>1 DEF Crash, Standing, IdleIsEmpty, Idle, TypeOK, Discipline, Disciplined
<1>3. StageLeft(o)' = 0 /\ TaskLeft(o)' = 0
  BY <1>1 DEF StageLeft, TaskLeft, Stages
<1> QED
  BY <1>1, <1>2, <1>3, LeftIsNat DEF StepsLeft

(* Of finitely many files, an admitted call makes finitely many steps,     *)
(* whatever the other calls, crashes and reloads do meanwhile.             *)
THEOREM RunsOut ==
  ASSUME IsFiniteSet(File)
  PROVE  Spec => CallsRunOut
<1>1. Init => IdleIsEmpty
  BY DEF Init, IdleIsEmpty, Idle
<1>2. ASSUME TypeOK, TypeOK', Discipline, IdleIsEmpty, [Next]_vars
      PROVE  \A r \in Request : Admitted(r) =>
               /\ StepsLeft(r) \in Nat
               /\ StepsLeft(r) = 0 => AtRest(r)
               /\ Standing(r)' # Standing(r) => StepsLeft(r)' < StepsLeft(r)
  <2> SUFFICES ASSUME NEW o \in Request, Admitted(o), Standing(o)' # Standing(o)
               PROVE  StepsLeft(o)' < StepsLeft(o)
    BY <1>2, LeftIsNat
  <2>1. ~ Refuse(o) /\ ~ Admit(o)
    BY <1>2 DEF Refuse, Admit, Discipline, Disciplined
  <2>2. ~ Still(o)
    BY DEF Still, Standing
  <2> QED
    BY <1>2, <2>1, <2>2, StepOf, HandlerUses, JobUses, EndUses, CrashUses DEF CallStep
<1>3. Spec => [](TypeOK /\ Discipline /\ IdleIsEmpty)
  BY <1>1, IdleStep, TypeCorrect, PTL DEF Spec
<1> QED
  BY <1>2, <1>3, PTL DEF CallsRunOut, Spec
=============================================================================
