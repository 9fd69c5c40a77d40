----------------------------- MODULE DeployServer -----------------------------
(***************************************************************************)
(* The server side of a deployment: every call of the Deploy RPC is a      *)
(* handler task (server.rs) that is admitted against a snapshot of the     *)
(* configuration and then walks through the stages of execute_deployment   *)
(* and DeployManager (deploy.rs): before script, digest check, backup,     *)
(* unpack, after script.                                                   *)
(*                                                                         *)
(* Handlers of different calls interleave at every await; nothing locks a  *)
(* deploy directory.  The two tasks that read or write its files run on a  *)
(* spawn_blocking thread (job), the scripts in a child process (hook).     *)
(* Both outlive a handler that is dropped because its client timed out or  *)
(* went away; only the scripts outlive the server process.  The digest and *)
(* the creation of the directory run on such a thread too, but nobody can  *)
(* tell when, or whether the handler was dropped meanwhile: the one reads  *)
(* bytes of its own, the other changes no file.  Each is part of the step  *)
(* of its handler that follows it.                                         *)
(*                                                                         *)
(* Files are modelled by who wrote them and whether the write was          *)
(* finished.  Directories are flat.  A script has no effect on the disk.   *)
(***************************************************************************)
EXTENDS Admission, FiniteSets

CONSTANTS Request,     \* the calls clients make; a retry is another call
          MaxSecond,   \* bound: the wall clock runs from second 0 to this one
          MaxCrash     \* bound: how often the server process may be killed

ASSUME RequestAssumption == Request \cap {"seed", "nobody"} = {}
ASSUME BoundsAssumption  == MaxSecond \in Nat /\ MaxCrash \in Nat

Second  == 0 .. MaxSecond
Writer  == Request \cup {"seed", "nobody"}
Content == [by : Writer, whole : BOOLEAN]
Absent  == [by |-> "nobody", whole |-> TRUE]
Seed    == [by |-> "seed",   whole |-> TRUE]   \* was there before any call
Whole(r) == [by |-> r, whole |-> TRUE]
(* r has begun to replace the file: unlinked it, created it anew, or       *)
(* written a part of it.                                                   *)
Torn(r)  == [by |-> r, whole |-> FALSE]
Tree    == [File -> Content]                   \* what a directory holds
Present(tree) == {f \in File : tree[f] # Absent}

NoConfig == [none |-> TRUE]                    \* no snapshot taken yet
NoFile   == [none |-> FALSE]                   \* no archive entry half written

(* The parents of the snapshot directories: a configured backup_path, or,  *)
(* by default, the directory named after the package beside the binary.    *)
SnapDir == BackupDir \cup Package

ASSUME NoFileAssumption == NoFile \notin File

VARIABLES
  \* the machine
  up,        \* is the server process running
  config,    \* Arc<RwLock<ServerConfig>>
  clock,     \* the second Utc::now() is in
  crashes,   \* how often the process was killed
  disk,      \* deploy directories
  snaps,     \* snaps[d][s]: the directory d/backup_<s>
  \* one call
  body,      \* what the client sends
  pc,        \* the stage the handler is at
  held,      \* the snapshot of the configuration the handler cloned
  stamp,     \* DeployManager::start_time, to the second
  hook,      \* the script of this call that is running
  job,       \* the blocking task of this call that is running
  todo,      \* the files that task has still to handle
  opened,    \* the entry that task is replacing: begun, not yet written out
  log,       \* stages recorded: the handler's vector, then the reply's
  answer,    \* how the call ended
  \* history
  prior,     \* the deploy directory when the call was admitted
  rivals     \* calls into the same directory, admitted during or after this

disks   == <<disk, snaps>>
machine == <<up, config, clock, crashes>>
history == <<prior, rivals>>
task    == <<job, todo, opened>>
vars    == <<machine, disks, body, pc, held, stamp, hook, task, log, answer, history>>

Stages  == {"before", "verify", "backup", "unpack", "after"}
Answers == {"none", "ok", "failed", "lost"} \cup Refusals

(* The types.  A snapshot's name, and with it stamp, never lies outside the *)
(* seconds that the clock shows.                                           *)
TypeOK ==
  /\ up \in BOOLEAN
  /\ config \in Config
  /\ clock \in Second
  /\ crashes \in 0 .. MaxCrash
  /\ disk \in [Dir -> Tree]
  /\ snaps \in [SnapDir -> [Second -> Tree]]
  /\ body \in [Request -> Body]
  /\ pc \in [Request -> Stages \cup {"new", "end"}]
  /\ held \in [Request -> Config \cup {NoConfig}]
  /\ stamp \in [Request -> Second]
  /\ hook \in [Request -> {"none", "before", "after"}]
  /\ job \in [Request -> {"none", "copy", "unpack"}]
  /\ todo \in [Request -> SUBSET File]
  /\ opened \in [Request -> File \cup {NoFile}]
  /\ log \in [Request -> SUBSET (Stages \cup {"reason"})]
  /\ answer \in [Request -> Answers]
  /\ prior \in [Request -> Tree]
  /\ rivals \in [Request -> SUBSET Request]

Init ==
  /\ up = TRUE
  /\ config \in Config
  /\ clock = 0
  /\ crashes = 0
  /\ disk \in [Dir -> [File -> {Absent, Seed}]]
  /\ snaps = [d \in SnapDir |-> [s \in Second |-> [f \in File |-> Absent]]]
  /\ body \in [Request -> Body]
  /\ pc = [r \in Request |-> "new"]
  /\ held = [r \in Request |-> NoConfig]
  /\ stamp = [r \in Request |-> 0]
  /\ hook = [r \in Request |-> "none"]
  /\ job = [r \in Request |-> "none"]
  /\ todo = [r \in Request |-> {}]
  /\ opened = [r \in Request |-> NoFile]
  /\ log = [r \in Request |-> {}]
  /\ answer = [r \in Request |-> "none"]
  /\ prior = [r \in Request |-> [f \in File |-> Absent]]
  /\ rivals = [r \in Request |-> {}]

-----------------------------------------------------------------------------
(* The package configuration the handler works with: its clone, never the  *)
(* shared one again.                                                       *)
MutPlanOf(r) ==
  IF body[r].package_name \in DOMAIN config.packages
  THEN config.packages[body[r].package_name]
  ELSE held[r].packages[body[r].package_name]
PlanOf(r) == held[r].packages[body[r].package_name]

SnapDirOf(r) ==
  IF PlanOf(r).backup_path = "none" THEN body[r].package_name
                                    ELSE PlanOf(r).backup_path

Admitted(r) == held[r] # NoConfig
Handling(r) == pc[r] \in Stages
Active(r)   == Handling(r) \/ job[r] # "none"

(* The handler returns; later steps of its job or hook no longer reach it. *)
Finish(r, a) == /\ pc' = [pc EXCEPT ![r] = "end"]
                /\ answer' = [answer EXCEPT ![r] = a]

(* DeployManager::new: Utc::now(), of which the snapshot's name keeps the  *)
(* second.                                                                 *)
MutStartTime == clock + 1
StartTime == clock

Collect(r, stage) == log' = [log EXCEPT ![r] = @ \cup {stage}]

(* Err from execute_deployment: its vector of log entries is gone, the     *)
(* reply carries one that holds the error alone.                           *)
MutFail(r) == Finish(r, "ok") /\ log' = [log EXCEPT ![r] = {"reason"}]
Fail(r) == Finish(r, "failed") /\ log' = [log EXCEPT ![r] = {"reason"}]

Succeed(r) == Finish(r, "ok") /\ Collect(r, "after")

GoTo(r, stage) == pc' = [pc EXCEPT ![r] = stage] /\ UNCHANGED answer

-----------------------------------------------------------------------------
(* Admission.  From the snapshot of the configuration to the start of      *)
(* execute_deployment the handler does not await.                          *)
Refuse(r) ==
  /\ up /\ pc[r] = "new"
  /\ Verdict(config, body[r]) # "admit"
  /\ Finish(r, Verdict(config, body[r]))
  /\ UNCHANGED <<machine, disks, body, held, stamp, hook, task, log, history>>

Admit(r) ==
  /\ up /\ pc[r] = "new"
  /\ Verdict(config, body[r]) = "admit"
  /\ held' = [held EXCEPT ![r] = config]
  /\ stamp' = [stamp EXCEPT ![r] = StartTime]
  /\ GoTo(r, "before")
  /\ LET target == config.packages[body[r].package_name].deploy_path
         same   == {o \in Request \ {r} : Admitted(o) /\ PlanOf(o).deploy_path = target}
     IN /\ prior'  = [prior EXCEPT ![r] = disk[target]]
        /\ rivals' = [o \in Request |->
                        IF o = r THEN {x \in same : Active(x)}
                        ELSE IF o \in same THEN rivals[o] \cup {r} ELSE rivals[o]]
  /\ UNCHANGED <<machine, disks, body, hook, task, log>>

-----------------------------------------------------------------------------
(* The before script.                                                      *)
BeforeStart(r) ==
  /\ pc[r] = "before" /\ hook[r] = "none"
  /\ PlanOf(r).before_deploy_script
  /\ hook' = [hook EXCEPT ![r] = "before"]
  /\ UNCHANGED <<machine, disks, body, pc, held, stamp, task, log, answer, history>>

BeforeSkip(r) ==
  /\ pc[r] = "before" /\ hook[r] = "none"
  /\ ~ PlanOf(r).before_deploy_script
  /\ GoTo(r, "verify") /\ Collect(r, "before")
  /\ UNCHANGED <<machine, disks, body, held, stamp, hook, task, history>>

BeforeSucceeds(r) ==
  /\ hook[r] = "before" /\ pc[r] = "before"
  /\ hook' = [hook EXCEPT ![r] = "none"]
  /\ GoTo(r, "verify") /\ Collect(r, "before")
  /\ UNCHANGED <<machine, disks, body, held, stamp, task, history>>

(* A non-zero exit status.                                                 *)
MutBeforeFails(r) ==
  /\ hook[r] = "before" /\ pc[r] = "before"
  /\ hook' = [hook EXCEPT ![r] = "none"]
  /\ UNCHANGED <<machine, disks, body, pc, held, stamp, task, log, answer, history>>
BeforeFails(r) ==
  /\ hook[r] = "before" /\ pc[r] = "before"
  /\ hook' = [hook EXCEPT ![r] = "none"]
  /\ Fail(r)
  /\ UNCHANGED <<machine, disks, body, held, stamp, task, history>>

(* verify_archive_hash, and the condition on the backup in extract_files.  *)
(* Its blocking task is part of this step: one whose handler is dropped    *)
(* computes a digest that nobody reads.                                    *)
MutAfterVerify(r) == IF PlanOf(r).backup_path # "none" THEN "backup" ELSE "unpack"
AfterVerify(r) == IF PlanOf(r).backup_enabled THEN "backup" ELSE "unpack"

Verify(r) ==
  /\ pc[r] = "verify"
  /\ IF body[r].hash_matches
     THEN /\ GoTo(r, AfterVerify(r)) /\ Collect(r, "verify")
     ELSE Fail(r)
  /\ UNCHANGED <<machine, disks, body, held, stamp, hook, task, history>>

-----------------------------------------------------------------------------
(* The backup stage: create_backup and the blocking copy_dir_recursive.    *)
(* The directory is listed while it is read, so files another call creates *)
(* meanwhile (extra) may or may not be seen.                               *)
Live(r) == disk[PlanOf(r).deploy_path]

BackupStart(r) ==
  /\ pc[r] = "backup" /\ job[r] = "none"
  /\ job' = [job EXCEPT ![r] = "copy"]
  /\ \E extra \in SUBSET (File \ Present(Live(r))) :
       todo' = [todo EXCEPT ![r] = Present(Live(r)) \cup extra]
  /\ UNCHANGED <<machine, disks, body, pc, held, stamp, hook, opened, log, answer, history>>

(* A file of the directory that another task is replacing, and that may be *)
(* unlinked at this moment.                                                *)
BeingReplaced(r, f) == \E o \in Request \ {r} :
  /\ job[o] = "unpack" /\ opened[o] = f
  /\ PlanOf(o).deploy_path = PlanOf(r).deploy_path

(* fs::copy replaces what the snapshot directory holds under that name.  A *)
(* file that is gone when the listing passes it is left out; one that goes *)
(* between listing and copy is JobFails.                                   *)
CopyFile(r, f) ==
  /\ job[r] = "copy" /\ f \in todo[r]
  /\ todo' = [todo EXCEPT ![r] = @ \ {f}]
  /\ \/ /\ f \in Present(Live(r))
        /\ snaps' = [snaps EXCEPT ![SnapDirOf(r)][stamp[r]][f] = Live(r)[f]]
     \/ /\ f \notin Present(Live(r)) \/ BeingReplaced(r, f)
        /\ UNCHANGED snaps
  /\ UNCHANGED <<machine, disk, body, pc, held, stamp, hook, job, opened, log, answer, history>>

BackupDone(r) ==
  /\ job[r] = "copy" /\ todo[r] = {}
  /\ job' = [job EXCEPT ![r] = "none"]
  /\ IF pc[r] = "backup" THEN GoTo(r, "unpack") /\ Collect(r, "backup")
                         ELSE UNCHANGED <<pc, answer, log>>
  /\ UNCHANGED <<machine, disks, body, held, stamp, hook, todo, opened, history>>

-----------------------------------------------------------------------------
(* The unpack stage: ensure_deploy_directory, whose task is part of the    *)
(* first step, and the blocking Archive::unpack.  A handler dropped while  *)
(* the directory is created leaves a directory at most; its failure is     *)
(* StageFails.                                                             *)
UnpackStart(r) ==
  /\ pc[r] = "unpack" /\ job[r] = "none"
  /\ job' = [job EXCEPT ![r] = "unpack"]
  /\ todo' = [todo EXCEPT ![r] = body[r].entries]
  /\ UNCHANGED <<machine, disks, body, pc, held, stamp, hook, opened, log, answer, history>>

(* For each entry tar unlinks the old file, creates a new one, which must  *)
(* not exist, and writes it out.  From the unlink on the file is Torn(r);  *)
(* a crash leaves it so in the gap as well.  When another task creates it  *)
(* in the gap the unpack fails (JobFails).                                 *)
OpenEntry(r, f) ==
  /\ job[r] = "unpack" /\ opened[r] = NoFile /\ f \in todo[r]
  /\ opened' = [opened EXCEPT ![r] = f]
  /\ disk' = [disk EXCEPT ![PlanOf(r).deploy_path][f] = Torn(r)]
  /\ UNCHANGED <<machine, snaps, body, pc, held, stamp, hook, job, todo, log, answer, history>>

(* A file that another task replaced meanwhile is written out unseen.      *)
CloseEntry(r) ==
  /\ job[r] = "unpack" /\ opened[r] # NoFile
  /\ opened' = [opened EXCEPT ![r] = NoFile]
  /\ todo' = [todo EXCEPT ![r] = @ \ {opened[r]}]
  /\ disk' = IF Live(r)[opened[r]] = Torn(r)
             THEN [disk EXCEPT ![PlanOf(r).deploy_path][opened[r]] = Whole(r)]
             ELSE disk
  /\ UNCHANGED <<machine, snaps, body, pc, held, stamp, hook, job, log, answer, history>>

MutUnpacked(r) == opened[r] = NoFile /\ todo[r] = {} /\ pc[r] = "unpack"
MutUnpackedEarly(r) == todo[r] \ {opened[r]} = {}
Unpacked(r) == opened[r] = NoFile /\ todo[r] = {}

UnpackDone(r) ==
  /\ job[r] = "unpack" /\ Unpacked(r)
  /\ job' = [job EXCEPT ![r] = "none"]
  /\ IF pc[r] = "unpack" THEN GoTo(r, "after") /\ Collect(r, "unpack")
                         ELSE UNCHANGED <<pc, answer, log>>
  /\ UNCHANGED <<machine, disks, body, held, stamp, hook, todo, opened, history>>

-----------------------------------------------------------------------------
(* The after script; its failure does not fail the deployment.             *)
MutAfterStart(r) ==
  /\ pc[r] = "after" /\ hook[r] = "none"
  /\ PlanOf(r).after_deploy_script
  /\ hook' = [hook EXCEPT ![r] = "after"]
  /\ Succeed(r)
  /\ UNCHANGED <<machine, disks, body, held, stamp, task, history>>
AfterStart(r) ==
  /\ pc[r] = "after" /\ hook[r] = "none"
  /\ PlanOf(r).after_deploy_script
  /\ hook' = [hook EXCEPT ![r] = "after"]
  /\ UNCHANGED <<machine, disks, body, pc, held, stamp, task, log, answer, history>>

AfterSkip(r) ==
  /\ pc[r] = "after" /\ hook[r] = "none"
  /\ ~ PlanOf(r).after_deploy_script
  /\ Succeed(r)
  /\ UNCHANGED <<machine, disks, body, held, stamp, hook, task, history>>

(* It exits, with whatever status.                                         *)
AfterExits(r) ==
  /\ hook[r] = "after" /\ pc[r] = "after"
  /\ hook' = [hook EXCEPT ![r] = "none"]
  /\ Succeed(r)
  /\ UNCHANGED <<machine, disks, body, held, stamp, task, history>>

(* A script whose handler is gone exits; nobody looks at its status.       *)
OrphanExits(r) ==
  /\ hook[r] # "none" /\ pc[r] # hook[r]
  /\ hook' = [hook EXCEPT ![r] = "none"]
  /\ UNCHANGED <<machine, disks, body, pc, held, stamp, task, log, answer, history>>

-----------------------------------------------------------------------------
(* What goes wrong.                                                        *)

(* The blocking task meets an I/O error or a malformed archive: no more    *)
(* files, and what it wrote stays.                                         *)
JobFails(r) ==
  /\ job[r] # "none"
  /\ job' = [job EXCEPT ![r] = "none"]
  /\ todo' = [todo EXCEPT ![r] = {}]
  /\ opened' = [opened EXCEPT ![r] = NoFile]
  /\ IF Handling(r) THEN Fail(r) ELSE UNCHANGED <<pc, answer, log>>
  /\ UNCHANGED <<machine, disks, body, held, stamp, hook, history>>

(* A stage fails before its task or script has started: a directory that   *)
(* cannot be created, a shell that cannot be spawned.  After the unpack    *)
(* stage such a failure is only logged.                                    *)
StageFails(r) ==
  /\ pc[r] \in Stages \ {"verify"} /\ job[r] = "none" /\ hook[r] = "none"
  /\ pc[r] = "before" => PlanOf(r).before_deploy_script
  /\ IF pc[r] = "after" THEN Succeed(r) ELSE Fail(r)
  /\ UNCHANGED <<machine, disks, body, held, stamp, hook, task, history>>

(* The client's deadline passes or its connection breaks: the server drops *)
(* the handler at its current await.  Neither the blocking task nor the    *)
(* script is told.                                                         *)
Drop(r) ==
  /\ Handling(r)
  /\ Finish(r, "lost")
  /\ UNCHANGED <<machine, disks, body, held, stamp, hook, task, log, history>>

(* The server process is killed; scripts are processes of their own.       *)
Crash ==
  /\ up /\ crashes < MaxCrash
  /\ up' = FALSE
  /\ crashes' = crashes + 1
  /\ pc' = [r \in Request |-> IF Handling(r) THEN "end" ELSE pc[r]]
  /\ answer' = [r \in Request |-> IF Handling(r) THEN "lost" ELSE answer[r]]
  /\ job' = [r \in Request |-> "none"]
  /\ todo' = [r \in Request |-> {}]
  /\ opened' = [r \in Request |-> NoFile]
  /\ UNCHANGED <<config, clock, disks, body, held, stamp, hook, log, history>>

(* start_server reads the configuration file of the moment.                *)
Restart ==
  /\ ~ up
  /\ up' = TRUE
  /\ config' \in Config
  /\ UNCHANGED <<clock, crashes, disks, body, pc, held, stamp, hook, task, log, answer, history>>

-----------------------------------------------------------------------------
(* The surroundings: the configuration watcher (module ConfigWatcher)      *)
(* installs what the operator wrote, and time passes.                      *)
Reload ==
  /\ up
  /\ config' \in Config
  /\ UNCHANGED <<up, clock, crashes, disks, body, pc, held, stamp, hook, task, log, answer, history>>

Tick ==
  /\ clock < MaxSecond
  /\ clock' = clock + 1
  /\ UNCHANGED <<up, config, crashes, disks, body, pc, held, stamp, hook, task, log, answer, history>>

HandlerStep(r) ==
  \/ BeforeStart(r) \/ BeforeSkip(r) \/ Verify(r) \/ BackupStart(r)
  \/ UnpackStart(r) \/ AfterStart(r) \/ AfterSkip(r)

JobStep(r) ==
  \/ \E f \in File : CopyFile(r, f) \/ OpenEntry(r, f)
  \/ BackupDone(r) \/ CloseEntry(r) \/ UnpackDone(r)

HookExit(r) ==
  BeforeSucceeds(r) \/ BeforeFails(r) \/ AfterExits(r) \/ OrphanExits(r)

Fault(r) == JobFails(r) \/ StageFails(r) \/ Drop(r)

CallStep(r) ==
  Refuse(r) \/ Admit(r) \/ HandlerStep(r) \/ JobStep(r) \/ HookExit(r) \/ Fault(r)

Next == (\E r \in Request : CallStep(r)) \/ Crash \/ Restart \/ Reload \/ Tick

Spec == Init /\ [][Next]_vars

(* The runtime polls a handler that is ready, a blocking thread goes on    *)
(* with its job, and every script ends: nothing here bounds a script that  *)
(* does not.  Faults, crashes, restarts and calls owe nothing.             *)
Fairness == \A r \in Request :
  WF_vars(HandlerStep(r)) /\ WF_vars(JobStep(r)) /\ WF_vars(HookExit(r))

FairSpec == Spec /\ Fairness

-----------------------------------------------------------------------------
(* Properties.                                                             *)

VettedPlan(r) == held[r].packages[body[r].package_name]

MayHold(d, f, r) ==
  /\ Admitted(r)
  /\ Verdict(held[r], body[r]) = "admit"
  /\ VettedPlan(r).deploy_path = d
  /\ body[r].hash_matches /\ f \in body[r].entries
  /\ answer[r] # "failed" => {"before", "verify"} \subseteq log[r]

(* Whatever a call has put on the disk, finished or not, came from a body  *)
(* that the configuration of the moment of its admission accepts, lies in  *)
(* the directory that configuration names, belongs to an archive with the  *)
(* announced digest, and was written after the before script succeeded -   *)
(* across reloads, dropped handlers, crashes and concurrent calls.         *)
OnlyVettedContent ==
  \A d \in Dir, f \in File, r \in Request : disk[d][f].by = r => MayHold(d, f, r)

(* The two calls were at work on the same directory at the same time, one  *)
(* of them perhaps only as a task its handler had left behind.             *)
Overlap(r, o) == o \in rivals[r] /\ r \in rivals[o]

(* Two calls that name their snapshots alike.                              *)
SameSnapshot(r, o) ==
  /\ o # r /\ Admitted(o) /\ VettedPlan(o).backup_enabled
  /\ SnapDirOf(o) = SnapDirOf(r) /\ stamp[o] = stamp[r]

(* With backups enabled, no file of the previous deployment is overwritten *)
(* before the snapshot holds all of that deployment, and the snapshot of a *)
(* call that is answered "deployed" holds it for good, unless another call *)
(* was changing the directory meanwhile or uses the same snapshot.         *)
SnapshotFirst ==
  \A r \in Request :
    /\ Admitted(r) /\ VettedPlan(r).backup_enabled
    /\ answer[r] = "ok" \/ \E d \in Dir, f \in File : disk[d][f].by = r
    /\ \A o \in Request : ~ Overlap(r, o) /\ ~ SameSnapshot(r, o)
    => \A f \in File : prior[r][f] # Absent
                         => snaps[SnapDirOf(r)][stamp[r]][f] = prior[r][f]

(* A call that is answered "deployed" has all its files in place, whole,   *)
(* but for those that a call admitted after it, or at work on the          *)
(* directory while it was - such as the abandoned task of the call it      *)
(* retries - has replaced.                                                 *)
InstalledUnlessSuperseded ==
  \A r \in Request : answer[r] = "ok" =>
    \A f \in body[r].entries :
      LET c == disk[VettedPlan(r).deploy_path][f]
      IN c = Whole(r) \/ c.by \in rivals[r]

(* A file that is gone for its replacement, empty or half written is the   *)
(* one some task is replacing at this moment, or the client of that task   *)
(* was not told that the deployment succeeded.                             *)
NoSilentTear ==
  \A d \in Dir, f \in File, r \in Request : disk[d][f] = Torn(r) =>
    (job[r] = "unpack" /\ opened[r] = f) \/ answer[r] \in {"failed", "lost"}

(* A call that has got its reply is over: none of its scripts and tasks is *)
(* still running behind the client's back.                                 *)
AnsweredIsQuiet ==
  \A r \in Request : answer[r] \notin {"none", "lost"} =>
    hook[r] = "none" /\ job[r] = "none" /\ opened[r] = NoFile

(* Every admitted call comes to rest: handler, task and script all end,    *)
(* also those of a call whose client has gone.                             *)
AtRest(r) == ~ Active(r) /\ hook[r] = "none"
EveryCallRests == \A r \in Request : ~ AtRest(r) ~> AtRest(r)

(* The steps a call still has before it, at most: those of its stages, of  *)
(* its task (two for each file) and of its script.                         *)
Standing(r) == <<pc[r], hook[r], job[r], todo[r], opened[r]>>

StageLeft(r) ==
  LET script == 3
      files  == 3 + 2 * Cardinality(File)
      left(own, later) == later + (IF job[r] = "none" /\ hook[r] = "none" THEN own ELSE 1)
  IN CASE pc[r] = "before" -> left(script, 1 + files + files + script)
       [] pc[r] = "verify" -> left(1, files + files + script)
       [] pc[r] = "backup" -> left(files, files + script)
       [] pc[r] = "unpack" -> left(files, script)
       [] pc[r] = "after"  -> left(script, 0)
       [] OTHER -> 0

TaskLeft(r) ==
  IF job[r] = "none" THEN 0
  ELSE (IF opened[r] = NoFile THEN 1 ELSE 0) + 2 * Cardinality(todo[r])

StepsLeft(r) == StageLeft(r) + TaskLeft(r) + (IF hook[r] = "none" THEN 0 ELSE 1)

(* A call does not go in circles: from its admission on every change of    *)
(* its stage, task or script uses up one of the steps it has left, whoever *)
(* makes it, and when none is left the call is at rest.  No other call, no *)
(* crash and no reload gives it more.                                      *)
CallsRunOut ==
  [][\A r \in Request : Admitted(r) =>
       /\ StepsLeft(r) \in Nat
       /\ StepsLeft(r) = 0 => AtRest(r)
       /\ Standing(r)' # Standing(r) => StepsLeft(r)' < StepsLeft(r)]_vars

-----------------------------------------------------------------------------
(* The discipline the properties above rest on: what the stage a handler   *)
(* is at, its script and its task imply about each other and about what    *)
(* the call has been through.                                              *)
Cleared(r) == body[r].hash_matches /\ {"before", "verify"} \subseteq log[r]

Disciplined(r) ==
  /\ Admitted(r) => held[r] \in Config /\ Verdict(held[r], body[r]) = "admit"
  /\ pc[r] # "new" => Admitted(r) \/ answer[r] \in Refusals
  /\ pc[r] = "end" <=> answer[r] # "none"
  /\ pc[r] = "new" => ~ Admitted(r)
  /\ answer[r] \in Refusals => ~ Admitted(r)
  /\ pc[r] = "verify" => "before" \in log[r]
  /\ pc[r] \in {"backup", "unpack", "after"} => Cleared(r)
  /\ job[r] # "none" => Admitted(r)
  /\ job[r] = "copy" => pc[r] = "backup" \/ answer[r] = "lost"
  /\ job[r] = "unpack" => /\ Cleared(r)
                          /\ pc[r] = "unpack" \/ answer[r] = "lost"
                          /\ todo[r] \subseteq body[r].entries
  /\ opened[r] # NoFile => job[r] = "unpack" /\ opened[r] \in todo[r]
  /\ hook[r] # "none" => Admitted(r) /\ (pc[r] = hook[r] \/ answer[r] = "lost")

(* Every call keeps it; the proofs use it as the inductive invariant.      *)
Discipline == \A r \in Request : Disciplined(r)

-----------------------------------------------------------------------------
(* What the documentation and the comments say, and the code does not do.  *)

(* Each backup is a directory of its own that keeps the deployment found   *)
(* (config_example/server_config.toml, backup_enabled and backup_path):    *)
(* fails for two deployments admitted within one second.                   *)
BackupKept ==
  \A r \in Request :
    /\ answer[r] = "ok" /\ VettedPlan(r).backup_enabled
    /\ \A o \in Request : ~ Overlap(r, o)
    => \A f \in File : prior[r][f] # Absent
                         => snaps[SnapDirOf(r)][stamp[r]][f] = prior[r][f]

(* "Always collect logs on failure" (src/server.rs, the Err arm of deploy):*)
(* the reply of a failed deployment carries what the stages before the     *)
(* failure recorded.                                                       *)
FailureLogsCollected ==
  [][\A r \in Request : answer[r] = "none" /\ answer'[r] = "failed"
                           => log[r] \subseteq log'[r]]_vars
=============================================================================
