# Verification of adeploy

`adeploy` copies packages from a client to a server: the client packs the
configured sources into a tar.gz, signs it with its Ed25519 key and sends it in
one gRPC call; the server checks key, signature and size, runs a before script,
verifies the digest, snapshots the old deployment, unpacks the archive over the
deploy directory and runs an after script. This directory holds TLA+ models of
the parts of the program that are hard to test, the TLC configurations that
check them on small instances, and proofs, checked by TLAPS, that hold for every
value of the constants.

`PROJECT.json` lists components, runs, mutants, findings, hazards and theorems,
and maps every definition to the lines of code it stands for.

## 1. The system

| component | code | state | operations | hard because | right when |
|---|---|---|---|---|---|
| Deploy RPC, admission | `server.rs` `deploy`, `auth.rs` `verify_signature` | a clone of the shared configuration per call | decode, look up, verify, refuse or go on | the configuration is replaced while calls run | what is deployed was accepted by one configuration, whole |
| Deploy RPC, execution | `server.rs` `execute_deployment`, `deploy.rs` | deploy directories, snapshot directories, per call: stage, running script, running blocking task, log | before script, digest, backup, unpack, after script | calls into one directory interleave; tasks and scripts outlive dropped handlers; every stage can fail halfway; the process can die | "deployed" means in place and whole; old files are saved before they are overwritten; a reply means that nothing still runs; everything ends |
| Configuration reload | `server.rs` `start_server_with_shutdown`, `spawn_config_watcher` | shared configuration, the watcher's last modification time and last error | load, bind, poll, reload, shut down | the operator edits between any two steps; the file may be broken, missing, back-dated | no edit is lost, none half done; the port stays; the watcher ends |
| Client identity | `config.rs` `get_key_paths`, `auth.rs` | two key files | look, generate, load | several first runs; death between two writes | one matching pair, never replaced |
| Client run | `client.rs` `deploy`, `main.rs` `run_client_mode` | none that is kept: the package it is at | load, connect, pack, sign, send, per package | stops at the first failure; the deadline races the answer; requests and replies get lost | the exit status and the order of the packages tell what is on the server; a run with a timeout ends |
| Packaging | `deploy.rs` `package_files_blocking` | the archive being built | look, append, finish | the sources change meanwhile | what stays in place is in the archive |
| Size limits | `server.rs` `resolve_message_limit`, `client.rs` | limits fixed at start and at reload | compare | four checks that must agree at the boundary | what all limits allow goes through |
| Windows service | `server.rs` `run_service`, `main.rs` `handle_server` | service status, shutdown channel, the server's calls | report, serve, stop | the control handler is another thread; tasks outlive handlers | no stop is lost, no call cut off, Stopped is true and is said last |
| Service manager commands, command line, logging, wire format | `main.rs`, `server.rs`, `deploy_log.rs`, `error.rs`, `proto/` | none | one call each | not | not modelled, but for the attributes of requests and replies |

The parts meet in five places. The watcher writes the shared configuration
that admission reads (`Reload` in `DeployServer` stands for `Install` in
`ConfigWatcher`). A client that gives up drops the server's handler at its
current await (`Drop`), and its retry is another call. The key pair of the client
decides what `public_key` and `signature` a request carries. A client run sends
the server what its packaging has found, and learns from the answers alone what
became of it: `ClientDeploy` puts runs in front of `DeployContract`, which
`DeployServer` implements. The service wrapper starts and stops the server with
whatever calls are in it: `WindowsService` keeps of a call that it has a handler
and a blocking task.

## 2. The modules

| module | what it is |
|---|---|
| `Admission` | the record types of configuration and request, and the checks of `deploy` as operators |
| `DeployServer` | calls from admission to the last task: one action per stage, task, script and failure |
| `DeployServerProofs` | inductive invariant and theorems of `DeployServer` |
| `DeployDiskProofs` | theorems about what `DeployServer` leaves on the disk when calls share a directory |
| `DeployContract`, `DeployContractProofs` | what a client may rely on: the abstract specification of a deployment; that it gives what it is for |
| `DeployRefinement`, `DeployRefinementProofs` | the refinement mapping from `DeployServer` to `DeployContract`; that the server implements the contract |
| `ConfigWatcher`, `ConfigWatcherProofs` | server start, operator, watcher task; theorems |
| `KeyStore`, `KeyStoreProofs` | concurrent clients that look for, generate and load the key pair; theorems |
| `Limits` | the bounds on an archive and on the message it is sent in, as operators |
| `ClientDeploy`, `ClientDeployProofs` | runs of the client, the network and the sources, with `DeployContract` as the server; theorems |
| `WindowsService`, `WindowsServiceProofs` | `run_service`, its control handler and the calls of the server they stop; theorems |
| `MC*` | instances for TLC, one `.cfg` for each run |

Operators named `Mut...` stand before the definition they mutate. They are
plausible bugs of that code, not part of any specification; each property of a
passing run is violated when one of them takes the place of the definition that
follows it.

### DeployServer

A call `r` has a stage `pc[r]`, the configuration `held[r]` it cloned, at most one
script (`hook`) and at most one blocking task (`job`) with the files it has still
to handle (`todo`) and the tar entry that is begun and not yet written out
(`opened`). `log` and `answer` are what the client gets to see. A file in
a directory is modelled by who wrote it and whether the write was finished:
`Absent`, `Seed`, `Torn(r)` or `Whole(r)`. `Torn(r)` is a file that `r` has begun to
replace: it is unlinked, created anew, or written in part.

Steps are cut at the code's awaits: from the clone of the configuration to the
first await of `execute_deployment` there is one step (`Admit`), a stage and the
task it spawns are separate steps, and a task on a blocking thread makes one
step per file (copy) or two (unpack: unlink and create, then write out). `Drop`
ends the handler at any await and leaves job and hook running, which is what
dropping a tonic handler does to `spawn_blocking` and, without `kill_on_drop`,
to a child process. `Crash` ends handlers and tasks, not scripts.

`prior` and `rivals` are history variables. `prior[r]` is the deploy directory at
the admission of `r`. `rivals[r]` are the calls that were at work in the same
directory when `r` was admitted, and those that were admitted later; two calls
overlap when each is a rival of the other.

### DeployContract and DeployRefinement

The contract knows no stages, tasks, scripts, configurations or processes. A
call is new, refused, accepted, deployed, failed, abandoned (its client is gone,
the server may still be at it) or gone. It is accepted once, for one directory
and one archive; its files then show up there one by one, in any order, mixed
with those of other calls; it is answered "deployed" only when all of them are
written out, and whoever is answered or gone touches nothing any more. It is a
specification of its own, not a translation, so `PROJECT.json` maps none of it
to lines.

`DeployRefinement` computes the contract's variables from the server's: `phase`
from answer, stage and task, `target` and `archive` from the held configuration
and the body, `finished` (the entries written out) from the unpack task's
remaining list. `Implements` is the contract under this mapping.

### ConfigWatcher

A version of the file has a number, a modification time (that the operator may
set back), a port and a validity. The watcher's loop is cut where it looks at
the file: `Stat` reads the modification time, `Load` reads the content, `Install`
writes the shared configuration. The two modification time errors (no metadata,
no time in it) are one. `horizon` is a history variable: the latest modification
time the watcher has taken in. Edits at or below it (an edit within one
resolution step of the file system, an older file put in place, an edit between
the server's load and the watcher's first look) are never noticed by the code;
they are listed among the hazards and excluded from the promises.

### KeyStore

Two files, any number of client processes, every file operation a step, and a
death (or a failing operation) at every one of them. `disturbed` is a history
variable: a generation was interrupted or ran beside another process.

### Limits and ClientDeploy

A run `r` of the client is at a step `pc[r]` of its package number `at[r]`:

| step | code |
|---|---|
| `idle` | not started; `Begin` loads the configuration and picks the remote |
| `connecting` | `connect_deploy_client`, the keys, `select_packages`; `Connect` is their success, `ConnectFails` any of their failures |
| `looking`, `adding` | the two halves of a turn of `package_files_blocking`: `path.exists()`, then file or directory and the append |
| `packed` | size check, signature, request: `Send`, or `CannotSend` |
| `waiting` | the await of `client.deploy` |
| `exited` | `why[r]` is what became of it: exit status 0 is `success` |

`After` is the loop: on to the next package after a success, out of it after
anything else. A file changes between the two halves of a turn when a build
removes its source (`Remove`); a source that is gone by then is left out, as in
the code, which has no branch for it.

The server is `DeployContract`, so that a call is one `(run, package)` and its
phases, files and answers are those of the contract. `ClientDeploy` adds that
the server can be down, and the limits. `Receive` is the decoder and the handler
up to `execute_deployment`: `decoder` and `archive` are the two checks on the size,
`other` stands for keys, signatures and unknown packages. A request is delivered
once, late or never, and also after the deadline of its run has passed. A
halted server forgets the requests it has not handled. A reply is read off the
call's phase, at any time after it was given; `ReplyLost` is a connection that
breaks or a reply the client cannot decode.

`Limits` keeps the comparisons of the code with small numbers: `DefaultLimit`
for 100 MB, `UsizeMax` for the clamping, `Overhead` for what the other fields add
to a message. `max_file_size` is the server's limit in force, `started_with` the one
the message limit was computed from. Since the message limit is never larger than
the limit it comes from, the handler's own check can fire only after a reload.

### WindowsService

`pc` is the step of `run_service` (and of `main` before and after it), `control`
that of the control handler; they share `status`, the slot for the handle and the
oneshot channel (`sender`, `signalled`). Every report may fail, which the first two
reports answer with a return (`EarlyReturn`), the last with a line in the log and the
handler's with nothing. In the foreground (`Foreground`) the shutdown
future never becomes ready, so that the server ends by an error alone.

Of a call the model keeps whether it has a handler and a blocking task. A call
starts at most four tasks (`Jobs`), one after another: the digest, the copy (only
with backups), the creation of the directory and the unpack. A client that gives up
takes away the handler only (`Drop`), and the task it was waiting for is its last.

Taken from the surroundings, as the code relies on them: the service manager
delivers one control at a time and only in a state that accepts it (Running);
once Stopped is reported the dispatcher returns and with it `main`, at any
moment (`ProcessEnds`). `serve_with_shutdown` returns when the requests it has
taken are served (`Drained`). Dropping a tokio runtime cancels asynchronous tasks
and waits for blocking ones that have started (`DropRuntime`, `Join`). A client that
gives up makes tonic drop the handler (`Drop`), and a oneshot channel keeps its value
until the receiver is polled (`Kept`). `Deliver`, `Drained`, `Join`, `Kept` and
`Drop` are marked external in `PROJECT.json`; `DropRuntime` and `ProcessEnds` are the
lines of the code that set these things going.

## 3. The runs

| run | bounds | shows |
|---|---|---|
| `deploy_admission` | 2 calls, 2 packages, 2 keys, 1 file, 2 directories, 7 bodies, 2 configurations, 1 crash | `OnlyVettedContent`, `AnsweredIsQuiet` and `Implements` (the contract) under reloads between any two steps |
| `deploy_disk` | 2 calls, 1 directory of 2 files, 2 packages that share it, 2 seconds, 1 crash | `SnapshotFirst`, `InstalledUnlessSuperseded`, `NoSilentTear` |
| `deploy_live` | 2 calls, 1 directory of 2 files, scripts, 1 crash | `EveryCallRests`, `CallsRunOut` |
| `deploy_backups` (violation) | as `deploy_disk`, no crash | `BackupKept` fails: snapshots of one second share a directory |
| `deploy_logs` (violation) | as `deploy_disk`, no crash | `FailureLogsCollected` fails: log entries are lost on failure |
| `watcher_reload` | 2 ports, 3 edits, modification times 0 to 2, 2 starts | `PortPinned`, `UpToDateOrDue`, `NoRollback`, `PickedUpSoon`, `EditPickedUp`, `WatcherEnds` |
| `watcher_available` (violation) | 2 edits, 1 start | `AvailableAgainIsTrue` fails |
| `keystore_safety` | 3 runs of the client | `OneIdentity`, `PairIfUndisturbed`, `IdentityStable` |
| `keystore_pair` (violation) | 3 runs, both files or none at the start | `StoredPairMatches` fails: two first runs at once |
| `client_run` | 2 runs of 2 and 1 packages, 1 directory of 2 files, 2 sources, 2 sizes, 2 server limits, 1 event (halt, reload or removal) | `SuccessMeansDeployed`, `PrefixDeployed`, `EndedIsOver`, `NamesDeployed`, `FittingIsNotTooLarge`, `RunsGoForward`, `RunEnds` |
| `size_limits` (violation) | 1 run of 2 packages, 1 size, 2 server limits, 1 event | `AllowedSizeAccepted` fails: a raised limit does not reach the decoder |
| `service_stop` | 2 calls, 2 controls | `StoppedIsQuiet`, `NoCallCut`, `StoppedIsLast`, `StopEnds` |

Why the bounds are enough. The hazards of `DeployServer` are between two calls,
one of which may be an abandoned task with its retry; two files suffice for an
archive that is half unpacked, a directory with a file that belongs to neither
and a snapshot with one file copied; two seconds for names that differ and names
that clash. One crash leaves everything a second crash could leave, since no
state but the disk survives. The watcher's state is about the last, the current and the
next version of the file, hence three edits; two starts show that nothing leaks
from one watcher to the next. In `KeyStore` the third process is the one that
finds what two others have left.

In `client_run` the first run deploys two packages, with a name between them that its
configuration does not know, under the default remote, the default limit and a
timeout; the second deploys one package of two sources, has a remote for one of
two hosts, no timeout, and a limit that an archive is within and its message is
not. Two packages are needed for an order and a loop that ends too early or too
late, two runs for files that replace each other. The sizes 5 and 7 lie on either
side of the default limit 6, the server limits are the default and 4, so that
each of the four checks turns something down, the handler's after a reload.
One event is a halt, a reload or a removal; each of them by itself interrupts
whatever the runs are at, and a second one finds them where the first found them
or ended. Restarts, builds that put a source back and lost messages are not counted.

In `service_stop` one call can be served while another is given up with its task
running. The second control is the one that a failed report lets through.

Symmetry: calls and clients are interchangeable (configurations and initial
states do not name them) in the runs that check invariants and action
properties; the liveness run uses none.

Deadlock is checked in the runs of `DeployServer`, where reloads and restarts
always remain possible. `ConfigWatcher` stops when edits and starts are used up
and the process has ended, `KeyStore` when every client has run: `CHECK_DEADLOCK
FALSE` there; so do the runs of `ClientDeploy`, when every run has ended and
nothing is left to happen, and `WindowsService`, when the process has ended.

Bounds in guards: `MaxSecond`, `MaxCrash`, `MaxTime`, `MaxEdit`, `MaxStart`,
`MaxEvent`, `MaxControl`. Each limits the surroundings only (clock, kills, edits,
starts, controls), no step of the program. `MaxNames` bounds the command line.

### Fairness

`DeployServer`: weak fairness of the handler's own steps, of the steps of a
blocking task and of the exit of a script, per call. The first two are what the
tokio runtime gives a task that is ready and a thread that runs. The third is an
assumption on the operator's scripts: `execute_script` waits without a limit.
Calls, faults, crashes, restarts, reloads and the clock owe nothing.
`ConfigWatcher`: weak fairness of the watcher's step, one of which is enabled
while it exists: its timer fires every 500 ms and the shutdown channel wakes it.
`ClientDeploy`: weak fairness of a run's own steps, the timer of its deadline among
them, and of nothing else: server and network owe no answer, so `RunEnds` is about
runs with a timeout. `WindowsService`: weak fairness of `run_service`, of the control
handler, and per call of its steps and its tasks, which is what two threads and
the runtime's threads give; a call ends because its work is finite, and with
`EveryCallRests` under the assumption that scripts end.

## 4. The proofs

`tlapm` checks every step of the proof modules.

**`DeployServerProofs`.** The properties are not inductive: that a task which
writes belongs to an admitted call with a matching digest depends on the stages
the call went through, and these on the log. `Discipline` states, for one call,
what its stage, script, task, log and answer imply about each other;
`TypeOK /\ Discipline` is inductive (`TypeCorrect`: `TypeStep`, `DisciplineStep`,
one case per action). The types need the discipline too: a snapshot directory is
one of `SnapDir` only for an admitted call. On top of it:

- `Quiet`: `[]AnsweredIsQuiet`, which the discipline implies.
- `OnlyVetted`: `[]OnlyVettedContent`. `DiskWrites` says that a change of a deploy
  directory is the write of some unpack task, of its own archive's entry, in the
  directory of its admitted plan; `CallProgress` that what the content rests on
  (body, held configuration, log) is not taken away later.
- `RunsOut`: `[]CallsRunOut`, the half of `EveryCallRests` that needs no fairness.
  `StepsLeft` bounds the steps an admitted call has before it: those of its stages, two
  for each file of its task, one for a script. `LeftIsNat` says that it is a number, and
  zero only at rest; `HandlerUses`, `JobUses`, `EndUses` and `CrashUses` that every change of
  stage, task or script lowers it, also one made by a client's deadline or a crash;
  `StepOf` that nobody else changes them. The theorem asks for a finite set of files
  (`IsFiniteSet(File)`): only a finite archive is ever unpacked. What fairness adds, and TLC
  checks, is that the remaining steps are taken.

`StepOf` is shared by the proofs about several calls: every step is a call's own, leaves
it alone, or is the crash.

**`DeployDiskProofs`.** Three properties of calls that share a directory, by `StepOf`
and `Steady`, which says what of an admitted call no step changes.

- `NoTears`: `[]NoSilentTear`. An entry that is open stays open until it is closed or
  until its call has failed or lost its client (`OpenedGoesOn`): a task that ends
  otherwise has no entry open, and a dropped handler's client is not answered.
- `InPlace`: `[]InstalledUnlessSuperseded`. `Met` says what `rivals` means: a call at
  work is a rival of every other admitted to its directory, of the later ones since it
  was at work when they came. Hence whoever writes to a call's directory is the call
  itself or a rival (`WrittenBy`), also when it is an abandoned task of the attempt
  before. `Installed` is the invariant on top: the finished entries are whole or a
  rival's, and the open one is the call's torn file or a rival's.
- `SavedFirst`: `[]SnapshotFirst`. `Backups` follows a call that nobody is in the way of
  (`Clear`, which holds before a step if it holds after it, `ClearBefore`): until its
  copy is done the directory is as it was found (`FoundStays`); what the copy has
  passed is in the snapshot and stays there, since copies of other calls go to other
  snapshots (`SavedStays`); and unpacking starts after the whole copy (`StageOrder`).
  A call that overwrites, or has been answered "deployed", is past its copy
  (`Overwriting`), which is why the snapshot is complete then and later.
  `KeptFromTheStart` needs `OnlyVettedContent`: no file of a call is there before it is
  admitted.

**`DeployRefinementProofs`.** `ServerKeepsContract` is `Spec => Implements`. The
mapping needs one fact beyond the discipline: while a task writes an entry, the
file is its own unfinished one or another call's (`EntriesStillThere`, preserved
by every step because each other writer is another call, `StillThereStep`).
`CallState` says what the contract sees of a call at each stage, `Turns` and
`Hidden` turn a change of that view into a step of the contract or a stutter,
and one lemma per kind of step applies them (`ContractStep`).

**`DeployContractProofs`.** `Promise`: under the contract a file a call has written
lies where the call was accepted for, and a call answered "deployed" has left
none of its files half written and each whole or replaced by another call's.
`ServerDelivers` draws the conclusion from it and `ServerKeepsContract`: the same holds
of the server, for any number of calls, files, directories, configurations and crashes. The inductive invariant `Inv`
adds what the bookkeeping means: an entry in `finished` was written whole and has
stayed so or is another call's by now, and a call that is deployed is complete.

**`ConfigWatcherProofs`.** `Inv` adds to types and `PortPinned` the bookkeeping of
modification times (`Covered`): what the watcher has recorded or is about to
record never exceeds what it has taken in. `PortStays` and `NothingOverlooked`
follow. `Forward` (`NoRollback`) needs another one, `Ordered`: the number of the
version in the file is that of the last edit, and what runs or is about to be
installed is valid and no newer than it. An edit between `Load` and `Install` raises
only that bound, which is why the installed version can be old but not older than
the running one. `WithinARound` (`PickedUpSoon`) takes both: a version that the watcher
can tell to be new is at most the rest of this round and one more from being installed
(`ToGo`). `Covered` makes the comparison of modification times come out right however many
rounds have failed before, `Ordered` tells an edit from the version that was there.

**`KeyStoreProofs`.** `SameKey` and `Paired` are about a store that nothing has
disturbed. The invariant says so much of it: a generation has the files to itself
(`Alone`), what the files hold at each of its steps and between two (`Files`), and
that who has seen both files has seen the pair, which has stayed (`Seen`).
`Final` needs the types alone: a process that finds both files never generates.

**`ClientDeployProofs`.** `PrefixDeployed` and `EndedIsOver` are consequences of
`Position`: behind the package a run is at everything is deployed, ahead of it
nothing was sent, and it is itself untouched until its request is out. That needs
`Wire`: a request is on the wire at most once and only while its call is new,
otherwise a copy of it could begin a call behind the run's back. The proof
separates who can do what: `CallsGoOn` is all that network and server do to
calls, and `InvGoesOn` that it preserves the invariant; the client's steps change
no call and are sorted by what they do to `pc` and `at` (`BusyKeeps`, `ExitKeeps`,
`PackKeeps`, `SendKeeps`, `AfterKeeps`). `FittingPasses` is arithmetic over the
limits on top of `Numbers`, the types of the quantities compared.

`select_packages` filters the command line, in the model by a recursive function
(`Selecting`). What it computes takes an induction over the line. The provers cannot
apply the library's induction theorems, which are about a predicate; the well-foundedness
of `<` on the naturals is about a relation and can be cited, so the induction is one over a least
counterexample (`LeastNat`). `SelectingTurns` unfolds the function, `SelectingParts` says of
each prefix what has been selected from it: as many as it has known names, in order, each at its
place. `Selection` is what the other proofs need of it, and `NothingSkipped` joins it with
`Reaches` to `[]NamesDeployed`, a statement about the command line that does not mention
the selection's algorithm.

`Forward` is `[]RunsGoForward`, the half of `RunEnds` that needs no fairness: the
four numbers of `Ahead` go down lexicographically with each step of a run
(`StepsForward`), and nobody else's step changes them (`OthersLeave`). `FewerEnds` shows
that the order is well-founded, so there is no endless run, with or without a timeout; a
retry in the loop would break it (`MutAfter`).

`Reaches` is about data that travels: `Rest` (the sources still to pack are the last
ones of the package, and all before them that are still there are in the archive
so far), `Packing` (a request is sent only when nothing is left to pack; success is
the answer to the last selected package) and `Carried` (what is on the wire for a
package, and later the archive of its call, covers the package's sources).
`SideStep` is what server, network and builds may do to all this. The server enters
only through its contract: `KeepsContract` shows that every step here is one of
`DeployContract` or none (`UsesContract` states it of whole behaviours), so that
`DeployContractProofs`' invariant is cited as it is, and says of a call answered "deployed" that the files of its archive are in
place. `TypeCorrect` rests on all of these.

**`WindowsServiceProofs`.** The invariant has three parts: `Sheltered` (handlers and
tasks live only while `run_service` is where their runtime lives), `Booted` (no control
before Running), and `Told` (a server that ends without an error was told to, by
a handler that had reported StopPending before). `StoppedQuiet` and `CallsFinish`
follow from the first, `LastWord` from all.

They rest on the named assumptions of the modules: configurations and bodies are
records of the declared types, `"none"` and the markers are not names of
directories, files or calls, the bounds are natural numbers, ports are integers,
the limits' constants are positive, clients have configurations of the declared type.
TLC evaluates them in every run. None of them states a fact about an operator.

Model-checked only: the liveness properties (`EveryCallRests`, `EditPickedUp`,
`WatcherEnds`, `RunEnds`, `StopEnds`), since fairness and ENABLED are out of the prover's
reach; `CallsRunOut`, `PickedUpSoon` and `RunsGoForward` are the part of three of them that
is not. Every other property of a passing run is a theorem. No recursive operator is used, and one recursive
function.

## 5. What the models leave out

- Bytes: digests, signatures, base64, compression are attributes of the request.
  A body whose signature is garbled, invalid or valid stands for all others.
- Directory trees are flat; modes, symlinks and subdirectories are left out.
  `fs::copy` of one file into a snapshot is one step, so a snapshot that a crash
  cuts off in the middle of a file is not distinguished from one without it.
- Between the unlink and the creation of a file there is no state of its own: both
  begin with `OpenEntry`, and `Torn(r)` stands for the gap as well, also for one that
  a crash leaves. What others could notice of it is modelled where they would: a copy
  may miss such a file (`CopyFile`, `BeingReplaced`), and an unpack that finds it
  created by another call fails (`JobFails`).
- The digest and the creation of the deploy directory run as blocking tasks, each
  part of the handler's next step (`Verify`, `UnpackStart`). A task that its handler
  has left reads its own bytes or creates a directory that holds no file yet; no other
  call can tell when it ends. `WindowsService`, where it matters how long they run,
  counts all four.
- A script has no effect on the deploy directory, although it is the operator's
  program and may have any.
- What `append_dir_all` walks over: a source contributes a set of entries. Two
  sources may contribute the same entry; it is then written twice by the unpack,
  with the same result once both are written, which is when the answer may be given.
- The keys in a client run (`KeyStore` has them) and the wording of its output.
  The interval between configuration, connection and key loading, in which
  nothing shared is written, is not divided further.
- Failures of the log file and of stdout.
- Windows: controls other than Stop and Shutdown; what the service manager does
  with a service whose thread returns without a report.
- The components with status `not_modelled` in `PROJECT.json`, for the reasons
  given there.

### Known gaps of the code

Situations the models have shown or excluded, about which no document of the
repository promises anything; each is a hazard in `PROJECT.json` with its line.

- An edit between the server's load and the watcher's first look, or one with an
  old modification time, is not loaded until the next edit.
- A request that was on its way when its run's deadline passed can be deployed
  after the run has exited, and over the files of its retry.
- A source that a build removes between the look and the append is left out of an
  archive that is deployed with success.
- A control that was delivered before a server fails by itself can report StopPending
  after Stopped.
- Names on the command line that the configuration does not know do not change
  the exit status as long as one is known.
- A backup directory inside its deploy directory makes `copy_dir_recursive` find its
  own output.

## 6. Plan

Done: admission, execution with its contract and refinement, reload, key store,
client runs, limits, the Windows service. What is left, in this order:

1. `Trees`: `copy_dir_recursive` as a function over small trees; a backup directory
   inside its deploy directory.
2. Proofs: what the watcher and the service wrapper have left to do after a stop, as
   `CallsRunOut` says it of a call; `Selecting`'s kind of induction for the trees of 1.
