----------------------------- MODULE ConfigWatcher -----------------------------
(***************************************************************************)
(* The server's configuration: start_server_with_shutdown loads it once    *)
(* and binds its port; the task of spawn_config_watcher polls the file's   *)
(* modification time and installs what it finds (src/src/server.rs).       *)
(*                                                                         *)
(* The operator edits the file at any moment: between the server's load    *)
(* and the watcher's first look, between the watcher's look at the         *)
(* modification time and its read of the content, several times within the *)
(* resolution of the modification time, or by putting a file with an older *)
(* modification time in place.                                             *)
(***************************************************************************)
EXTENDS Integers

CONSTANTS Port,      \* the values of server.port an operator may write
          MaxTime,   \* bound: modification times run from 0 to this one
          MaxEdit,   \* bound: how often the operator changes the file
          MaxStart   \* bound: how often the server is started

ASSUME BoundAssumption == MaxTime \in Nat /\ MaxEdit \in Nat /\ MaxStart \in Nat
ASSUME PortAssumption  == Port # {} /\ Port \subseteq Int

Time == 0 .. MaxTime

(* A version of the file, numbered in the order of the edits.  One that is *)
(* not valid is half written or does not parse.                            *)
Version == [gen : 0 .. MaxEdit, valid : BOOLEAN, port : Port, mtime : Time]
Missing == [gone |-> TRUE]
NoTime  == -1     \* Option<SystemTime>::None

VARIABLES
  now,            \* the clock the file system stamps files with
  file,           \* server_config.toml
  edits,          \* how often it was changed
  server,         \* "down", "serving", "closing" (shutdown was signalled)
  starts,         \* how often the server was started
  listening,      \* the port the listener is bound to
  shared_config,  \* Arc<RwLock<ServerConfig>>
  watcher,        \* where the watcher task is in its loop
  modified,       \* the modification time it has read in this round
  new_config,     \* the configuration it has parsed in this round
  last_modified,
  last_error,
  said,           \* the last line it logged
  \* history
  look,           \* what the watcher's last look found
  horizon         \* nothing up to this modification time is news to it

env     == <<now, file, edits>>
process == <<server, starts, listening>>
vars    == <<env, process, shared_config, watcher, modified, new_config,
             last_modified, last_error, said, look, horizon>>

(* The types.  The running configuration is always a whole version, with a *)
(* port that an operator wrote.                                            *)
TypeOK ==
  /\ now \in Time
  /\ file \in Version \cup {Missing}
  /\ edits \in 0 .. MaxEdit
  /\ server \in {"down", "serving", "closing"}
  /\ starts \in 0 .. MaxStart
  /\ listening \in Port
  /\ shared_config \in Version
  /\ watcher \in {"none", "spawned", "sleep", "stat", "load", "install"}
  /\ modified \in Time
  /\ new_config \in Version
  /\ last_modified \in Time \cup {NoTime}
  /\ last_error \in {"none", "metadata", "reload"}
  /\ said \in {"nothing", "available again", "metadata", "reload", "reloaded"}
  /\ look \in {"file", "no file"}
  /\ horizon \in Time \cup {NoTime}

Init ==
  /\ now = 0
  /\ file \in [gen : {0}, valid : {TRUE}, port : Port, mtime : {0}]
  /\ edits = 0
  /\ server = "down"
  /\ starts = 0
  /\ listening = file.port
  /\ shared_config = file
  /\ watcher = "none"
  /\ modified = 0
  /\ new_config = file
  /\ last_modified = NoTime
  /\ last_error = "none"
  /\ said = "nothing"
  /\ look = "file"
  /\ horizon = NoTime

-----------------------------------------------------------------------------
(* The operator and the clock.                                             *)
MutReadable(f) == f # Missing
Readable(f) == f # Missing /\ f.valid

Edit ==
  /\ edits < MaxEdit
  /\ edits' = edits + 1
  /\ file' \in [gen : {edits + 1}, valid : BOOLEAN, port : Port, mtime : 0 .. now]
  /\ UNCHANGED <<now, process, shared_config, watcher, modified, new_config,
                 last_modified, last_error, said, look, horizon>>

Remove ==
  /\ file # Missing
  /\ edits < MaxEdit
  /\ edits' = edits + 1
  /\ file' = Missing
  /\ UNCHANGED <<now, process, shared_config, watcher, modified, new_config,
                 last_modified, last_error, said, look, horizon>>

Tick ==
  /\ now < MaxTime
  /\ now' = now + 1
  /\ UNCHANGED <<file, edits, process, shared_config, watcher, modified, new_config,
                 last_modified, last_error, said, look, horizon>>

-----------------------------------------------------------------------------
(* The server.  A start that cannot load the file fails and changes        *)
(* nothing.                                                                *)
Start ==
  /\ server = "down" /\ starts < MaxStart
  /\ Readable(file)
  /\ server' = "serving"
  /\ starts' = starts + 1
  /\ listening' = file.port
  /\ shared_config' = file
  /\ watcher' = "spawned"
  /\ UNCHANGED <<env, modified, new_config, last_modified, last_error, said, look, horizon>>

(* The shutdown future completes; WatcherGuard is dropped when the server  *)
(* returns and tells the watcher.                                          *)
Shutdown ==
  /\ server = "serving"
  /\ server' = "closing"
  /\ UNCHANGED <<env, starts, listening, shared_config, watcher, modified, new_config,
                 last_modified, last_error, said, look, horizon>>

(* The process ends, in whatever state the watcher is.                     *)
Exit ==
  /\ server # "down"
  /\ server' = "down"
  /\ watcher' = "none"
  /\ UNCHANGED <<env, starts, listening, shared_config, modified, new_config,
                 last_modified, last_error, said, look, horizon>>

-----------------------------------------------------------------------------
(* The watcher task.                                                       *)

(* It is first polled some time after it was spawned.                      *)
FirstLook ==
  /\ watcher = "spawned"
  /\ watcher' = "sleep"
  /\ last_modified' = IF file = Missing THEN NoTime ELSE file.mtime
  /\ last_error' = "none"
  /\ said' = "nothing"
  /\ look' = IF file = Missing THEN "no file" ELSE "file"
  /\ horizon' = last_modified'
  /\ UNCHANGED <<env, process, shared_config, modified, new_config>>

(* The sleep is over and nobody has signalled the shutdown.                *)
MutWake ==
  /\ watcher = "sleep"
  /\ watcher' = "stat"
  /\ UNCHANGED <<env, process, shared_config, modified, new_config,
                 last_modified, last_error, said, look, horizon>>
Wake ==
  /\ watcher = "sleep" /\ server = "serving"
  /\ watcher' = "stat"
  /\ UNCHANGED <<env, process, shared_config, modified, new_config,
                 last_modified, last_error, said, look, horizon>>

StopWatching ==
  /\ watcher = "sleep" /\ server = "closing"
  /\ watcher' = "none"
  /\ UNCHANGED <<env, process, shared_config, modified, new_config,
                 last_modified, last_error, said, look, horizon>>

(* One warning for each run of equal errors; message stands for its text.  *)
Report(message) ==
  /\ last_error' = message
  /\ said' = IF last_error # message THEN message ELSE said

(* fs::metadata fails.                                                     *)
StatFails ==
  /\ watcher = "stat" /\ file = Missing
  /\ watcher' = "sleep"
  /\ Report("metadata")
  /\ look' = "no file"
  /\ UNCHANGED <<env, process, shared_config, modified, new_config, last_modified, horizon>>

MutNewer(time) == last_modified = NoTime \/ time > last_modified + 1
Newer(time) == last_modified = NoTime \/ time > last_modified

Stat ==
  /\ watcher = "stat" /\ file # Missing
  /\ watcher' = IF Newer(file.mtime) THEN "load" ELSE "sleep"
  /\ modified' = file.mtime
  /\ last_error' = "none"
  /\ said' = IF last_error # "none" THEN "available again" ELSE said
  /\ look' = "file"
  /\ UNCHANGED <<env, process, shared_config, new_config, last_modified, horizon>>

Later(s, t) == IF s < t THEN t ELSE s

Load ==
  /\ watcher = "load" /\ Readable(file)
  /\ watcher' = "install"
  /\ new_config' = file
  /\ last_error' = "none"
  /\ horizon' = Later(modified, file.mtime)
  /\ UNCHANGED <<env, process, shared_config, modified, last_modified, said, look>>

MutLoadFails ==
  /\ watcher = "load" /\ ~ Readable(file)
  /\ watcher' = "sleep"
  /\ Report("reload")
  /\ last_modified' = modified
  /\ UNCHANGED <<env, process, shared_config, modified, new_config, look, horizon>>
LoadFails ==
  /\ watcher = "load" /\ ~ Readable(file)
  /\ watcher' = "sleep"
  /\ Report("reload")
  /\ UNCHANGED <<env, process, shared_config, modified, new_config, last_modified, look, horizon>>

(* The port of the running configuration stays.                            *)
MutKeepPort(c) == c
MutKeepPortZero(c) == [c EXCEPT !.port = 0]
KeepPort(c) == [c EXCEPT !.port = shared_config.port]

Install ==
  /\ watcher = "install"
  /\ watcher' = "sleep"
  /\ shared_config' = KeepPort(new_config)
  /\ last_modified' = modified
  /\ said' = "reloaded"
  /\ UNCHANGED <<env, process, modified, new_config, last_error, look, horizon>>

Watch == FirstLook \/ Wake \/ StopWatching \/ StatFails \/ Stat \/ Load \/ LoadFails \/ Install

Next == Edit \/ Remove \/ Tick \/ Start \/ Shutdown \/ Exit \/ Watch

Spec == Init /\ [][Next]_vars

(* The runtime polls the watcher and its timer fires; operator, clock and  *)
(* process owe nothing.                                                    *)
FairSpec == Spec /\ WF_vars(Watch)

-----------------------------------------------------------------------------
(* Properties.                                                             *)

(* The configuration never claims a port other than the one the listener   *)
(* is bound to, whatever the operator writes and however often.            *)
PortPinned == server # "down" => shared_config.port = listening

(* Between two rounds the server runs the version in the file, or the next *)
(* round will see that it does not - unless the edit is not newer than     *)
(* what the watcher has taken in already, or slipped in before its first   *)
(* look (both lie at or below horizon).                                    *)
UpToDateOrDue ==
  watcher = "sleep" /\ Readable(file) /\ file.mtime > horizon
    => Newer(file.mtime)

(* What UpToDateOrDue and PortPinned rest on: horizon covers what the      *)
(* watcher has recorded, and what it is about to record.                   *)
Covered ==
  /\ watcher \in {"sleep", "stat", "load", "install"} => last_modified <= horizon
  /\ watcher = "load" => last_modified <= modified
  /\ watcher = "install" => modified <= horizon

(* Only whole, parsed versions run, and never an older one than before.    *)
NoRollback ==
  [][server # "down" /\ server' # "down" =>
       shared_config'.valid /\ shared_config'.gen >= shared_config.gen]_vars

(* A valid version newer than all the watcher has taken in is running      *)
(* after a while, or is edited again, or the server is shut down: also     *)
(* after rounds that failed to read or to parse the file.                  *)
EditPickedUp ==
  \A g \in 1 .. MaxEdit :
    /\ server = "serving" /\ watcher # "spawned"
    /\ Readable(file) /\ file.gen = g /\ file.mtime > horizon
    ~> \/ server # "serving"
       \/ file = Missing \/ (file # Missing /\ file.gen # g)
       \/ shared_config.gen = g

(* The version in the file is not running although the watcher can tell    *)
(* that it is new, or has just read it; and the steps until it is: those   *)
(* of a round, after the installation that the last one may be about to do.*)
Coming == watcher = "install" /\ new_config.gen = file.gen
Outstanding ==
  /\ server = "serving" /\ watcher # "spawned"
  /\ Readable(file) /\ file.gen # shared_config.gen
  /\ file.mtime > horizon \/ Coming

ToGo == CASE Coming -> 1 [] watcher = "load" -> 2 [] watcher = "stat" -> 3
          [] watcher = "sleep" -> 4 [] OTHER -> 5

(* It takes the watcher no more than these to install it, whatever failed  *)
(* to be read or to be parsed before: nothing is recorded of a round that  *)
(* installed nothing (server.rs 400-445).                                  *)
PickedUpSoon ==
  [][Outstanding /\ UNCHANGED <<file, server>> =>
       \/ shared_config'.gen = file.gen
       \/ Outstanding' /\ (ToGo' < ToGo \/ UNCHANGED watcher)]_vars

(* After the shutdown was signalled the watcher ends.                      *)
WatcherEnds == server = "closing" ~> watcher = "none"

(* "Server config file ... became available again" (src/server.rs): it was *)
(* not available before.  Fails: an error of the load counts as one.       *)
AvailableAgainIsTrue ==
  [][said # "available again" /\ said' = "available again" => look = "no file"]_vars
=============================================================================
