----------------------------- MODULE ClientDeploy -----------------------------
(***************************************************************************)
(* Runs of `adeploy <HOST> <PACKAGE>...' (src/src/client.rs deploy,        *)
(* src/src/deploy.rs package_files_blocking) against one server.  A run    *)
(* packs and sends its packages one by one, waits for each answer and      *)
(* stops at the first that is not a success.                               *)
(*                                                                         *)
(* The server is DeployContract, which the detailed one implements; what   *)
(* is added here is its size limits and that it can be down.  A request is *)
(* a message: it is delivered once, late or never, also after its client   *)
(* has given up.                                                           *)
(***************************************************************************)
EXTENDS Limits, Sequences, FiniteSets

CONSTANTS Run,           \* client processes
          Package, Host, Source,
          Built,         \* sources that a build removes for a while
          Dir, File,     \* of the server, as in DeployContract
          Entries,       \* the archive entries a source contributes
          ClientConfig,  \* of each run: what its client_config.toml may hold
          ServerLimit,   \* what the operator writes as max_file_size
          Size,          \* sizes an archive may have
          Line,          \* of each run: the package names on its command line
          MaxNames,      \* bound: their number
          MaxEvent       \* bound: halts and reloads of the server, removals of
                         \* a source by a build, together

RemoteConfig == [timeout : Nat, max_file_size : Nat]

ASSUME ClientAssumption ==
  /\ Built \subseteq Source
  /\ Entries \in [Source -> SUBSET File]
  /\ ServerLimit \subseteq Nat /\ ServerLimit # {} /\ Size \subseteq Nat
  /\ {MaxNames, MaxEvent} \subseteq Nat
  /\ \A r \in Run : Line[r] \in UNION {[1..n -> Package] : n \in 1..MaxNames}
  /\ "default" \notin Host
  /\ \A r \in Run : \A c \in ClientConfig[r] :
       /\ DOMAIN c.packages \subseteq Package
       /\ \A p \in DOMAIN c.packages : c.packages[p] \in Seq(Source)
       /\ DOMAIN c.remotes \subseteq Host \cup {"default"}
       /\ \A h \in DOMAIN c.remotes : c.remotes[h] \in RemoteConfig

Call == Run \X (1..MaxNames)

VARIABLES
  pc, config, remote,  \* a run: its step and configuration
  at, todo, packed, size,  \* the package it is at, sources still to pack,
                           \* entries packed, the archive's size
  why,               \* how it ended
  missing, removed,  \* sources that are not there; removed since a run began
  wire,              \* requests that were sent and not handled yet
  up, max_file_size, started_with,   \* the server, its limit now and at its start
  rejected,          \* of a run: the check that turned its last request down
  events,            \* counter for the bound
  disk, phase, target, archive, finished

Server == INSTANCE DeployContract

client   == <<pc, config, remote, at, todo, packed, size, why>>
tree     == <<missing, removed>>
limits   == <<up, max_file_size, started_with, events>>
requests == <<wire, rejected>>
deployment == <<disk, phase, target, archive, finished>>
vars     == <<client, tree, limits, requests, deployment>>

NoConfig == [packages |-> <<>>, remotes |-> <<>>]
NoRemote == [timeout |-> 0, max_file_size |-> 0]
Nobody   == <<>>

Steps     == {"idle", "connecting", "looking", "adding", "packed", "waiting", "exited"}
Endings   == {"running", "success", "local", "refused", "failed", "unanswered"}
Checks    == {"none", "client", "encoder", "decoder", "archive", "other"}
Message   == [call : Call, size : Size, entries : SUBSET File]

-----------------------------------------------------------------------------
(* The client's view of its configuration.                                 *)

(* get_remote_config: the host's own remote, else the default.             *)
Remotes(c, h) == {k \in {h, "default"} : k \in DOMAIN c.remotes}
RemoteOf(c, h) == IF h \in DOMAIN c.remotes THEN c.remotes[h] ELSE c.remotes["default"]

(* select_packages: the names it knows, in their order, repetitions too.   *)
Selecting(known, line) ==
  LET sel[i \in 0..Len(line)] ==
        IF i = 0 THEN <<>>
        ELSE IF line[i] \in known THEN Append(sel[i - 1], line[i])
        ELSE sel[i - 1]
  IN  sel

MutKnown(c, line) == Selecting(DOMAIN c.packages, line)[Len(line) - 1]
Known(c, line) == Selecting(DOMAIN c.packages, line)[Len(line)]
Selected(r) == Known(config[r], Line[r])

Sources(r, i) == config[r].packages[Selected(r)[i]]

Current(r) == <<r, at[r]>>

More(r) == at[r] < Len(Selected(r))

MutHasDeadline(r) == FALSE
HasDeadline(r) == remote[r].timeout # 0

Init ==
  /\ pc = [r \in Run |-> "idle"]
  /\ config = [r \in Run |-> NoConfig]
  /\ remote = [r \in Run |-> NoRemote]
  /\ at = [r \in Run |-> 0]
  /\ todo = [r \in Run |-> <<>>]
  /\ packed = [r \in Run |-> {}]
  /\ size = [r \in Run |-> 0]
  /\ why = [r \in Run |-> "running"]
  /\ missing = {}
  /\ removed = [r \in Run |-> {}]
  /\ wire = {}
  /\ up = TRUE
  /\ max_file_size \in ServerLimit
  /\ started_with = max_file_size
  /\ rejected = [r \in Run |-> "none"]
  /\ events = 0
  /\ disk = [d \in Dir |-> [f \in File |-> [by |-> Nobody, whole |-> TRUE]]]
  /\ Server!Init

-----------------------------------------------------------------------------
(* A run of the client.                                                    *)

Exit(r, ending) ==
  /\ pc' = [pc EXCEPT ![r] = "exited"]
  /\ why' = [why EXCEPT ![r] = ending]
  /\ todo' = [todo EXCEPT ![r] = <<>>]
  /\ packed' = [packed EXCEPT ![r] = {}]
  /\ size' = [size EXCEPT ![r] = 0]
  /\ UNCHANGED <<config, remote, at>>

(* deploy_single_package on the i-th of them: package_files begins.        *)
Pack(r, i) ==
  /\ pc' = [pc EXCEPT ![r] = "looking"]
  /\ at' = [at EXCEPT ![r] = i]
  /\ todo' = [todo EXCEPT ![r] = Sources(r, i)]
  /\ packed' = [packed EXCEPT ![r] = {}]
  /\ size' = [size EXCEPT ![r] = 0]
  /\ UNCHANGED <<config, remote, why>>

Begin(r) ==
  /\ pc[r] = "idle"
  /\ \E h \in Host, c \in ClientConfig[r] :
       /\ Remotes(c, h) # {}
       /\ config' = [config EXCEPT ![r] = c]
       /\ remote' = [remote EXCEPT ![r] = RemoteOf(c, h)]
  /\ pc' = [pc EXCEPT ![r] = "connecting"]
  /\ removed' = [removed EXCEPT ![r] = missing]
  /\ UNCHANGED <<at, todo, packed, size, why, missing, limits, requests, deployment>>

(* No readable configuration, or none for this host.                       *)
BeginFails(r) ==
  /\ pc[r] = "idle" /\ Exit(r, "local")
  /\ UNCHANGED <<tree, limits, requests, deployment>>

Connect(r) ==
  /\ pc[r] = "connecting" /\ up
  /\ Selected(r) # <<>> /\ Pack(r, 1)
  /\ UNCHANGED <<tree, limits, requests, deployment>>

(* No connection within connect_timeout, no keys, nothing selected.        *)
ConnectFails(r) ==
  /\ pc[r] = "connecting" /\ Exit(r, "local")
  /\ UNCHANGED <<tree, limits, requests, deployment>>

(* path.exists(); a source that is not there ends the run.                 *)
Look(r) ==
  /\ pc[r] = "looking" /\ todo[r] # <<>>
  /\ IF Head(todo[r]) \in missing
     THEN Exit(r, "local")
     ELSE /\ pc' = [pc EXCEPT ![r] = "adding"]
          /\ UNCHANGED <<config, remote, at, todo, packed, size, why>>
  /\ UNCHANGED <<tree, limits, requests, deployment>>

MutEntriesOf(s) == {s}
EntriesOf(s) == Entries[s]

(* A source that has gone since is neither file nor directory: left out.   *)
Add(r) ==
  /\ pc[r] = "adding"
  /\ packed' = IF Head(todo[r]) \in missing THEN packed
               ELSE [packed EXCEPT ![r] = @ \cup EntriesOf(Head(todo[r]))]
  /\ todo' = [todo EXCEPT ![r] = Tail(@)]
  /\ pc' = [pc EXCEPT ![r] = "looking"]
  /\ UNCHANGED <<config, remote, at, size, why, tree, limits, requests, deployment>>

(* append, finish, read of a source or of the key fails.                   *)
AddFails(r) ==
  /\ pc[r] = "adding" /\ Exit(r, "local")
  /\ UNCHANGED <<tree, limits, requests, deployment>>

(* The builder is finished; how large the archive is depends on the files. *)
Finish(r) ==
  /\ pc[r] = "looking" /\ todo[r] = <<>>
  /\ \E n \in Size : size' = [size EXCEPT ![r] = n]
  /\ pc' = [pc EXCEPT ![r] = "packed"]
  /\ UNCHANGED <<config, remote, at, todo, packed, why, tree, limits, requests, deployment>>

ClientLimit(r) == resolved_max_file_size(remote[r].max_file_size)

(* The archive, or the message with it, exceeds the client's own limit.    *)
CannotSend(r) ==
  /\ pc[r] = "packed"
  /\ \/ /\ ~ enforce_client_archive_size(size[r], ClientLimit(r))
        /\ rejected' = [rejected EXCEPT ![r] = "client"]
     \/ /\ enforce_client_archive_size(size[r], ClientLimit(r))
        /\ ~ Fits(size[r], clamp_message_limit(ClientLimit(r)))
        /\ rejected' = [rejected EXCEPT ![r] = "encoder"]
  /\ Exit(r, "local")
  /\ UNCHANGED <<wire, tree, limits, deployment>>

Send(r) ==
  /\ pc[r] = "packed"
  /\ enforce_client_archive_size(size[r], ClientLimit(r))
  /\ Fits(size[r], clamp_message_limit(ClientLimit(r)))
  /\ wire' = IF up THEN wire \cup {[call |-> Current(r), size |-> size[r], entries |-> packed[r]]}
             ELSE wire
  /\ pc' = [pc EXCEPT ![r] = "waiting"]
  /\ UNCHANGED <<config, remote, at, todo, packed, size, why, rejected, tree, limits, deployment>>

(* What lets the loop go on to the next package.                           *)
MutContinuesFailed(outcome) == outcome \in {"deployed", "failed"}
MutContinuesUnanswered(outcome) == outcome \in {"deployed", "unanswered"}
Continues(outcome) == outcome = "deployed"

MutAfter(r, outcome) ==
  \/ Continues(outcome) /\ More(r) /\ Pack(r, at[r] + 1)
  \/ Continues(outcome) /\ ~ More(r) /\ Exit(r, "success")
  \/ outcome = "unanswered" /\ Pack(r, at[r])
  \/ ~ Continues(outcome) /\ outcome # "unanswered" /\ Exit(r, outcome)

After(r, outcome) ==
  \/ Continues(outcome) /\ More(r) /\ Pack(r, at[r] + 1)
  \/ Continues(outcome) /\ ~ More(r) /\ Exit(r, "success")
  \/ ~ Continues(outcome) /\ Exit(r, outcome)

Reply(r) ==
  /\ pc[r] = "waiting"
  /\ phase[Current(r)] \in {"deployed", "failed", "refused"}
  /\ After(r, phase[Current(r)])
  /\ UNCHANGED <<tree, limits, requests, deployment>>

(* The deadline of configure_endpoint has passed.                          *)
Deadline(r) ==
  /\ pc[r] = "waiting" /\ HasDeadline(r) /\ After(r, "unanswered")
  /\ UNCHANGED <<tree, limits, requests, deployment>>

(* The connection breaks, or the reply is larger than the client decodes.  *)
ReplyLost(r) ==
  /\ pc[r] = "waiting" /\ After(r, "unanswered")
  /\ UNCHANGED <<tree, limits, requests, deployment>>

-----------------------------------------------------------------------------
Event == events < MaxEvent /\ events' = events + 1

(* The builds that make the sources.                                       *)

Remove(s) ==
  /\ Event /\ s \notin missing
  /\ missing' = missing \cup {s}
  /\ removed' = [r \in Run |-> IF pc[r] \in {"idle", "exited"} THEN removed[r]
                               ELSE removed[r] \cup {s}]
  /\ UNCHANGED <<client, up, max_file_size, started_with, requests, deployment>>

Restore(s) ==
  /\ s \in missing /\ missing' = missing \ {s}
  /\ UNCHANGED <<removed, client, limits, requests, deployment>>

-----------------------------------------------------------------------------
(* The network and the server.                                             *)

Lose(m) ==
  /\ wire' = wire \ {m}
  /\ UNCHANGED <<rejected, client, tree, limits, deployment>>

Reject(m, check) ==
  /\ rejected' = [rejected EXCEPT ![m.call[1]] = check]
  /\ Server!Refuse(m.call)

(* Fixed in start_server_with_shutdown.                                    *)
message_limit == resolve_message_limit(started_with)

(* "other": key, signature, or a package the server does not know.         *)
Receive(m) ==
  /\ up /\ wire' = wire \ {m}
  /\ \/ ~ Fits(m.size, message_limit) /\ Reject(m, "decoder")
     \/ Fits(m.size, message_limit) /\ Reject(m, "other")
     \/ /\ Fits(m.size, message_limit) /\ TooLarge(m.size, max_file_size)
        /\ Reject(m, "archive")
     \/ /\ Fits(m.size, message_limit) /\ ~ TooLarge(m.size, max_file_size)
        /\ Server!Accept(m.call) /\ archive'[m.call] = m.entries
        /\ UNCHANGED rejected
  /\ UNCHANGED <<client, tree, limits>>

Deploying(c) ==
  /\ up
  /\ \/ \E f \in File : Server!Open(c, f) \/ Server!Close(c, f)
     \/ Server!Succeed(c) \/ Server!Fail(c)
     \/ Server!Abandon(c) \/ Server!Leave(c)
  /\ UNCHANGED <<client, tree, limits, requests>>

Halt ==
  /\ up /\ up' = FALSE
  /\ Event
  /\ wire' = {}
  /\ Server!Halt
  /\ UNCHANGED <<client, tree, max_file_size, started_with, rejected>>

Restart ==
  /\ ~ up /\ up' = TRUE
  /\ max_file_size' \in ServerLimit
  /\ started_with' = max_file_size'
  /\ UNCHANGED <<client, tree, events, requests, deployment>>

Reload ==
  /\ up /\ Event
  /\ max_file_size' \in ServerLimit \ {max_file_size}
  /\ UNCHANGED <<client, tree, up, started_with, requests, deployment>>

ClientStep(r) ==
  \/ Connect(r) \/ ConnectFails(r) \/ Look(r) \/ Add(r) \/ AddFails(r)
  \/ Finish(r) \/ CannotSend(r) \/ Send(r) \/ Reply(r) \/ Deadline(r)

Environment ==
  \/ \E r \in Run : Begin(r) \/ BeginFails(r) \/ ReplyLost(r)
  \/ \E s \in Built : Remove(s) \/ Restore(s)
  \/ \E m \in wire : Lose(m)

ServerStep ==
  \/ \E m \in wire : Receive(m)
  \/ \E c \in Call : Deploying(c)
  \/ Halt \/ Restart \/ Reload

Next == Environment \/ ServerStep \/ \E r \in Run : ClientStep(r)

Spec == Init /\ [][Next]_vars

(* The client's own steps, its timer among them, are taken.                *)
FairSpec == Spec /\ \A r \in Run : WF_vars(ClientStep(r))

-----------------------------------------------------------------------------
(* The types; a run is never at a package beyond the selected ones.        *)
TypeOK ==
  /\ pc \in [Run -> Steps] /\ why \in [Run -> Endings]
  /\ DOMAIN config = Run /\ \A r \in Run : config[r] \in ClientConfig[r] \cup {NoConfig}
  /\ remote \in [Run -> RemoteConfig]
  /\ \A r \in Run : at[r] \in 0..Len(Selected(r))
  /\ todo \in [Run -> Seq(Source)] /\ packed \in [Run -> SUBSET File]
  /\ missing \subseteq Source /\ removed \in [Run -> SUBSET Source]
  /\ wire \subseteq Message
  /\ up \in BOOLEAN /\ max_file_size \in ServerLimit /\ started_with \in ServerLimit
  /\ size \in [Run -> Size \cup {0}] /\ rejected \in [Run -> Checks]
  /\ events \in 0..MaxEvent
  /\ Server!TypeOK

(* Exit status 0: every package of the command line that the configuration *)
(* knows was deployed, in the order given, and every file of the sources   *)
(* that stayed in place while the run lasted is on the server, whole, or   *)
(* was replaced by another call's (client.rs 39-52, 202-223).              *)
SuccessMeansDeployed ==
  \A r \in Run : why[r] = "success" =>
    \A i \in 1..Len(Selected(r)) :
      /\ phase[<<r, i>>] = "deployed"
      /\ \A k \in 1..Len(Sources(r, i)) :
           Sources(r, i)[k] \notin removed[r] =>
             \A f \in Entries[Sources(r, i)[k]] : Server!Kept(<<r, i>>, f)

(* Exit status 0 says of the command line itself: every name on it that    *)
(* the configuration knows was deployed, each as often as it was given, in *)
(* the order given, and nothing else was (client.rs 132-154, 39-52).       *)
Places(known, line, n) == {j \in 1..n : line[j] \in known}
KnownPlaces(r) == Places(DOMAIN config[r].packages, Line[r], Len(Line[r]))

NamesDeployed ==
  \A r \in Run : why[r] = "success" =>
    \E number \in [KnownPlaces(r) -> 1..Len(Selected(r))] :
      /\ \A j, k \in KnownPlaces(r) : j < k => number[j] < number[k]
      /\ \A i \in 1..Len(Selected(r)) : \E j \in KnownPlaces(r) : number[j] = i
      /\ \A j \in KnownPlaces(r) :
           Selected(r)[number[j]] = Line[r][j] /\ phase[<<r, number[j]>>] = "deployed"

OnTheWay(c) == (\E m \in wire : m.call = c) \/ phase[c] \in {"accepted", "abandoned"}

(* The packages of a run are deployed in order: what has been sent for one *)
(* was sent after all before it were answered "deployed" (client.rs 39-50).*)
PrefixDeployed ==
  \A r \in Run, i, j \in 1..MaxNames :
    i < j /\ (phase[<<r, j>>] # "new" \/ OnTheWay(<<r, j>>)) => phase[<<r, i>>] = "deployed"

(* Only a run that ended without an answer leaves something on the way:    *)
(* after any other ending no request of it is still to be handled and none *)
(* is being deployed (client.rs 187-223).                                  *)
EndedIsOver ==
  \A r \in Run : pc[r] = "exited" /\ why[r] # "unanswered" =>
    \A i \in 1..MaxNames : ~ OnTheWay(<<r, i>>)

(* What fits a message of limit n, 0 being the default of 100 MB.          *)
Within(n, limit) == n + Overhead <= (IF limit = 0 THEN DefaultLimit ELSE limit)

(* An archive that fits a message under the client's limit, under the one  *)
(* the server was started with and under the one in force is turned down   *)
(* for its size by none of the four checks (client.rs 235-260, server.rs   *)
(* 104-113, 326-337).                                                      *)
FittingIsNotTooLarge ==
  [][/\ \A r \in Run :
          rejected[r] = "none" /\ rejected'[r] \in {"client", "encoder"} =>
            \/ size[r] + Overhead > UsizeMax
            \/ ~ Within(size[r], remote[r].max_file_size)
     /\ \A m \in wire \ wire' :
          rejected[m.call[1]] = "none" /\ rejected'[m.call[1]] \in {"decoder", "archive"} =>
            \/ m.size + Overhead > UsizeMax
            \/ ~ Within(m.size, started_with)
            \/ ~ Within(m.size, max_file_size)]_vars

(* server_config.toml: max_file_size is the "maximum allowed archive size  *)
(* in bytes; larger uploads are rejected": the server turns no archive     *)
(* down for its size that is within the limit in force.                    *)
AllowedSizeAccepted ==
  [][\A m \in wire \ wire' :
       rejected[m.call[1]] = "none" /\ rejected'[m.call[1]] \in {"decoder", "archive"} =>
         TooLarge(m.size, max_file_size)]_vars

(* A run with a timeout ends, whatever server and network do (client.rs    *)
(* configure_endpoint).                                                    *)
RunEnds ==
  \A r \in Run : (pc[r] # "idle" /\ remote[r].timeout > 0) ~> (pc[r] = "exited")

(* What a run has ahead of it, the most significant first: how far it has  *)
(* got, packages after this one, steps after packing, sources to pack (two *)
(* steps for each).                                                        *)
Way(step) == CASE step = "idle" -> 3 [] step = "connecting" -> 2 [] step = "exited" -> 0 [] OTHER -> 1
Pass(step) == CASE step \in {"looking", "adding"} -> 2 [] step = "packed" -> 1 [] OTHER -> 0
Looks(step) == IF step = "looking" THEN 1 ELSE 0

Ahead(r) == <<Way(pc[r]), Len(Selected(r)) - at[r], Pass(pc[r]), 2 * Len(todo[r]) + Looks(pc[r])>>

Fewer(a, b) == \E j \in 1..4 : a[j] < b[j] /\ \A i \in 1..(j - 1) : a[i] = b[i]

(* A run does not repeat itself: whatever is lost, late or refused, each   *)
(* of its steps leaves it less ahead (client.rs 39-52; there is no retry). *)
RunsGoForward ==
  [][\A r \in Run :
       /\ Ahead(r) \in [1..4 -> Nat]
       /\ <<pc[r], at[r], todo[r]>>' # <<pc[r], at[r], todo[r]>>
            => Fewer(Ahead(r)', Ahead(r))]_vars
===============================================================================
