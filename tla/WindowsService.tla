---------------------------- MODULE WindowsService ----------------------------
(***************************************************************************)
(* `adeploy server run' as a Windows service (src/src/server.rs 611-793,   *)
(* src/src/main.rs 189-205).  Two threads share the status handle and the  *)
(* shutdown channel: run_service, which reports the service's states and   *)
(* drives the server, and the dispatcher's, on which the service control   *)
(* manager (SCM) calls the control handler.  Calls are handlers and        *)
(* blocking tasks of the server's runtime; a task outlives its handler     *)
(* when the client gives up.                                               *)
(*                                                                         *)
(* Of the SCM: it delivers one control at a time, and only while the last  *)
(* reported state accepts it; once Stopped is reported the dispatcher      *)
(* returns and the process ends, with whatever still runs in it.           *)
(***************************************************************************)
EXTENDS Naturals

CONSTANTS Call,
          MaxControl   \* bound: controls the SCM delivers

ASSUME ServiceAssumption == MaxControl \in Nat

VARIABLES
  mode,      \* how the dispatcher let it run
  pc,        \* run_service's step
  result,    \* of start_server_with_shutdown: 0, or 1 for an error
  control,   \* the control handler's step
  controls,  \* delivered so far
  status, exit_code,  \* last reported
  missed,    \* history: a report of the control handler failed
  slot,      \* handle_slot is filled
  sender, signalled,  \* the shutdown channel: sender not taken, value sent
  handlers, tasks,    \* calls with a running handler, with a blocking task
  spawned,   \* blocking tasks a call has started
  seen,      \* calls that have arrived
  cut        \* history: calls ended from outside

service == <<mode, pc, result>>
scm     == <<control, controls, missed>>
report  == <<status, exit_code>>
channel == <<slot, sender, signalled>>
calls   == <<handlers, tasks, spawned, seen, cut>>
vars    == <<service, scm, report, channel, calls>>

(* The blocking tasks of one call: the digest, the copy, which is skipped  *)
(* without backups, the creation of the directory and the unpack.  The     *)
(* handler awaits each before it starts the next.                          *)
Jobs == 4

Init ==
  /\ mode = "none" /\ pc = "dispatch" /\ result = 0
  /\ control = "idle" /\ controls = 0 /\ missed = FALSE
  /\ status = "none" /\ exit_code = 0
  /\ slot = FALSE /\ sender = TRUE /\ signalled = FALSE
  /\ handlers = {} /\ tasks = {} /\ seen = {} /\ cut = {}
  /\ spawned = [c \in Call |-> 0]

-----------------------------------------------------------------------------
(* main and run_service.                                                   *)

GoTo(from, to) == pc = from /\ pc' = to

(* set_service_status, which may fail.                                     *)
Says(s, code) == status' = s /\ exit_code' = code
SaysNothing   == UNCHANGED report

Dispatch ==
  /\ GoTo("dispatch", "register") /\ mode' = "service"
  /\ UNCHANGED <<result, scm, report, channel, calls>>

(* ERROR_FAILED_SERVICE_CONTROLLER_CONNECT: started by hand.               *)
Foreground ==
  /\ GoTo("dispatch", "starting") /\ mode' = "foreground"
  /\ UNCHANGED <<result, scm, report, channel, calls>>

DispatchFails ==
  /\ GoTo("dispatch", "exited")
  /\ UNCHANGED <<mode, result, scm, report, channel, calls>>

Register ==
  /\ GoTo("register", "slot")
  /\ UNCHANGED <<mode, result, scm, report, channel, calls>>

FillSlot ==
  /\ GoTo("slot", "start_pending") /\ slot' = TRUE
  /\ UNCHANGED <<mode, result, scm, report, sender, signalled, calls>>

ReportStartPending ==
  /\ GoTo("start_pending", "running") /\ Says("StartPending", 0)
  /\ UNCHANGED <<mode, result, scm, channel, calls>>

ReportRunning ==
  /\ GoTo("running", "build") /\ Says("Running", 0)
  /\ UNCHANGED <<mode, result, scm, channel, calls>>

(* The handler cannot be registered or a state not be reported: return.    *)
EarlyReturn ==
  /\ pc \in {"register", "start_pending", "running"} /\ pc' = "returned"
  /\ UNCHANGED <<mode, result, scm, report, channel, calls>>

Build ==
  /\ GoTo("build", "starting")
  /\ UNCHANGED <<mode, result, scm, report, channel, calls>>

BuildFails ==
  /\ GoTo("build", "returned")
  /\ Says("Stopped", 1) \/ SaysNothing
  /\ UNCHANGED <<mode, result, scm, channel, calls>>

(* start_server_with_shutdown: the configuration is loaded, the port bound.*)
Start ==
  /\ GoTo("starting", "serving")
  /\ UNCHANGED <<mode, result, scm, report, channel, calls>>

MutAfterServe == "reporting"
AfterServe == "dropping"

StartFails ==
  /\ GoTo("starting", IF mode = "service" THEN AfterServe ELSE "exited")
  /\ result' = 1
  /\ UNCHANGED <<mode, scm, report, channel, calls>>

(* The shutdown future is ready; in the foreground it is pending for ever. *)
Shutdown ==
  /\ mode = "service" /\ signalled
  /\ GoTo("serving", "draining")
  /\ UNCHANGED <<mode, result, scm, report, channel, calls>>

MutDrained == TRUE
Drained == handlers = {}

Served ==
  /\ Drained /\ GoTo("draining", AfterServe)
  /\ UNCHANGED <<mode, result, scm, report, channel, calls>>

(* drop(runtime) cancels what is asynchronous and joins what is not.       *)
DropRuntime ==
  /\ GoTo("dropping", "joining")
  /\ handlers' = {} /\ cut' = cut \cup handlers
  /\ UNCHANGED <<mode, result, scm, report, channel, tasks, spawned, seen>>

Join ==
  /\ tasks = {} /\ GoTo("joining", "reporting")
  /\ UNCHANGED <<mode, result, scm, report, channel, calls>>

ReportStopped ==
  /\ GoTo("reporting", "returned")
  /\ Says("Stopped", result) \/ SaysNothing
  /\ UNCHANGED <<mode, result, scm, channel, calls>>

(* The dispatcher has returned, and main with it.                          *)
ProcessEnds ==
  /\ status = "Stopped" /\ control = "idle"
  /\ pc # "exited" /\ pc' = "exited"
  /\ cut' = cut \cup handlers \cup tasks
  /\ handlers' = {} /\ tasks' = {}
  /\ UNCHANGED <<mode, result, scm, report, channel, spawned, seen>>

RunService ==
  \/ Register \/ FillSlot \/ ReportStartPending \/ ReportRunning \/ EarlyReturn
  \/ Build \/ BuildFails \/ Start \/ StartFails
  \/ Shutdown \/ Served \/ DropRuntime \/ Join \/ ReportStopped

-----------------------------------------------------------------------------
(* The control handler, for Stop and Shutdown.                             *)

Deliver ==
  /\ status = "Running" /\ control = "idle" /\ pc # "exited"
  /\ controls < MaxControl /\ controls' = controls + 1
  /\ control' = "reporting"
  /\ UNCHANGED <<service, missed, report, channel, calls>>

ReportStopPending ==
  /\ control = "reporting" /\ control' = "signalling"
  /\ IF slot THEN \/ Says("StopPending", 0) /\ UNCHANGED missed
                  \/ SaysNothing /\ missed' = TRUE
             ELSE SaysNothing /\ UNCHANGED missed
  /\ UNCHANGED <<service, controls, channel, calls>>

(* A value sent before the server awaits it is kept in the channel.        *)
MutKept == pc = "serving"
Kept == TRUE

Signal ==
  /\ control = "signalling" /\ control' = "idle"
  /\ sender' = FALSE
  /\ signalled' = IF sender THEN Kept ELSE signalled
  /\ UNCHANGED <<service, controls, missed, report, slot, calls>>

MutHandler ==
  /\ \/ /\ control = "reporting" /\ control' = "signalling"
        /\ sender' = FALSE /\ signalled' = TRUE /\ SaysNothing
     \/ /\ control = "signalling" /\ control' = "idle"
        /\ Says("StopPending", 0) /\ UNCHANGED <<sender, signalled>>
  /\ UNCHANGED <<service, controls, missed, slot, calls>>
Handler == ReportStopPending \/ Signal

-----------------------------------------------------------------------------
(* Calls.  One that is on its way when the server drains may still arrive. *)

Arrive(c) ==
  /\ pc \in {"serving", "draining"} /\ c \notin seen
  /\ seen' = seen \cup {c} /\ handlers' = handlers \cup {c}
  /\ UNCHANGED <<tasks, spawned, cut, service, scm, report, channel>>

MutMayStart(c) == spawned[c] <= Jobs
MayStart(c) == spawned[c] < Jobs

StartTask(c) ==
  /\ c \in handlers \ tasks /\ MayStart(c)
  /\ tasks' = tasks \cup {c} /\ spawned' = [spawned EXCEPT ![c] = @ + 1]
  /\ UNCHANGED <<handlers, seen, cut, service, scm, report, channel>>

TaskEnds(c) ==
  /\ c \in tasks /\ tasks' = tasks \ {c}
  /\ UNCHANGED <<handlers, spawned, seen, cut, service, scm, report, channel>>

Answer(c) ==
  /\ c \in handlers \ tasks /\ handlers' = handlers \ {c}
  /\ UNCHANGED <<tasks, spawned, seen, cut, service, scm, report, channel>>

(* The client gives up: a task it has started goes on.                     *)
Drop(c) ==
  /\ c \in handlers /\ handlers' = handlers \ {c}
  /\ UNCHANGED <<tasks, spawned, seen, cut, service, scm, report, channel>>

CallStep(c) == Arrive(c) \/ StartTask(c) \/ TaskEnds(c) \/ Answer(c) \/ Drop(c)

Next ==
  \/ Dispatch \/ Foreground \/ DispatchFails \/ RunService \/ ProcessEnds
  \/ Deliver \/ Handler
  \/ \E c \in Call : CallStep(c)

Spec == Init /\ [][Next]_vars

(* Both threads run, blocking tasks and handlers end.                      *)
FairSpec ==
  /\ Spec /\ WF_vars(RunService) /\ WF_vars(Handler)
  /\ \A c \in Call : WF_vars(StartTask(c) \/ TaskEnds(c) \/ Answer(c))

-----------------------------------------------------------------------------
Steps == {"dispatch", "register", "slot", "start_pending", "running", "build", "starting",
          "serving", "draining", "dropping", "joining", "reporting", "returned", "exited"}

(* The types; a call starts at most the four blocking tasks of             *)
(* extract_files, whoever gives up in between.                             *)
TypeOK ==
  /\ mode \in {"none", "service", "foreground"} /\ pc \in Steps /\ result \in {0, 1}
  /\ control \in {"idle", "reporting", "signalling"} /\ controls \in 0..MaxControl
  /\ status \in {"none", "StartPending", "Running", "StopPending", "Stopped"}
  /\ exit_code \in {0, 1}
  /\ missed \in BOOLEAN /\ slot \in BOOLEAN /\ sender \in BOOLEAN /\ signalled \in BOOLEAN
  /\ handlers \subseteq seen /\ tasks \subseteq seen /\ cut \subseteq seen
  /\ seen \subseteq Call
  /\ spawned \in [Call -> 0..Jobs]

(* Stopped means stopped: with this report the process may end at any      *)
(* moment, so no handler runs any more and no blocking task, not even that *)
(* of a call whose client had given up (server.rs 771-793).                *)
StoppedIsQuiet == status = "Stopped" => handlers = {} /\ tasks = {}

(* A stop cuts no call off: handlers that had started are finished before  *)
(* their runtime is dropped, their tasks before the process ends           *)
(* (server.rs 313-321, 767-773).                                           *)
NoCallCut == cut = {}

(* After a clean stop was reported the control handler reports nothing any *)
(* more: it says StopPending before it sends the signal that leads to the  *)
(* stop.  When that report itself failed the SCM may deliver another       *)
(* control, hence the exception (server.rs 691-705, 784-793).              *)
StoppedIsLast ==
  [][status = "Stopped" /\ exit_code = 0 /\ ~ missed => UNCHANGED status]_vars

(* A Stop or Shutdown that was delivered ends run_service, wherever the    *)
(* start of the server is at that moment (server.rs 703-705, 767-793).     *)
StopEnds == control = "reporting" ~> pc \in {"returned", "exited"}
===============================================================================
