------------------------- MODULE WindowsServiceProofs -------------------------
(* What holds of WindowsService for any number of calls and controls.      *)
EXTENDS WindowsService, TLAPS

(* Calls live where the server serves: handlers until it has drained,      *)
(* tasks until the runtime is dropped; Stopped is said only after that.    *)
Sheltered ==
  /\ pc \notin {"serving", "draining"} => handlers = {}
  /\ pc \notin {"serving", "draining", "dropping", "joining"} => tasks = {}
  /\ status = "Stopped" => pc \in {"returned", "exited"}
  /\ cut = {}

(* The control handler does not run before Running was reported, and finds *)
(* the slot filled.                                                        *)
Booting == {"dispatch", "register", "slot", "start_pending", "running"}

Booted ==
  /\ pc \in Booting => status \in {"none", "StartPending"} /\ control = "idle" /\ ~ signalled
  /\ pc \in {"start_pending", "running"} => slot
  /\ status = "Running" \/ control = "reporting" => slot

(* The server ends without an error only when it was told to; who tells it *)
(* has reported StopPending before, unless that report failed.             *)
Told ==
  /\ result = 0 /\ pc \in {"draining", "dropping", "joining", "reporting"} => signalled
  /\ status = "Stopped" /\ exit_code = 0 => signalled
  /\ (control = "signalling" \/ signalled) /\ ~ missed =>
       status \in {"StopPending", "Stopped"} /\ control # "reporting"

Inv == TypeOK /\ Sheltered /\ Booted /\ Told

USE DEF GoTo, Says, SaysNothing, AfterServe, Drained, Kept, MayStart, Jobs, Steps,
        vars, service, scm, report, channel, calls

(* No server yet, and no control.                                          *)
LEMMA InitInv == Init => Inv
<1> SUFFICES ASSUME Init PROVE Inv
  OBVIOUS
<1>1. TypeOK
  <2>1. controls \in 0..MaxControl /\ spawned \in [Call -> 0..Jobs]
    BY ServiceAssumption DEF Init
  <2>2. missed \in BOOLEAN /\ slot \in BOOLEAN /\ sender \in BOOLEAN /\ signalled \in BOOLEAN
    BY DEF Init
  <2> QED
    BY <2>1, <2>2 DEF Init, TypeOK
<1>2. Sheltered /\ Booted /\ Told
  BY DEF Init, Sheltered, Booted, Booting, Told
<1> QED
  BY <1>1, <1>2 DEF Inv

(* The types by themselves are inductive.                                  *)
LEMMA TypeStep == TypeOK /\ [Next]_vars => TypeOK'
<1> SUFFICES ASSUME TypeOK, [Next]_vars PROVE TypeOK'
  OBVIOUS
<1> USE ServiceAssumption DEF TypeOK
<1>1. CASE Dispatch \/ Foreground \/ DispatchFails
  BY <1>1 DEF Dispatch, Foreground, DispatchFails
<1>2. CASE Register \/ FillSlot \/ ReportStartPending \/ ReportRunning \/ EarlyReturn
  <2>1. CASE FillSlot
    BY <2>1 DEF FillSlot
  <2>2. CASE Register \/ ReportStartPending \/ ReportRunning \/ EarlyReturn
    BY <2>2 DEF Register, ReportStartPending, ReportRunning, EarlyReturn
  <2> QED
    BY <1>2, <2>1, <2>2
<1>3. CASE Build \/ BuildFails \/ Start \/ StartFails
  BY <1>3 DEF Build, BuildFails, Start, StartFails
<1>4. CASE Shutdown \/ Served \/ DropRuntime \/ Join \/ ReportStopped \/ ProcessEnds
  BY <1>4 DEF Shutdown, Served, DropRuntime, Join, ReportStopped, ProcessEnds
<1>5. CASE Deliver
  BY <1>5 DEF Deliver
<1>6. CASE Handler
  BY <1>6 DEF Handler, ReportStopPending, Signal
<1>7. ASSUME NEW c \in Call, CallStep(c) PROVE TypeOK'
  BY <1>7 DEF CallStep, Arrive, StartTask, TaskEnds, Answer, Drop
<1>8. CASE UNCHANGED vars
  BY <1>8
<1> QED
  BY <1>1, <1>2, <1>3, <1>4, <1>5, <1>6, <1>7, <1>8 DEF Next, RunService

(* One case per thread and part of its way.                                *)
LEMMA InvStep == Inv /\ [Next]_vars => Inv'
<1> SUFFICES ASSUME Inv, [Next]_vars PROVE Sheltered' /\ Booted' /\ Told'
  BY TypeStep DEF Inv
<1> USE DEF Inv, Sheltered, Booted, Booting, Told
<1>1. CASE Dispatch \/ Foreground \/ DispatchFails
  BY <1>1 DEF Dispatch, Foreground, DispatchFails
<1>2. CASE Register \/ FillSlot \/ ReportStartPending \/ ReportRunning \/ EarlyReturn
  BY <1>2 DEF Register, FillSlot, ReportStartPending, ReportRunning, EarlyReturn
<1>3. CASE Build \/ BuildFails \/ Start \/ StartFails
  BY <1>3 DEF Build, BuildFails, Start, StartFails
<1>4. CASE Shutdown \/ Served \/ DropRuntime \/ Join \/ ReportStopped \/ ProcessEnds
  BY <1>4 DEF Shutdown, Served, DropRuntime, Join, ReportStopped, ProcessEnds
<1>5. CASE Deliver \/ Handler
  BY <1>5 DEF TypeOK, Deliver, Handler, ReportStopPending, Signal
<1>6. ASSUME NEW c \in Call, CallStep(c) PROVE Sheltered' /\ Booted' /\ Told'
  BY <1>6 DEF CallStep, Arrive, StartTask, TaskEnds, Answer, Drop
<1>7. CASE UNCHANGED vars
  BY <1>7
<1> QED
  BY <1>1, <1>2, <1>3, <1>4, <1>5, <1>6, <1>7 DEF Next, RunService

(* It holds in every reachable state; the types are part of it.            *)
THEOREM Invariant == Spec => []Inv
  BY InitInv, InvStep, PTL DEF Spec

(* The types, as the runs check them.                                      *)
THEOREM TypeCorrect == Spec => []TypeOK
<1>1. Inv => TypeOK
  BY DEF Inv
<1> QED
  BY <1>1, Invariant, PTL

(* With the report Stopped no handler and no blocking task is left.        *)
THEOREM StoppedQuiet == Spec => []StoppedIsQuiet
<1>1. Inv => StoppedIsQuiet
  BY DEF Inv, Sheltered, StoppedIsQuiet
<1> QED
  BY <1>1, Invariant, PTL

(* No call is cut off by a stop.                                           *)
THEOREM CallsFinish == Spec => []NoCallCut
<1>1. Inv => NoCallCut
  BY DEF Inv, Sheltered, NoCallCut
<1> QED
  BY <1>1, Invariant, PTL

(* After a clean Stopped the control handler changes the state no more.    *)
THEOREM LastWord == Spec => StoppedIsLast
<1>1. Inv /\ [Next]_vars =>
        [status = "Stopped" /\ exit_code = 0 /\ ~ missed => UNCHANGED status]_vars
  <2> SUFFICES ASSUME Inv, Next, status = "Stopped", exit_code = 0, ~ missed
               PROVE  UNCHANGED status
    OBVIOUS
  <2>1. pc \in {"returned", "exited"} /\ control # "reporting"
    BY DEF Inv, Sheltered, Told
  <2>2. CASE RunService \/ Dispatch \/ Foreground \/ DispatchFails \/ ProcessEnds
    BY <2>1, <2>2 DEF Dispatch, Foreground, DispatchFails, RunService, ProcessEnds, Register,
       FillSlot, ReportStartPending, ReportRunning, EarlyReturn, Build, BuildFails, Start,
       StartFails, Shutdown, Served, DropRuntime, Join, ReportStopped
  <2>3. CASE Deliver \/ Handler
    BY <2>1, <2>3 DEF Deliver, Handler, ReportStopPending, Signal
  <2>4. ASSUME NEW c \in Call, CallStep(c) PROVE UNCHANGED status
    BY <2>4 DEF CallStep, Arrive, StartTask, TaskEnds, Answer, Drop
  <2> QED
    BY <2>2, <2>3, <2>4 DEF Next
<1> QED
  BY <1>1, Invariant, PTL DEF Spec, StoppedIsLast
===============================================================================
