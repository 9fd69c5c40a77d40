--------------------------- MODULE ConfigWatcherProofs ---------------------------
(***************************************************************************)
(* What ConfigWatcher promises, for any set of ports and any number of     *)
(* edits, modification times and starts.                                   *)
(***************************************************************************)
EXTENDS ConfigWatcher, TLAPS

(* The inductive invariant: Covered is what UpToDateOrDue needs besides the *)
(* types, and PortPinned is inductive together with them.                  *)
Inv == TypeOK /\ PortPinned /\ Covered

(* It holds before the first start.                                        *)
LEMMA InvInit == Init => Inv
<1> SUFFICES ASSUME Init PROVE Inv
  OBVIOUS
<1>1. file \in Version /\ file.port \in Port
  <2>1. 0 \in 0 .. MaxEdit /\ 0 \in Time
    BY BoundAssumption DEF Time
  <2>2. QED BY <2>1 DEF Init, Version
<1>2. 0 \in 0 .. MaxEdit /\ 0 \in 0 .. MaxStart /\ 0 \in Time
  BY BoundAssumption DEF Time
<1>3. TypeOK
  BY <1>1, <1>2 DEF Init, TypeOK
<1>4. PortPinned /\ Covered
  BY DEF Init, PortPinned, Covered
<1>5. QED BY <1>3, <1>4 DEF Inv

(* Modification times and their bounds are integers.                       *)
LEMMA TimesAreInts ==
  ASSUME TypeOK
  PROVE  /\ last_modified \in Int /\ horizon \in Int /\ modified \in Int
         /\ Time \subseteq Int
         /\ file # Missing => file \in Version /\ file.mtime \in Time
<1>1. Time \subseteq Int /\ NoTime \in Int
  BY BoundAssumption DEF Time, NoTime
<1>2. last_modified \in Time \cup {NoTime} /\ horizon \in Time \cup {NoTime} /\ modified \in Time
  BY DEF TypeOK
<1>3. file # Missing => file \in Version /\ file.mtime \in Time
  BY DEF TypeOK, Version
<1>4. QED BY <1>1, <1>2, <1>3

(* The operator, the server and the watcher keep it.                       *)
LEMMA InvStep == Inv /\ [Next]_vars => Inv'
<1> SUFFICES ASSUME TypeOK, PortPinned, Covered, [Next]_vars
             PROVE  TypeOK' /\ PortPinned' /\ Covered'
  BY DEF Inv
<1> USE DEF env, process
<1>1. CASE Edit
  <2>1. edits' \in 0 .. MaxEdit
    <3>1. edits \in 0 .. MaxEdit
      BY DEF TypeOK
    <3>2. QED BY <1>1, <3>1, BoundAssumption DEF Edit
  <2>2. file' \in Version
    <3>1. now \in Time
      BY DEF TypeOK
    <3>2. 0 .. now \subseteq Time
      BY <3>1, BoundAssumption DEF Time
    <3>3. QED BY <1>1, <2>1, <3>2 DEF Edit, Version
  <2>3. TypeOK'
    BY <1>1, <2>1, <2>2 DEF Edit, TypeOK
  <2>4. QED BY <1>1, <2>3 DEF Edit, PortPinned, Covered
<1>2. CASE Remove
  <2>1. edits' \in 0 .. MaxEdit
    <3>1. edits \in 0 .. MaxEdit
      BY DEF TypeOK
    <3>2. QED BY <1>2, <3>1, BoundAssumption DEF Remove
  <2>2. TypeOK'
    BY <1>2, <2>1 DEF Remove, TypeOK
  <2>3. QED BY <1>2, <2>2 DEF Remove, PortPinned, Covered
<1>3. CASE Tick
  <2>1. now' \in Time
    <3>1. now \in Time
      BY DEF TypeOK
    <3>2. QED BY <1>3, <3>1, BoundAssumption DEF Tick, Time
  <2>2. TypeOK'
    <3>1. file' \in Version \cup {Missing} /\ edits' \in 0 .. MaxEdit
      BY <1>3 DEF Tick, TypeOK
    <3>2. server' \in {"down", "serving", "closing"} /\ starts' \in 0 .. MaxStart /\ listening' \in Port
      BY <1>3 DEF Tick, TypeOK
    <3>3. UNCHANGED <<shared_config, watcher, modified, new_config, last_modified, last_error,
                      said, look, horizon>>
      BY <1>3 DEF Tick
    <3>4. QED BY <2>1, <3>1, <3>2, <3>3 DEF TypeOK
  <2>3. QED BY <1>3, <2>2 DEF Tick, PortPinned, Covered
<1>4. CASE Start
  <2>1. starts' \in 0 .. MaxStart
    <3>1. starts \in 0 .. MaxStart
      BY DEF TypeOK
    <3>2. QED BY <1>4, <3>1, BoundAssumption DEF Start
  <2>2. file \in Version /\ file.port \in Port
    BY <1>4 DEF Start, Readable, TypeOK, Version
  <2>3. TypeOK'
    BY <1>4, <2>1, <2>2 DEF Start, TypeOK
  <2>4. QED BY <1>4, <2>3 DEF Start, PortPinned, Covered
<1>5. CASE Shutdown
  <2>1. TypeOK'
    BY <1>5 DEF Shutdown, TypeOK
  <2>2. QED BY <1>5, <2>1 DEF Shutdown, PortPinned, Covered
<1>6. CASE Exit
  BY <1>6 DEF Exit, TypeOK, PortPinned, Covered
<1>7. CASE FirstLook
  <2>1. last_modified' \in Time \cup {NoTime} /\ horizon' = last_modified'
    BY <1>7, TimesAreInts DEF FirstLook
  <2>2. TypeOK'
    BY <1>7, <2>1 DEF FirstLook, TypeOK
  <2>3. last_modified' <= horizon'
    BY <2>1, <2>2, BoundAssumption DEF Time, NoTime
  <2>4. QED BY <1>7, <2>2, <2>3 DEF FirstLook, PortPinned, Covered
<1>8. CASE Wake
  BY <1>8 DEF Wake, TypeOK, PortPinned, Covered
<1>9. CASE StopWatching
  BY <1>9 DEF StopWatching, TypeOK, PortPinned, Covered
<1>10. CASE StatFails
  BY <1>10 DEF StatFails, Report, TypeOK, PortPinned, Covered
<1>11. CASE Stat
  <2>1. file.mtime \in Time
    BY <1>11, TimesAreInts DEF Stat
  <2>2. TypeOK'
    BY <1>11, <2>1 DEF Stat, TypeOK
  <2>3. Newer(file.mtime) => last_modified <= file.mtime
    BY <2>1, TimesAreInts, BoundAssumption DEF Newer, Time, NoTime
  <2>4. Covered'
    BY <1>11, <2>3 DEF Stat, Covered
  <2>5. QED BY <1>11, <2>2, <2>4 DEF Stat, PortPinned
<1>12. CASE Load
  <2>1. file \in Version /\ file.mtime \in Time /\ modified \in Time
    BY <1>12, TimesAreInts DEF Load, Readable, TypeOK
  <2>2. horizon' \in Time /\ modified <= horizon'
    BY <1>12, <2>1, TimesAreInts DEF Load, Later
  <2>3. last_modified <= horizon'
    <3>1. last_modified <= modified
      BY <1>12 DEF Load, Covered
    <3>2. QED BY <3>1, <2>2, TimesAreInts
  <2>4. TypeOK'
    BY <1>12, <2>1, <2>2 DEF Load, TypeOK
  <2>5. Covered'
    BY <1>12, <2>2, <2>3 DEF Load, Covered
  <2>6. QED BY <1>12, <2>4, <2>5 DEF Load, PortPinned
<1>13. CASE LoadFails
  BY <1>13 DEF LoadFails, Report, TypeOK, PortPinned, Covered
<1>14. CASE Install
  <2>1. shared_config' \in Version /\ shared_config'.port = shared_config.port
    BY <1>14 DEF Install, KeepPort, Version, TypeOK
  <2>2. TypeOK'
    BY <1>14, <2>1 DEF Install, TypeOK
  <2>3. Covered'
    BY <1>14 DEF Install, Covered
  <2>4. QED BY <1>14, <2>1, <2>2, <2>3 DEF Install, PortPinned
<1>15. CASE UNCHANGED vars
  <2>1. /\ now' = now /\ file' = file /\ edits' = edits
        /\ server' = server /\ starts' = starts /\ listening' = listening
        /\ shared_config' = shared_config /\ watcher' = watcher /\ modified' = modified
        /\ new_config' = new_config /\ last_modified' = last_modified
        /\ last_error' = last_error /\ said' = said /\ look' = look /\ horizon' = horizon
    BY <1>15 DEF vars
  <2>2. TypeOK'
    <3>1. /\ now' \in Time /\ file' \in Version \cup {Missing} /\ edits' \in 0 .. MaxEdit
          /\ server' \in {"down", "serving", "closing"} /\ starts' \in 0 .. MaxStart
      BY <2>1 DEF TypeOK
    <3>2. /\ listening' \in Port /\ shared_config' \in Version
          /\ watcher' \in {"none", "spawned", "sleep", "stat", "load", "install"}
          /\ modified' \in Time /\ new_config' \in Version
      BY <2>1 DEF TypeOK
    <3>3. UNCHANGED <<last_modified, last_error, said, look, horizon>>
      BY <2>1
    <3>4. QED BY <3>1, <3>2, <3>3 DEF TypeOK
  <2>3. QED BY <2>1, <2>2 DEF PortPinned, Covered
<1>16. QED
  BY <1>1, <1>2, <1>3, <1>4, <1>5, <1>6, <1>7, <1>8, <1>9, <1>10, <1>11, <1>12, <1>13,
     <1>14, <1>15 DEF Next, Watch

(* The running configuration never claims another port than the listener's *)
(* (src/src/server.rs, the "Ignoring server port change" branch).          *)
THEOREM PortStays == Spec => []PortPinned
<1>1. Spec => []Inv
  BY InvInit, InvStep, PTL DEF Spec
<1>2. Inv => PortPinned
  BY DEF Inv
<1>3. QED BY <1>1, <1>2, PTL

(* Between two rounds a version newer than all the watcher has taken in is *)
(* one the next round will load: the modification time is read before the  *)
(* content and recorded only with a version that was installed.            *)
THEOREM NothingOverlooked == Spec => []UpToDateOrDue
<1>1. Spec => []Inv
  BY InvInit, InvStep, PTL DEF Spec
<1>2. Inv => UpToDateOrDue
  <2> SUFFICES ASSUME Inv, watcher = "sleep", Readable(file), file.mtime > horizon
               PROVE  Newer(file.mtime)
    BY DEF UpToDateOrDue
  <2>1. file # Missing
    BY DEF Readable
  <2>2. file.mtime \in Int /\ last_modified \in Int /\ horizon \in Int
    BY <2>1, TimesAreInts DEF Inv
  <2>3. last_modified <= horizon
    BY DEF Inv, Covered
  <2>4. QED BY <2>2, <2>3 DEF Newer
<1>3. QED BY <1>1, <1>2, PTL

(* The types hold in every reachable state.                                *)
THEOREM TypeCorrect == Spec => []TypeOK
<1>1. Spec => []Inv
  BY InvInit, InvStep, PTL DEF Spec
<1>2. Inv => TypeOK
  BY DEF Inv
<1>3. QED BY <1>1, <1>2, PTL

(* The number of a version is that of the edit it comes from, and what the *)
(* server runs, or is about to run, is valid and no newer than the file.   *)
Ordered ==
  /\ file # Missing => file.gen = edits
  /\ shared_config.valid /\ shared_config.gen <= edits
  /\ watcher = "install" =>
       /\ new_config.valid
       /\ shared_config.gen <= new_config.gen /\ new_config.gen <= edits

(* The first version is the number of no edit.                             *)
LEMMA OrderedInit == Init => Ordered
<1> SUFFICES ASSUME Init PROVE Ordered
  OBVIOUS
<1>1. file.gen = 0 /\ file.valid
  BY DEF Init
<1>2. edits = 0 /\ shared_config = file /\ watcher = "none"
  BY DEF Init
<1> QED
  BY <1>1, <1>2 DEF Ordered

(* An edit only raises the number that the rest is held against; what is   *)
(* started, loaded and installed comes from the file at that moment.       *)
LEMMA OrderedStep == TypeOK /\ Ordered /\ [Next]_vars => Ordered'
<1> SUFFICES ASSUME TypeOK, Ordered, [Next]_vars PROVE Ordered'
  OBVIOUS
<1>1. /\ edits \in Int /\ shared_config \in Version /\ new_config \in Version
      /\ \A v \in Version : v.gen \in Int
      /\ file # Missing => file \in Version
  <2>1. \A v \in Version : v.gen \in Int
    BY BoundAssumption DEF Version
  <2>2. edits \in Int
    <3>1. edits \in 0 .. MaxEdit
      BY DEF TypeOK
    <3> QED
      BY <3>1, BoundAssumption
  <2>3. shared_config \in Version /\ new_config \in Version
    BY DEF TypeOK
  <2>4. file # Missing => file \in Version
    BY TimesAreInts
  <2> QED
    BY <2>1, <2>2, <2>3, <2>4
<1> USE DEF env, process
<1>2. CASE Edit
  <2>1. edits' = edits + 1 /\ file'.gen = edits' /\ UNCHANGED <<watcher, shared_config, new_config>>
    BY <1>2 DEF Edit
  <2> QED
    BY <1>1, <2>1 DEF Ordered
<1>3. CASE Remove
  BY <1>1, <1>3 DEF Remove, Ordered
<1>4. CASE Start
  BY <1>1, <1>4 DEF Start, Readable, Ordered
<1>5. CASE Load
  BY <1>1, <1>5 DEF Load, Readable, Ordered
<1>6. CASE Install
  <2>1. /\ shared_config'.gen = new_config.gen /\ shared_config'.valid = new_config.valid
        /\ watcher' # "install" /\ UNCHANGED env
    BY <1>1, <1>6 DEF Install, KeepPort, Version
  <2>2. new_config.valid /\ new_config.gen <= edits /\ (file # Missing => file.gen = edits)
    BY <1>6 DEF Ordered, Install
  <2>3. shared_config'.valid
    BY <2>1, <2>2, Zenon
  <2> QED
    BY <2>1, <2>2, <2>3 DEF Ordered
<1>7. CASE Tick \/ Shutdown \/ Exit \/ FirstLook \/ Wake \/ StopWatching
           \/ StatFails \/ Stat \/ LoadFails
  BY <1>7 DEF Tick, Shutdown, Exit, FirstLook, Wake, StopWatching, StatFails, Stat, LoadFails,
     Ordered
<1>8. CASE UNCHANGED vars
  BY <1>8 DEF vars, Ordered
<1> QED
  BY <1>2, <1>3, <1>4, <1>5, <1>6, <1>7, <1>8 DEF Next, Watch

(* A running server only ever changes to a valid version, of a later edit. *)
THEOREM Forward == Spec => NoRollback
<1>1. TypeOK /\ Ordered /\ [Next]_vars /\ server # "down" /\ server' # "down" =>
        shared_config'.valid /\ shared_config'.gen >= shared_config.gen
  <2> SUFFICES ASSUME TypeOK, Ordered, [Next]_vars, server # "down"
               PROVE  shared_config'.valid /\ shared_config'.gen >= shared_config.gen
    OBVIOUS
  <2>1. /\ shared_config \in Version /\ new_config \in Version
        /\ \A v \in Version : v.gen \in Int
    <3>1. \A v \in Version : v.gen \in Int
      BY BoundAssumption DEF Version
    <3> QED
      BY <3>1 DEF TypeOK
  <2>2. CASE Install
    <3>1. shared_config'.gen = new_config.gen /\ shared_config'.valid = new_config.valid
      BY <2>1, <2>2 DEF Install, KeepPort, Version
    <3> QED
      BY <2>1, <2>2, <3>1 DEF Ordered, Install
  <2>3. CASE UNCHANGED shared_config
    BY <2>1, <2>3 DEF Ordered
  <2> QED
    BY <2>2, <2>3 DEF Next, vars, Watch, Edit, Remove, Tick, Start, Shutdown, Exit,
       FirstLook, Wake, StopWatching, StatFails, Stat, Load, LoadFails
<1>2. Spec => [](TypeOK /\ Ordered)
  BY TypeCorrect, OrderedInit, OrderedStep, PTL DEF Spec
<1> QED
  BY <1>1, <1>2, PTL DEF Spec, NoRollback

(* From wherever the watcher is when a new version is in the file it is at *)
(* most the rest of this round and one more from installing it.            *)
THEOREM WithinARound == Spec => PickedUpSoon
<1> DEFINE Goal == \/ shared_config'.gen = file.gen
                   \/ Outstanding' /\ (ToGo' < ToGo \/ UNCHANGED watcher)
<1>1. ASSUME Inv, Ordered, [Next]_vars, Outstanding, UNCHANGED <<file, server>> PROVE Goal
  <2> TypeOK /\ Covered
    BY <1>1 DEF Inv
  <2>1. /\ server = "serving" /\ watcher # "spawned" /\ Readable(file) /\ file # Missing
        /\ file.gen # shared_config.gen /\ (file.mtime > horizon \/ Coming)
    BY <1>1 DEF Outstanding, Readable
  <2>2. server' = "serving" /\ file' = file /\ Readable(file)'
    BY <1>1, <2>1 DEF Readable
  <2>3. /\ file.mtime \in Int /\ modified \in Int /\ horizon \in Int /\ last_modified \in Int
        /\ new_config \in Version /\ shared_config \in Version
    <3>1. file.mtime \in Time /\ modified \in Int /\ horizon \in Int /\ last_modified \in Int
      BY <2>1, TimesAreInts
    <3>2. Time \subseteq Int
      BY TimesAreInts
    <3>3. new_config \in Version /\ shared_config \in Version
      BY Zenon DEF TypeOK
    <3> QED
      BY <3>1, <3>2, <3>3
  <2>4. watcher # "install" => file.mtime > horizon
    BY <2>1 DEF Coming
  <2>5. CASE Wake
    <3>1. watcher = "sleep" /\ watcher' = "stat" /\ UNCHANGED <<shared_config, horizon>>
      BY <2>5 DEF Wake
    <3>2. Outstanding'
      BY <2>1, <2>2, <2>4, <3>1 DEF Outstanding
    <3>3. ToGo' = 3 /\ ToGo = 4
      BY <3>1 DEF ToGo, Coming
    <3> QED
      BY <3>2, <3>3
  <2>6. CASE Stat
    <3>1. Newer(file.mtime)
      <4>1. watcher = "stat"
        BY <2>6, Zenon DEF Stat
      <4>2. last_modified <= horizon /\ file.mtime > horizon
        BY <2>4, <4>1 DEF Covered
      <4> QED
        BY <2>3, <4>2 DEF Newer
    <3>2. watcher = "stat" /\ watcher' = "load" /\ UNCHANGED <<shared_config, horizon>>
      BY <2>6, <3>1, Zenon DEF Stat
    <3>3. Outstanding'
      BY <2>1, <2>2, <2>4, <3>2 DEF Outstanding
    <3>4. ToGo' = 2 /\ ToGo = 3
      BY <3>2 DEF ToGo, Coming
    <3> QED
      BY <3>3, <3>4
  <2>7. CASE Load
    <3>1. /\ watcher = "load" /\ watcher' = "install"
          /\ new_config' = file /\ UNCHANGED shared_config
      BY <2>7 DEF Load
    <3>2. Coming'
      BY <2>2, <3>1 DEF Coming
    <3>3. Outstanding'
      BY <2>1, <2>2, <3>1, <3>2 DEF Outstanding
    <3>4. ToGo' = 1 /\ ToGo = 2
      BY <3>1, <3>2 DEF ToGo, Coming
    <3> QED
      BY <3>3, <3>4
  <2>8. CASE Install
    <3>1. /\ watcher = "install" /\ watcher' = "sleep" /\ UNCHANGED horizon
          /\ shared_config'.gen = new_config.gen
      BY <2>3, <2>8 DEF Install, KeepPort, Version
    <3>2. CASE Coming
      BY <3>1, <3>2 DEF Coming
    <3>3. CASE ~ Coming
      <4>1. new_config.gen # file.gen /\ file.mtime > horizon
        BY <2>1, <3>1, <3>3 DEF Coming
      <4>2. Outstanding'
        BY <2>2, <3>1, <4>1 DEF Outstanding
      <4>3. ToGo' = 4 /\ ToGo = 5
        BY <3>1, <3>3 DEF ToGo, Coming
      <4> QED
        BY <4>2, <4>3
    <3> QED
      BY <3>2, <3>3
  <2>9. CASE Tick \/ UNCHANGED vars
    <3>1. UNCHANGED <<watcher, shared_config, new_config, horizon>>
      BY <2>9 DEF Tick, vars
    <3>2. Outstanding'
      BY <2>1, <2>2, <3>1 DEF Outstanding, Coming
    <3> QED
      BY <3>1, <3>2
  <2>10. ~ (Start \/ Shutdown \/ Exit)
    BY <2>1, <2>2 DEF Start, Shutdown, Exit
  <2>11. ~ (FirstLook \/ StopWatching \/ StatFails \/ LoadFails)
    <3>1. ~ FirstLook /\ ~ StopWatching
      BY <2>1 DEF FirstLook, StopWatching
    <3>2. ~ StatFails /\ ~ LoadFails
      BY <2>1, Zenon DEF StatFails, LoadFails
    <3> QED
      BY <3>1, <3>2
  <2>12. ~ (Edit \/ Remove)
    <3>1. file.gen = edits /\ edits \in Int
      <4>1. edits \in 0 .. MaxEdit
        BY Zenon DEF TypeOK
      <4> QED
        BY <1>1, <2>1, <4>1, BoundAssumption DEF Ordered
    <3>2. ASSUME Edit PROVE FALSE
      <4>1. file'.gen = edits + 1
        BY <3>2 DEF Edit
      <4> QED
        BY <2>2, <3>1, <4>1
    <3>3. ~ Remove
      BY <2>1, <2>2 DEF Remove
    <3> QED
      BY <3>2, <3>3
  <2> QED
    BY <1>1, <2>5, <2>6, <2>7, <2>8, <2>9, <2>10, <2>11, <2>12 DEF Next, Watch
<1>2. Spec => [](Inv /\ Ordered)
  <2>1. Inv => TypeOK
    BY DEF Inv
  <2> QED
    BY InvInit, InvStep, OrderedInit, OrderedStep, <2>1, PTL DEF Spec
<1> QED
  BY <1>1, <1>2, PTL DEF Spec, PickedUpSoon
=============================================================================
