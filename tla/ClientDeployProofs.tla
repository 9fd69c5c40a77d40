-------------------------- MODULE ClientDeployProofs --------------------------
(***************************************************************************)
(* What a run of the client leaves behind, for any number of runs,         *)
(* packages, halts and reloads.                                            *)
(***************************************************************************)
EXTENDS ClientDeploy, TLAPS, WellFoundedInduction

Sent(r, i)      == \E m \in wire : m.call = <<r, i>>
Phase(r, i)     == phase[<<r, i>>]
Untouched(r, i) == ~ Sent(r, i) /\ (i \in 1..MaxNames => Phase(r, i) = "new")

(* The types that the argument needs.                                      *)
Types ==
  /\ MaxNames \in Nat
  /\ pc \in [Run -> Steps] /\ at \in [Run -> Nat] /\ why \in [Run -> Endings]
  /\ phase \in [Call -> Server!Phases]

(* A request is on the wire at most once, and not after it was handled.    *)
Wire ==
  /\ \A m \in wire : m.call \in Run \X Nat /\ (m.call \in Call => phase[m.call] = "new")
  /\ \A m, n \in wire : m.call = n.call => m = n

(* Behind the package a run is at everything is deployed, ahead of it all  *)
(* is untouched, and so is that package until its request is sent.         *)
Position(r) ==
  /\ \A i \in 1..MaxNames : i < at[r] => Phase(r, i) = "deployed"
  /\ \A i \in Nat : i > at[r] => Untouched(r, i)
  /\ pc[r] \notin {"waiting", "exited"} => Untouched(r, at[r])
  /\ pc[r] \in {"idle", "connecting"} => at[r] = 0
  /\ pc[r] = "exited" /\ why[r] # "unanswered" =>
       \A i \in 1..MaxNames : i = at[r] => ~ OnTheWay(<<r, i>>)

Inv == Types /\ Wire /\ \A r \in Run : Position(r)

(* Nothing has begun.                                                      *)
LEMMA InvInit == Init => Inv
<1> SUFFICES ASSUME Init PROVE Inv
  OBVIOUS
<1>1. Types
  BY ClientAssumption DEF Init, Types, Steps, Endings, Server!Init, Server!Phases
<1>2. Wire
  BY DEF Init, Wire
<1>3. ASSUME NEW r \in Run PROVE Position(r)
  BY <1>1, <1>3 DEF Init, Position, Untouched, Sent, Phase, Call, Server!Init
<1> QED
  BY <1>1, <1>2, <1>3 DEF Inv

-----------------------------------------------------------------------------
(* What everybody but the clients does to the calls: a request that leaves *)
(* the wire may begin one, one that has begun may go on.                   *)
CallsGoOn ==
  /\ UNCHANGED <<pc, at, why>> /\ wire' \subseteq wire
  /\ phase' \in [Call -> Server!Phases]
  /\ \A c \in Call :
       \/ phase'[c] = phase[c]
       \/ /\ phase[c] = "new" /\ phase'[c] \in {"refused", "accepted"}
          /\ \E m \in wire \ wire' : m.call = c
       \/ phase[c] \in {"accepted", "abandoned"} /\ phase'[c] # "new"

(* Receive begins the call of the request it takes.                        *)
LEMMA ReceiveGoesOn ==
  ASSUME Inv, NEW m \in wire, Receive(m)
  PROVE  CallsGoOn
<1>1. phase \in [Call -> Server!Phases]
  BY DEF Inv, Types
<1>2. UNCHANGED <<pc, at, why>> /\ wire' = wire \ {m}
  BY DEF Receive, client
<1>3. \E to \in {"refused", "accepted"} :
        phase[m.call] = "new" /\ phase' = [phase EXCEPT ![m.call] = to]
  BY DEF Receive, Reject, Server!Refuse, Server!Accept, Server!Become
<1> QED
  BY <1>1, <1>2, <1>3 DEF CallsGoOn, Server!Phases

(* A call the server is at goes on or ends.                                *)
LEMMA DeployingGoesOn ==
  ASSUME Inv, NEW c \in Call, Deploying(c)
  PROVE  CallsGoOn
<1>1. phase \in [Call -> Server!Phases]
  BY DEF Inv, Types
<1>2. UNCHANGED <<pc, at, why, wire>>
  BY DEF Deploying, client, requests
<1>3. \/ UNCHANGED phase
      \/ \E to \in {"deployed", "failed", "abandoned", "gone"} :
           /\ phase[c] \in {"accepted", "abandoned"}
           /\ phase' = [phase EXCEPT ![c] = to]
  BY DEF Deploying, Server!Open, Server!Close, Server!Succeed, Server!Fail, Server!Abandon,
     Server!Leave, Server!Become
<1> QED
  BY <1>1, <1>2, <1>3 DEF CallsGoOn, Server!Phases

(* A halt ends every call that has begun.                                  *)
LEMMA HaltGoesOn ==
  ASSUME Inv, Halt
  PROVE  CallsGoOn
<1>1. phase \in [Call -> Server!Phases]
  BY DEF Inv, Types
<1>2. UNCHANGED <<pc, at, why>> /\ wire' \subseteq wire
  BY DEF Halt, client
<1>3. phase' = [c \in Call |-> IF phase[c] \in {"accepted", "abandoned"} THEN "gone" ELSE phase[c]]
  BY DEF Halt, Server!Halt
<1> QED
  BY <1>1, <1>2, <1>3 DEF CallsGoOn, Server!Phases

(* And such steps leave every run where it is.                             *)
LEMMA InvGoesOn ==
  ASSUME Inv, CallsGoOn
  PROVE  Inv'
<1> USE DEF Inv, CallsGoOn
<1>1. Types'
  BY DEF Types
<1>2. Wire'
  BY DEF Wire
<1>3. ASSUME NEW r \in Run PROVE Position(r)'
  <2> USE DEF Position
  <2>1. \A i \in Nat : Sent(r, i)' => Sent(r, i)
    BY DEF Sent
  <2>2. \A i \in Nat : Untouched(r, i) => Untouched(r, i)'
    BY <2>1 DEF Untouched, Sent, Phase, Call
  <2>3. \A i \in 1..MaxNames : Phase(r, i) = "deployed" => Phase(r, i)' = "deployed"
    BY DEF Phase, Call
  <2>4. \A i \in 1..MaxNames : ~ OnTheWay(<<r, i>>) => ~ OnTheWay(<<r, i>>)'
    BY DEF OnTheWay, Call
  <2>5. at[r] \in Nat
    BY DEF Types
  <2> QED
    BY <2>2, <2>3, <2>4, <2>5
<1> QED
  BY <1>1, <1>2, <1>3
-----------------------------------------------------------------------------
(* The steps of a client, by what they do to its position.                 *)

(* It prepares a request: nothing of it can be seen from outside.          *)
LEMMA BusyKeeps ==
  ASSUME Inv, NEW r \in Run, NEW step \in {"connecting", "looking", "adding", "packed"},
         pc[r] \notin {"waiting", "exited"}, step = "connecting" => pc[r] = "idle",
         pc' = [pc EXCEPT ![r] = step], UNCHANGED <<at, why, wire, phase>>
  PROVE  Inv'
<1> USE DEF Inv
<1>1. Types' /\ Wire'
  BY DEF Types, Steps, Wire
<1>2. ASSUME NEW q \in Run PROVE Position(q)'
  BY DEF Types, Position, Untouched, Sent, Phase, OnTheWay
<1> QED
  BY <1>1, <1>2

(* It ends, and when it has its answer nothing of it is on the way.        *)
LEMMA ExitKeeps ==
  ASSUME Inv, NEW r \in Run, NEW ending \in Endings, Exit(r, ending), UNCHANGED <<wire, phase>>,
         ending # "unanswered" => \A i \in 1..MaxNames : i = at[r] => ~ OnTheWay(<<r, i>>)
  PROVE  Inv'
<1> USE DEF Inv, Exit
<1>1. Types' /\ Wire'
  BY DEF Types, Steps, Wire
<1>2. ASSUME NEW q \in Run PROVE Position(q)'
  BY DEF Types, Position, Untouched, Sent, Phase, OnTheWay
<1> QED
  BY <1>1, <1>2

(* It goes on to the next package, when the one before is deployed.        *)
LEMMA PackKeeps ==
  ASSUME Inv, NEW r \in Run, Pack(r, at[r] + 1), UNCHANGED <<wire, phase>>,
         \A i \in 1..MaxNames : i = at[r] => Phase(r, i) = "deployed"
  PROVE  Inv'
<1> USE DEF Inv, Pack
<1>1. Types' /\ Wire'
  BY DEF Types, Steps, Wire
<1>2. ASSUME NEW q \in Run PROVE Position(q)'
  BY DEF Types, Position, Untouched, Sent, Phase, OnTheWay
<1> QED
  BY <1>1, <1>2

(* Its request goes on the wire.                                           *)
LEMMA SendKeeps ==
  ASSUME Inv, NEW r \in Run, Send(r)
  PROVE  Inv'
<1> USE DEF Inv
<1>1. /\ pc[r] = "packed" /\ pc' = [pc EXCEPT ![r] = "waiting"]
      /\ UNCHANGED <<at, why, phase>>
      /\ \/ wire' = wire
         \/ \E m : m.call = <<r, at[r]>> /\ wire' = wire \cup {m}
  BY DEF Send, Current, deployment
<1>2. Untouched(r, at[r]) /\ at[r] \in Nat
  BY <1>1 DEF Position, Types
<1>3. Types'
  BY <1>1 DEF Types, Steps
<1>4. Wire'
  BY <1>1, <1>2 DEF Wire, Untouched, Sent, Phase, Call
<1>5. ASSUME NEW q \in Run PROVE Position(q)'
  <2>1. \A i \in Nat : Sent(q, i)' => Sent(q, i) \/ (q = r /\ i = at[r])
    BY <1>1 DEF Sent
  <2>2. \A i \in Nat : Untouched(q, i) /\ ~ (q = r /\ i = at[r]) => Untouched(q, i)'
    BY <1>1, <2>1 DEF Untouched, Phase
  <2>3. CASE q = r
    BY <1>1, <1>2, <2>2, <2>3 DEF Types, Position, Phase
  <2>4. CASE q # r
    <3>1. \A i \in 1..MaxNames : ~ OnTheWay(<<q, i>>) => ~ OnTheWay(<<q, i>>)'
      BY <1>1, <2>1, <2>4 DEF OnTheWay, Sent
    <3> QED
      BY <1>1, <2>2, <2>4, <3>1 DEF Types, Position, Phase
  <2> QED
    BY <2>3, <2>4
<1> QED
  BY <1>3, <1>4, <1>5

(* What is answered is not on the way.                                     *)
LEMMA AnsweredIsOff ==
  ASSUME Inv, NEW r \in Run, NEW i \in 1..MaxNames,
         Phase(r, i) \in {"deployed", "failed", "refused"}
  PROVE  ~ OnTheWay(<<r, i>>)
<1>1. <<r, i>> \in Call
  BY DEF Call
<1> QED
  BY <1>1 DEF Inv, Wire, OnTheWay, Phase

(* A reply, or none.                                                       *)
LEMMA AfterKeeps ==
  ASSUME Inv, NEW r \in Run, NEW outcome \in {"deployed", "failed", "refused", "unanswered"},
         After(r, outcome), outcome # "unanswered" => outcome = phase[Current(r)],
         UNCHANGED <<wire, phase>>
  PROVE  Inv'
<1>1. outcome # "unanswered" =>
        \A i \in 1..MaxNames : i = at[r] => Phase(r, i) = outcome /\ ~ OnTheWay(<<r, i>>)
  BY AnsweredIsOff DEF Current, Phase
<1>2. CASE Continues(outcome) /\ Pack(r, at[r] + 1)
  BY <1>1, <1>2, PackKeeps DEF Continues
<1>3. CASE Continues(outcome) /\ Exit(r, "success")
  BY <1>1, <1>3, ExitKeeps DEF Continues, Endings
<1>4. CASE ~ Continues(outcome) /\ Exit(r, outcome)
  BY <1>1, <1>4, ExitKeeps DEF Continues, Endings
<1> QED
  BY <1>2, <1>3, <1>4 DEF After

(* A client that fails before it sends has nothing on the way.             *)
LEMMA GiveUpKeeps ==
  ASSUME Inv, NEW r \in Run, pc[r] \notin {"waiting", "exited"}, Exit(r, "local"),
         UNCHANGED <<wire, phase>>
  PROVE  Inv'
<1>1. \A i \in 1..MaxNames : i = at[r] => ~ OnTheWay(<<r, i>>)
  BY DEF Inv, Position, Untouched, Sent, Phase, OnTheWay
<1> QED
  BY <1>1, ExitKeeps DEF Endings

(* One case per step of a client, its lost replies included.               *)
LEMMA ClientKeeps ==
  ASSUME Inv, NEW r \in Run, ClientStep(r) \/ Begin(r) \/ BeginFails(r) \/ ReplyLost(r)
  PROVE  Inv'
<1> USE DEF limits, requests, deployment
<1>1. CASE Begin(r)
  BY <1>1, BusyKeeps DEF Begin
<1>2. CASE BeginFails(r) \/ ConnectFails(r) \/ AddFails(r) \/ CannotSend(r)
  BY <1>2, GiveUpKeeps DEF BeginFails, ConnectFails, AddFails, CannotSend
<1>3. CASE Connect(r)
  <2>1. at[r] = 0
    BY <1>3 DEF Connect, Inv, Position
  <2> QED
    BY <1>3, <2>1, PackKeeps DEF Connect
<1>4. CASE Look(r)
  <2>1. CASE Head(todo[r]) \in missing
    BY <1>4, <2>1, GiveUpKeeps DEF Look
  <2>2. CASE Head(todo[r]) \notin missing
    BY <1>4, <2>2, BusyKeeps DEF Look
  <2> QED
    BY <2>1, <2>2
<1>5. CASE Add(r)
  BY <1>5, BusyKeeps DEF Add
<1>6. CASE Finish(r)
  BY <1>6, BusyKeeps DEF Finish
<1>7. CASE Send(r)
  BY <1>7, SendKeeps
<1>8. CASE Reply(r)
  BY <1>8, AfterKeeps DEF Reply
<1>9. CASE Deadline(r) \/ ReplyLost(r)
  BY <1>9, AfterKeeps DEF Deadline, ReplyLost
<1> QED
  BY <1>1, <1>2, <1>3, <1>4, <1>5, <1>6, <1>7, <1>8, <1>9 DEF ClientStep

-----------------------------------------------------------------------------
(* One case per actor.                                                     *)
LEMMA InvStep == Inv /\ [Next]_vars => Inv'
<1> SUFFICES ASSUME Inv, [Next]_vars PROVE Inv'
  OBVIOUS
<1>1. ASSUME NEW r \in Run, ClientStep(r) \/ Begin(r) \/ BeginFails(r) \/ ReplyLost(r)
      PROVE  Inv'
  BY <1>1, ClientKeeps
<1>2. ASSUME NEW m \in wire, Receive(m) PROVE Inv'
  BY <1>2, ReceiveGoesOn, InvGoesOn
<1>3. ASSUME NEW c \in Call, Deploying(c) PROVE Inv'
  BY <1>3, DeployingGoesOn, InvGoesOn
<1>4. CASE Halt
  BY <1>4, HaltGoesOn, InvGoesOn
<1>5. CASE \/ \E s \in Source : Remove(s) \/ Restore(s)
           \/ \E m \in wire : Lose(m)
           \/ Restart \/ Reload \/ UNCHANGED vars
  <2>1. UNCHANGED <<pc, at, why, phase>> /\ wire' \subseteq wire
    BY <1>5 DEF Remove, Restore, Lose, Restart, Reload, vars, client, requests, deployment
  <2>2. CallsGoOn
    BY <2>1 DEF CallsGoOn, Inv, Types
  <2> QED
    BY <2>2, InvGoesOn
<1> QED
  BY <1>1, <1>2, <1>3, <1>4, <1>5, ClientAssumption DEF Next, Environment, ServerStep

(* It holds in every reachable state.                                      *)
THEOREM Invariant == Spec => []Inv
  BY InvInit, InvStep, PTL DEF Spec

(* Whatever is interrupted, lost or late, the packages of a run reach the  *)
(* server in order, each after the one before is deployed.                 *)
THEOREM InOrder == Spec => []PrefixDeployed
<1>1. ASSUME Inv PROVE PrefixDeployed
  <2> SUFFICES ASSUME NEW r \in Run, NEW i \in 1..MaxNames, NEW j \in 1..MaxNames,
                      i < j, phase[<<r, j>>] # "new" \/ OnTheWay(<<r, j>>)
               PROVE  phase[<<r, i>>] = "deployed"
    BY DEF PrefixDeployed
  <2>1. ~ Untouched(r, j)
    BY DEF Untouched, Sent, Phase, OnTheWay
  <2>2. at[r] \in Nat /\ ~ (j > at[r])
    BY <1>1, <2>1 DEF Inv, Types, Position
  <2> QED
    BY <1>1, <2>2 DEF Inv, Position, Phase
<1> QED
  BY <1>1, Invariant, PTL

(* A run that ended in any way but without an answer leaves no request and *)
(* no deployment behind that is still under way.                           *)
THEOREM NothingLeft == Spec => []EndedIsOver
<1>1. ASSUME Inv PROVE EndedIsOver
  <2> SUFFICES ASSUME NEW r \in Run, NEW i \in 1..MaxNames,
                      pc[r] = "exited", why[r] # "unanswered"
               PROVE  ~ OnTheWay(<<r, i>>)
    BY DEF EndedIsOver
  <2>1. CASE i < at[r]
    <3>1. Phase(r, i) = "deployed"
      BY <1>1, <2>1 DEF Inv, Position
    <3> QED
      BY <1>1, <3>1, AnsweredIsOff
  <2>2. CASE i = at[r]
    BY <1>1, <2>2 DEF Inv, Position
  <2>3. CASE i > at[r]
    <3>1. Untouched(r, i)
      BY <1>1, <2>3 DEF Inv, Types, Position
    <3> QED
      BY <3>1 DEF Untouched, Sent, Phase, OnTheWay
  <2> QED
    BY <1>1, <2>1, <2>2, <2>3 DEF Inv, Types
<1> QED
  BY <1>1, Invariant, PTL

-----------------------------------------------------------------------------
(* Sizes and limits are numbers.                                           *)
Numbers ==
  /\ size \in [Run -> Nat] /\ remote \in [Run -> RemoteConfig] /\ rejected \in [Run -> Checks]
  /\ max_file_size \in ServerLimit /\ started_with \in ServerLimit
  /\ \A m \in wire : m.size \in Nat

(* At first.                                                               *)
LEMMA NumbersInit == Init => Numbers
  BY DEF Init, Numbers, NoRemote, RemoteConfig, Checks

(* And after every step.                                                   *)
LEMMA NumbersStep == Inv /\ Numbers /\ [Next]_vars => Numbers'
<1> SUFFICES ASSUME Inv, Numbers, [Next]_vars PROVE Numbers'
  OBVIOUS
<1> USE DEF Numbers, limits, requests
<1>1. ASSUME NEW r \in Run, Begin(r) PROVE Numbers'
  <2>1. PICK h \in Host, c \in ClientConfig[r] :
          Remotes(c, h) # {} /\ remote' = [remote EXCEPT ![r] = RemoteOf(c, h)]
    BY <1>1 DEF Begin
  <2>2. RemoteOf(c, h) \in RemoteConfig
    BY <2>1, ClientAssumption DEF Remotes, RemoteOf
  <2> QED
    BY <1>1, <2>1, <2>2 DEF Begin
<1>2. ASSUME NEW r \in Run,
             BeginFails(r) \/ ConnectFails(r) \/ Connect(r) \/ Look(r) \/ Add(r) \/ AddFails(r)
      PROVE  Numbers'
  BY <1>2 DEF BeginFails, ConnectFails, Connect, Look, Add, AddFails, Exit, Pack
<1>3. ASSUME NEW r \in Run, Finish(r) PROVE Numbers'
  BY <1>3, ClientAssumption DEF Finish
<1>4. ASSUME NEW r \in Run, CannotSend(r) PROVE Numbers'
  BY <1>4 DEF CannotSend, Exit, Checks
<1>5. ASSUME NEW r \in Run, Send(r) PROVE Numbers'
  BY <1>5 DEF Send
<1>6. ASSUME NEW r \in Run, Reply(r) \/ Deadline(r) \/ ReplyLost(r) PROVE Numbers'
  BY <1>6 DEF Reply, Deadline, ReplyLost, After, Exit, Pack
<1>7. ASSUME NEW m \in wire, Receive(m) PROVE Numbers'
  BY <1>7 DEF Receive, Reject, Checks, client
<1>8. CASE Halt \/ Restart \/ Reload
  BY <1>8 DEF Halt, Restart, Reload, client
<1>9. CASE \/ \E s \in Source : Remove(s) \/ Restore(s)
           \/ \E m \in wire : Lose(m)
           \/ \E c \in Call : Deploying(c)
           \/ UNCHANGED vars
  BY <1>9 DEF Remove, Restore, Lose, Deploying, vars, client
<1> QED
  BY <1>1, <1>2, <1>3, <1>4, <1>5, <1>6, <1>7, <1>8, <1>9, ClientAssumption
  DEF Next, Environment, ServerStep, ClientStep

(* Two steps record a rejection.                                           *)
LEMMA WhoRejects ==
  ASSUME Next, rejected' # rejected
  PROVE  (\E r \in Run : CannotSend(r)) \/ (\E m \in wire : Receive(m))
<1> USE DEF requests
<1>1. ASSUME NEW r \in Run, Begin(r) \/ BeginFails(r) \/ ReplyLost(r) PROVE FALSE
  BY <1>1 DEF Begin, BeginFails, ReplyLost
<1>2. ASSUME NEW r \in Run, ClientStep(r), ~ CannotSend(r) PROVE FALSE
  BY <1>2 DEF ClientStep, Connect, ConnectFails, Look, Add, AddFails, Finish, Send, Reply, Deadline
<1>3. ASSUME NEW s \in Source, Remove(s) \/ Restore(s) PROVE FALSE
  BY <1>3 DEF Remove, Restore
<1>4. ASSUME NEW m \in wire, Lose(m) PROVE FALSE
  BY <1>4 DEF Lose
<1>5. ASSUME NEW c \in Call, Deploying(c) PROVE FALSE
  BY <1>5 DEF Deploying
<1>6. ~ (Halt \/ Restart \/ Reload)
  BY DEF Halt, Restart, Reload
<1> QED
  BY <1>1, <1>2, <1>3, <1>4, <1>5, <1>6, ClientAssumption DEF Next, Environment, ServerStep

(* Whatever the limits of client and server are, at its start and after    *)
(* any number of reloads: an archive that fits them all with the message   *)
(* around it is not turned down for its size.                              *)
THEOREM FittingPasses == Spec => FittingIsNotTooLarge
<1> DEFINE ClientTurnsDown(r) ==
             rejected[r] = "none" /\ rejected'[r] \in {"client", "encoder"}
           ServerTurnsDown(m) ==
             rejected[m.call[1]] = "none" /\ rejected'[m.call[1]] \in {"decoder", "archive"}
<1>1. ASSUME Inv, Numbers, Next, NEW r \in Run, ClientTurnsDown(r)
      PROVE  CannotSend(r)
  <2>1. rejected' # rejected /\ rejected'[r] \notin {"decoder", "archive", "other"}
    BY <1>1
  <2>2. (\E q \in Run : CannotSend(q)) \/ (\E m \in wire : Receive(m))
    BY <1>1, <2>1, WhoRejects
  <2>3. ASSUME NEW m \in wire, Receive(m) PROVE FALSE
    <3>1. UNCHANGED rejected \/ \E check \in {"decoder", "archive", "other"} :
            rejected' = [rejected EXCEPT ![m.call[1]] = check]
      BY <2>3 DEF Receive, Reject
    <3> QED
      BY <1>1, <3>1 DEF Numbers
  <2>4. ASSUME NEW q \in Run, CannotSend(q), q # r PROVE FALSE
    BY <1>1, <2>4 DEF CannotSend, Numbers
  <2> QED
    BY <2>2, <2>3, <2>4
<1>2. ASSUME Inv, Numbers, NEW r \in Run, CannotSend(r)
      PROVE  \/ size[r] + Overhead > UsizeMax
             \/ ~ Within(size[r], remote[r].max_file_size)
  BY <1>2, LimitsAssumption
  DEF CannotSend, ClientLimit, Within, Fits, clamp_message_limit, resolved_max_file_size,
      enforce_client_archive_size, Numbers, RemoteConfig
<1>3. ASSUME Inv, Numbers, Next, NEW m \in wire \ wire', ServerTurnsDown(m)
      PROVE  Receive(m)
  <2>1. rejected' # rejected /\ m.call[1] \in Run
    BY <1>3 DEF Inv, Wire
  <2>2. (\E q \in Run : CannotSend(q)) \/ (\E n \in wire : Receive(n))
    BY <1>3, <2>1, WhoRejects
  <2>3. ASSUME NEW q \in Run, CannotSend(q) PROVE FALSE
    BY <1>3, <2>3 DEF CannotSend
  <2> QED
    BY <1>3, <2>2, <2>3 DEF Receive
<1>4. ASSUME Inv, Numbers, NEW m \in wire, Receive(m), ServerTurnsDown(m)
      PROVE  \/ m.size + Overhead > UsizeMax
             \/ ~ Within(m.size, started_with)
             \/ ~ Within(m.size, max_file_size)
  <2>1. m.call[1] \in Run /\ m.size \in Nat /\ max_file_size \in Nat /\ started_with \in Nat
    BY <1>4, ClientAssumption DEF Inv, Wire, Numbers
  <2>2. ~ Fits(m.size, message_limit) \/ TooLarge(m.size, max_file_size)
    BY <1>4, <2>1 DEF Receive, Reject, Numbers
  <2> QED
    BY <2>1, <2>2, LimitsAssumption
    DEF Fits, TooLarge, Within, message_limit, resolve_message_limit, clamp_message_limit,
        resolved_max_file_size
<1>5. Inv /\ Numbers /\ [Next]_vars =>
        [/\ \A r \in Run : ClientTurnsDown(r) =>
              \/ size[r] + Overhead > UsizeMax
              \/ ~ Within(size[r], remote[r].max_file_size)
         /\ \A m \in wire \ wire' : ServerTurnsDown(m) =>
              \/ m.size + Overhead > UsizeMax
              \/ ~ Within(m.size, started_with)
              \/ ~ Within(m.size, max_file_size)]_vars
  BY <1>1, <1>2, <1>3, <1>4
<1>6. Spec => []Numbers
  BY NumbersInit, NumbersStep, Invariant, PTL DEF Spec
<1> QED
  BY <1>5, <1>6, Invariant, PTL DEF Spec, FittingIsNotTooLarge

-----------------------------------------------------------------------------
(* What a run that ends with success has put on the server.                *)

Promised == INSTANCE DeployContractProofs

Running(r) == pc[r] \in {"looking", "adding", "packed", "waiting"}
Chosen(r)  == Sources(r, at[r])

(* Nothing is left out but what a build has removed during the run.        *)
Covers(r, i, files) ==
  \A k \in 1..Len(Sources(r, i)) :
    Sources(r, i)[k] \notin removed[r] => Entries[Sources(r, i)[k]] \subseteq files

(* The sequence s ends with t.                                             *)
EndsWith(s, t) ==
  Len(t) <= Len(s) /\ \A j \in 1..Len(t) : t[j] = s[Len(s) - Len(t) + j]

(* The sources still to pack are the last ones; those before are packed.   *)
Rest(r) ==
  /\ todo[r] \in Seq(Source) /\ EndsWith(Chosen(r), todo[r])
  /\ \A k \in 1..(Len(Chosen(r)) - Len(todo[r])) :
       Chosen(r)[k] \notin removed[r] => Entries[Chosen(r)[k]] \subseteq packed[r]

Packing(r) ==
  /\ pc[r] \notin {"idle", "exited"} => config[r] \in ClientConfig[r] /\ missing \subseteq removed[r]
  /\ Running(r) => at[r] \in 1..Len(Selected(r)) /\ Rest(r)
  /\ pc[r] = "adding" => todo[r] # <<>>
  /\ pc[r] \in {"packed", "waiting"} => todo[r] = <<>>
  /\ at[r] <= MaxNames
  /\ why[r] = "success" => /\ pc[r] = "exited" /\ at[r] = Len(Selected(r))
                           /\ at[r] # 0 /\ Phase(r, at[r]) = "deployed"

(* What was sent for a package holds all that was to be packed for it, on  *)
(* the wire and as the archive of its call.                                *)
Carried(r) ==
  \A i \in 1..at[r] :
    /\ \A m \in wire : m.call = <<r, i>> => Covers(r, i, m.entries)
    /\ phase[<<r, i>>] \notin {"new", "refused"} => Covers(r, i, archive[<<r, i>>])

Shapes ==
  /\ DOMAIN config = Run /\ DOMAIN todo = Run /\ DOMAIN packed = Run /\ DOMAIN removed = Run
  /\ \A m \in wire : m.call \in Call

Stock == Shapes /\ \A r \in Run : Packing(r) /\ Carried(r)

(* Where the rest of a sequence starts.                                    *)
LEMMA Shift ==
  ASSUME NEW n \in Nat, NEW l \in Nat \ {0}, l <= n
  PROVE  /\ \A j \in 1..(l - 1) : j + 1 \in 1..l /\ n - l + (j + 1) = n - (l - 1) + j
         /\ \A k \in 1..(n - (l - 1)) : k \in 1..(n - l) \/ k = n - l + 1
         /\ 1 \in 1..l /\ l - 1 \in Nat /\ l - 1 <= n
  OBVIOUS

(* A suffix without its head is a suffix, one shorter.                     *)
LEMMA TailOfSuffix ==
  ASSUME NEW S, NEW s \in Seq(S), NEW t \in Seq(S), t # <<>>, EndsWith(s, t)
  PROVE  /\ Tail(t) \in Seq(S) /\ EndsWith(s, Tail(t))
         /\ \A k \in 1..(Len(s) - Len(Tail(t))) :
              k \in 1..(Len(s) - Len(t)) \/ s[k] = Head(t)
<1>1. Len(s) \in Nat /\ Len(t) \in Nat \ {0}
  OBVIOUS
<1>2. /\ Tail(t) \in Seq(S) /\ Len(Tail(t)) = Len(t) - 1 /\ Head(t) = t[1]
      /\ \A j \in 1..(Len(t) - 1) : Tail(t)[j] = t[j + 1]
  OBVIOUS
<1> DEFINE n == Len(s)
           l == Len(t)
<1>3. /\ \A j \in 1..(l - 1) : j + 1 \in 1..l /\ n - l + (j + 1) = n - (l - 1) + j
      /\ \A k \in 1..(n - (l - 1)) : k \in 1..(n - l) \/ k = n - l + 1
      /\ 1 \in 1..l /\ l - 1 \in Nat /\ l - 1 <= n
  BY <1>1, Shift DEF EndsWith
<1>4. \A j \in 1..l : t[j] = s[n - l + j]
  BY DEF EndsWith
<1>5. Len(Tail(t)) = l - 1
  BY <1>2
<1> HIDE DEF n, l
<1>6. \A j \in 1..(l - 1) : Tail(t)[j] = s[n - (l - 1) + j]
  <2> TAKE j \in 1..(l - 1)
  <2>1. j + 1 \in 1..l /\ n - l + (j + 1) = n - (l - 1) + j
    BY <1>3
  <2>2. Tail(t)[j] = t[j + 1]
    BY <1>2 DEF l
  <2>3. t[j + 1] = s[n - l + (j + 1)]
    BY <1>4, <2>1
  <2> QED
    BY <2>1, <2>2, <2>3, Zenon
<1>7. \A k \in 1..(n - (l - 1)) : k \in 1..(n - l) \/ s[k] = Head(t)
  BY <1>2, <1>3, <1>4
<1> QED
  BY <1>2, <1>3, <1>5, <1>6, <1>7 DEF n, l, EndsWith

-----------------------------------------------------------------------------
(* Which packages a run selects.  What the recursion over the command line *)
(* computes takes an induction, in the form of a least counterexample.     *)

(* A set of natural numbers that is not empty has a least one.             *)
LEMMA LeastNat ==
  ASSUME NEW T, T \subseteq Nat, T # {}
  PROVE  \E m \in T : \A k \in T : m <= k
<1> DEFINE R == OpToRel(<, Nat)
<1>1. IsWellFoundedOn(R, Nat)
  BY NatLessThanWellFounded, Zenon
<1>2. R = {ss \in Nat \X Nat : ss[1] < ss[2]}
  BY Zenon DEF OpToRel
<1> HIDE DEF R
<1>3. PICK x \in T : \A y \in T : ~ (<<y, x>> \in R)
  BY <1>1, WFMin
<1>4. \A y \in T : ~ (y < x)
  BY <1>2, <1>3
<1> QED
  BY <1>3, <1>4

(* One turn of the selection of names in K from s.                         *)
Turn(K, s, f, i) ==
  IF i = 0 THEN <<>>
  ELSE IF s[i] \in K THEN Append(f[i - 1], s[i])
  ELSE f[i - 1]

(* The recursion has a solution: else it had none up to some least number. *)
LEMMA TurnsExist ==
  ASSUME NEW K, NEW s, NEW n \in Nat
  PROVE  \E f : f = [i \in 0..n |-> Turn(K, s, f, i)]
<1> DEFINE Ok(m) == \E f : f = [i \in 0..m |-> Turn(K, s, f, i)]
           T == {m \in Nat : ~ Ok(m)}
<1>1. Ok(0)
  <2> DEFINE f == [i \in {0} |-> <<>>]
  <2>1. f = [i \in 0..0 |-> Turn(K, s, f, i)]
    BY DEF Turn
  <2> QED
    BY <2>1
<1>2. ASSUME NEW m \in Nat, Ok(m) PROVE Ok(m + 1)
  <2>1. PICK f : f = [i \in 0..m |-> Turn(K, s, f, i)]
    BY <1>2
  <2> DEFINE g == [i \in 0..(m + 1) |-> IF i = m + 1 THEN Turn(K, s, f, m + 1) ELSE f[i]]
  <2>2. ASSUME NEW i \in 0..(m + 1) PROVE g[i] = Turn(K, s, g, i)
    <3>1. CASE i = m + 1
      <4>1. g[i - 1] = f[m]
        BY <3>1
      <4> QED
        BY <3>1, <4>1 DEF Turn
    <3>2. CASE i # m + 1
      <4>1. i \in 0..m
        BY <3>2
      <4>2. i # 0 => g[i - 1] = f[i - 1]
        BY <4>1
      <4>3. f[i] = Turn(K, s, f, i)
        BY <2>1, <4>1
      <4> QED
        BY <3>2, <4>1, <4>2, <4>3 DEF Turn
    <3> QED
      BY <3>1, <3>2
  <2>3. g = [i \in 0..(m + 1) |-> Turn(K, s, g, i)]
    BY <2>2
  <2> HIDE DEF g
  <2> QED
    BY <2>3
<1> HIDE DEF Ok
<1>3. ASSUME T # {} PROVE FALSE
  <2>1. PICK m \in T : \A k \in T : m <= k
    BY <1>3, LeastNat
  <2>2. m \in Nat /\ ~ Ok(m)
    OBVIOUS
  <2>3. m # 0 /\ m - 1 \in Nat
    BY <1>1, <2>2
  <2>4. m - 1 \notin T
    BY <2>1, <2>2, <2>3
  <2>5. Ok(m - 1)
    BY <2>3, <2>4
  <2>6. Ok((m - 1) + 1)
    BY <1>2, <2>3, <2>5
  <2> QED
    BY <2>2, <2>6
<1>4. Ok(n)
  BY <1>3
<1> QED
  BY <1>4 DEF Ok

(* Hence the selection is one.                                             *)
LEMMA SelectingTurns ==
  ASSUME NEW K, NEW s, Len(s) \in Nat
  PROVE  /\ DOMAIN Selecting(K, s) = 0..Len(s)
         /\ \A i \in 0..Len(s) : Selecting(K, s)[i] = Turn(K, s, Selecting(K, s), i)
<1> DEFINE sel == Selecting(K, s)
<1>1. \E f : f = [i \in 0..Len(s) |-> Turn(K, s, f, i)]
  BY TurnsExist
<1>2. sel = [i \in 0..Len(s) |-> Turn(K, s, sel, i)]
  BY <1>1 DEF Selecting, Turn
<1> HIDE DEF sel
<1>3. DOMAIN sel = 0..Len(s) /\ \A i \in 0..Len(s) : sel[i] = Turn(K, s, sel, i)
  BY <1>2
<1> QED
  BY <1>3 DEF sel

(* number tells where in t each of the first i places of s is.             *)
InOrderIn(K, s, i, t, number) ==
  /\ number \in [Places(K, s, i) -> 1..Len(t)]
  /\ \A j, k \in Places(K, s, i) : j < k => number[j] < number[k]
  /\ \A j \in Places(K, s, i) : t[number[j]] = s[j]
  /\ \A a \in 1..Len(t) : \E j \in Places(K, s, i) : number[j] = a

(* t is the selection from the first i places of s.                        *)
Part(K, s, i, t) ==
  /\ t \in Seq(K) /\ Len(t) <= i
  /\ \E number : InOrderIn(K, s, i, t, number)

(* A turn takes the place i as it should.                                  *)
LEMMA PartStep ==
  ASSUME NEW K, NEW s, NEW i \in Nat, i > 0, NEW t, Part(K, s, i - 1, t)
  PROVE  Part(K, s, i, IF s[i] \in K THEN Append(t, s[i]) ELSE t)
<1>1. t \in Seq(K) /\ Len(t) <= i - 1 /\ Len(t) \in Nat
  BY DEF Part
<1>2. PICK number : InOrderIn(K, s, i - 1, t, number)
  BY DEF Part
<1>3. CASE s[i] \notin K
  <2>1. Places(K, s, i) = Places(K, s, i - 1)
    BY <1>3 DEF Places
  <2>2. InOrderIn(K, s, i, t, number)
    BY <1>2, <2>1 DEF InOrderIn
  <2>3. Part(K, s, i, t)
    BY <1>1, <2>2 DEF Part
  <2> QED
    BY <1>3, <2>3
<1>4. CASE s[i] \in K
  <2> DEFINE u == Append(t, s[i])
             n == [j \in Places(K, s, i) |-> IF j = i THEN Len(t) + 1 ELSE number[j]]
  <2>1. u \in Seq(K) /\ Len(u) = Len(t) + 1 /\ u[Len(t) + 1] = s[i]
        /\ \A a \in 1..Len(t) : u[a] = t[a]
    BY <1>1, <1>4
  <2>2. Places(K, s, i) = Places(K, s, i - 1) \cup {i} /\ i \notin Places(K, s, i - 1)
        /\ \A j \in Places(K, s, i - 1) : j \in Nat /\ j < i
    BY <1>4 DEF Places
  <2> HIDE DEF u
  <2>3. number \in [Places(K, s, i - 1) -> 1..Len(t)]
    BY <1>2 DEF InOrderIn
  <2>3a. n[i] = Len(t) + 1 /\ \A j \in Places(K, s, i - 1) : n[j] = number[j] /\ number[j] \in 1..Len(t)
    BY <2>2, <2>3
  <2>4. n \in [Places(K, s, i) -> 1..Len(u)]
    BY <1>1, <2>1, <2>2, <2>3
  <2> HIDE DEF n
  <2>5. ASSUME NEW j \in Places(K, s, i), NEW k \in Places(K, s, i), j < k
        PROVE  n[j] < n[k]
    <3>1. j # i /\ j \in Places(K, s, i - 1)
      BY <2>2, <2>5
    <3>2. CASE k = i
      BY <1>1, <2>3a, <3>1, <3>2
    <3>3. CASE k # i
      BY <1>2, <2>2, <2>3a, <2>5, <3>1, <3>3 DEF InOrderIn
    <3> QED
      BY <3>2, <3>3
  <2>6. ASSUME NEW j \in Places(K, s, i) PROVE u[n[j]] = s[j]
    BY <1>2, <2>1, <2>2, <2>3a DEF InOrderIn
  <2>7. ASSUME NEW a \in 1..Len(u) PROVE \E j \in Places(K, s, i) : n[j] = a
    <3>1. CASE a = Len(t) + 1
      BY <2>2, <2>3a, <3>1
    <3>2. CASE a # Len(t) + 1
      <4>1. a \in 1..Len(t)
        BY <1>1, <2>1, <3>2
      <4> QED
        BY <1>2, <2>2, <2>3a, <4>1 DEF InOrderIn
    <3> QED
      BY <3>1, <3>2
  <2>8. InOrderIn(K, s, i, u, n)
    BY <2>4, <2>5, <2>6, <2>7 DEF InOrderIn
  <2>9. Part(K, s, i, u)
    BY <1>1, <2>1, <2>8 DEF Part
  <2> QED
    BY <1>4, <2>9 DEF u
<1> QED
  BY <1>3, <1>4

(* So does the selection every place: there is no least one that it does not. *)
LEMMA SelectingParts ==
  ASSUME NEW K, NEW s, Len(s) \in Nat
  PROVE  Part(K, s, Len(s), Selecting(K, s)[Len(s)])
<1> DEFINE sel == Selecting(K, s)
           T == {m \in 0..Len(s) : ~ Part(K, s, m, sel[m])}
<1> HIDE DEF sel
<1>1. \A i \in 0..Len(s) : sel[i] = Turn(K, s, sel, i)
  BY SelectingTurns DEF sel
<1>2. ASSUME T # {} PROVE FALSE
  <2>1. T \subseteq Nat
    OBVIOUS
  <2>2. PICK m \in T : \A k \in T : m <= k
    BY <1>2, <2>1, LeastNat
  <2>3. m \in 0..Len(s) /\ ~ Part(K, s, m, sel[m])
    OBVIOUS
  <2>4. m # 0
    <3>1. sel[0] = <<>>
      BY <1>1 DEF Turn
    <3>2. Places(K, s, 0) = {}
      BY DEF Places
    <3>3. InOrderIn(K, s, 0, <<>>, <<>>)
      BY <3>2 DEF InOrderIn
    <3>4. Part(K, s, 0, sel[0])
      BY <3>1, <3>3 DEF Part
    <3> QED
      BY <2>3, <3>4
  <2>5. m - 1 \in 0..Len(s) /\ m - 1 \notin T
    BY <2>2, <2>3, <2>4
  <2>6. Part(K, s, m - 1, sel[m - 1])
    BY <2>5
  <2>7. Part(K, s, m, IF s[m] \in K THEN Append(sel[m - 1], s[m]) ELSE sel[m - 1])
    BY <2>3, <2>4, <2>6, PartStep
  <2>8. sel[m] = IF s[m] \in K THEN Append(sel[m - 1], s[m]) ELSE sel[m - 1]
    BY <1>1, <2>3, <2>4 DEF Turn
  <2> QED
    BY <2>3, <2>7, <2>8
<1>3. Part(K, s, Len(s), sel[Len(s)])
  BY <1>2
<1> QED
  BY <1>3 DEF sel

(* The same of a run's command line.                                       *)
LEMMA KnownIsPart ==
  ASSUME NEW r \in Run, NEW c
  PROVE  /\ Len(Line[r]) \in 1..MaxNames
         /\ Part(DOMAIN c.packages, Line[r], Len(Line[r]), Known(c, Line[r]))
<1>1. PICK n \in 1..MaxNames : Line[r] \in [1..n -> Package]
  BY ClientAssumption
<1>2. Len(Line[r]) = n /\ n \in Nat
  BY <1>1, ClientAssumption
<1> QED
  BY <1>2, SelectingParts DEF Known

(* A selection is no longer than the command line, and of known packages.  *)
LEMMA Selection ==
  ASSUME NEW r \in Run, NEW c \in ClientConfig[r] \cup {NoConfig}
  PROVE  /\ Len(Known(c, Line[r])) \in Nat /\ Len(Known(c, Line[r])) <= MaxNames
         /\ Known(c, Line[r]) # <<>> => Len(Known(c, Line[r])) > 0
         /\ \A i \in 1..Len(Known(c, Line[r])) : c.packages[Known(c, Line[r])[i]] \in Seq(Source)
<1>1. /\ Len(Line[r]) \in 1..MaxNames
      /\ Known(c, Line[r]) \in Seq(DOMAIN c.packages)
      /\ Len(Known(c, Line[r])) <= Len(Line[r])
  BY KnownIsPart DEF Part
<1>2. MaxNames \in Nat /\ \A p \in DOMAIN c.packages : c.packages[p] \in Seq(Source)
  BY ClientAssumption DEF NoConfig
<1>3. Len(Known(c, Line[r])) \in Nat /\ Len(Known(c, Line[r])) <= MaxNames
  BY <1>1, <1>2
<1>4. Known(c, Line[r]) # <<>> => Len(Known(c, Line[r])) > 0
  BY <1>1
<1>5. \A i \in 1..Len(Known(c, Line[r])) : Known(c, Line[r])[i] \in DOMAIN c.packages
  BY <1>1
<1> QED
  BY <1>2, <1>3, <1>4, <1>5

-----------------------------------------------------------------------------
(* The server's part of every step is one of the contract.                 *)
LEMMA KeepsContract ==
  ASSUME Shapes, [Next]_vars
  PROVE  [Promised!Next]_(Promised!vars)
<1> USE DEF deployment, Promised!vars, Promised!Next, Promised!CallStep
<1>1. ASSUME NEW m \in wire, Receive(m) PROVE Promised!Next
  <2>1. m.call \in Call
    BY DEF Shapes
  <2>2. Server!Refuse(m.call) \/ Server!Accept(m.call)
    BY <1>1 DEF Receive, Reject
  <2> QED
    BY <2>1, <2>2 DEF Server!Refuse, Server!Accept, Promised!Refuse, Promised!Accept,
       Server!Become, Promised!Become
<1>2. ASSUME NEW c \in Call, Deploying(c) PROVE Promised!Next
  <2>1. CASE \E f \in File : Server!Open(c, f) \/ Server!Close(c, f)
    BY <2>1 DEF Server!Open, Server!Close, Promised!Open, Promised!Close,
       Server!Writing, Promised!Writing, Server!Torn, Promised!Torn, Server!Whole, Promised!Whole
  <2>2. CASE Server!Succeed(c) \/ Server!Fail(c) \/ Server!Abandon(c) \/ Server!Leave(c)
    BY <2>2 DEF Server!Succeed, Promised!Succeed, Server!Fail, Promised!Fail,
       Server!Abandon, Promised!Abandon, Server!Leave, Promised!Leave, Server!Become,
       Promised!Become, Server!Forget, Promised!Forget, Server!Complete, Promised!Complete
  <2> QED
    BY <1>2, <2>1, <2>2 DEF Deploying
<1>3. CASE Halt
  BY <1>3 DEF Halt, Server!Halt, Promised!Halt
<1>4. ASSUME NEW r \in Run, ClientStep(r) \/ Begin(r) \/ BeginFails(r) \/ ReplyLost(r)
      PROVE  UNCHANGED deployment
  BY <1>4 DEF ClientStep, Connect, ConnectFails, Look, Add, AddFails, Finish, CannotSend, Send,
     Reply, Deadline, Begin, BeginFails, ReplyLost
<1>5. CASE \/ \E s \in Source : Remove(s) \/ Restore(s)
           \/ \E m \in wire : Lose(m)
           \/ Restart \/ Reload \/ UNCHANGED vars
  BY <1>5 DEF Remove, Restore, Lose, Restart, Reload, vars
<1> QED
  BY <1>1, <1>2, <1>3, <1>4, <1>5, ClientAssumption DEF Next, Environment, ServerStep

(* What a covering archive has to hold only gets less during a run.        *)
LEMMA CoversStays ==
  ASSUME NEW r \in Run, NEW i, NEW files, Covers(r, i, files),
         config'[r] = config[r], removed[r] \subseteq removed'[r]
  PROVE  Covers(r, i, files)'
BY DEF Covers, Sources, Selected

(* The archive of a call is that of its request, and stays.                *)
Arrived ==
  \A c \in Call : phase'[c] \notin {"new", "refused"} =>
    \/ phase[c] \notin {"new", "refused"} /\ archive'[c] = archive[c]
    \/ \E m \in wire : m.call = c /\ archive'[c] = m.entries

(* Whatever is not a step of a client leaves the runs where they are.      *)
SideStep ==
  /\ UNCHANGED client /\ wire' \subseteq wire /\ DOMAIN removed' = Run
  /\ \A r \in Run : /\ removed[r] \subseteq removed'[r]
                    /\ pc[r] \notin {"idle", "exited"} /\ missing \subseteq removed[r]
                         => missing' \subseteq removed'[r]
  /\ \A c \in Call : phase[c] = "deployed" => phase'[c] = "deployed"
  /\ Arrived

(* A request that is received brings its archive.                          *)
LEMMA ReceiveArrives ==
  ASSUME Inv, Promised!Inv, Shapes, NEW m \in wire, Receive(m)
  PROVE  SideStep
<1>1. phase \in [Call -> Server!Phases] /\ archive \in [Call -> SUBSET File] /\ m.call \in Call
  BY DEF Inv, Types, Shapes, Promised!Inv, Promised!TypeOK
<1>2. UNCHANGED <<client, tree>> /\ wire' \subseteq wire
  BY DEF Receive
<1>3. \/ /\ phase[m.call] = "new" /\ phase' = [phase EXCEPT ![m.call] = "refused"]
         /\ archive' = archive
      \/ /\ phase[m.call] = "new" /\ phase' = [phase EXCEPT ![m.call] = "accepted"]
         /\ archive'[m.call] = m.entries
         /\ \E files : archive' = [archive EXCEPT ![m.call] = files]
  <2>1. \/ Server!Refuse(m.call)
        \/ Server!Accept(m.call) /\ archive'[m.call] = m.entries
    BY DEF Receive, Reject
  <2> QED
    BY <2>1 DEF Server!Refuse, Server!Accept, Server!Become
<1>4. Arrived
  BY <1>1, <1>3 DEF Arrived
<1>5. \A c \in Call : phase[c] = "deployed" => phase'[c] = "deployed"
  BY <1>1, <1>3
<1> QED
  BY <1>2, <1>4, <1>5 DEF SideStep, Shapes, tree

(* What the server does to a call later does not touch its archive.        *)
LEMMA DeployingArrives ==
  ASSUME Inv, Shapes, NEW c \in Call, Deploying(c)
  PROVE  SideStep
<1>1. phase \in [Call -> Server!Phases]
  BY DEF Inv, Types
<1>2. UNCHANGED <<client, tree, wire>>
  BY DEF Deploying, requests
<1>3. /\ archive' = archive
      /\ \/ UNCHANGED phase
         \/ \E to \in {"deployed", "failed", "abandoned", "gone"} :
              /\ phase[c] \in {"accepted", "abandoned"}
              /\ phase' = [phase EXCEPT ![c] = to]
  BY DEF Deploying, Server!Open, Server!Close, Server!Succeed, Server!Fail, Server!Abandon,
     Server!Leave, Server!Become
<1>4. Arrived /\ \A o \in Call : phase[o] = "deployed" => phase'[o] = "deployed"
  BY <1>1, <1>3 DEF Arrived
<1> QED
  BY <1>2, <1>4 DEF SideStep, Shapes, tree

(* Nor does a halt, a restart, a reload, a build or the network.           *)
LEMMA OthersArrive ==
  ASSUME Inv, Shapes,
         \/ Halt \/ Restart \/ Reload \/ UNCHANGED vars
         \/ \E s \in Source : Remove(s) \/ Restore(s)
         \/ \E m \in wire : Lose(m)
  PROVE  SideStep
<1>1. phase \in [Call -> Server!Phases]
  BY DEF Inv, Types
<1>2. CASE Halt
  <2>1. /\ UNCHANGED <<client, tree>> /\ wire' \subseteq wire /\ archive' = archive
        /\ phase' = [c \in Call |-> IF phase[c] \in {"accepted", "abandoned"} THEN "gone" ELSE phase[c]]
    BY <1>2 DEF Halt, Server!Halt
  <2> QED
    BY <1>1, <2>1 DEF SideStep, Arrived, Shapes, tree
<1>3. CASE Restart \/ Reload \/ UNCHANGED vars \/ \E m \in wire : Lose(m)
  <2>1. UNCHANGED <<client, tree, deployment>> /\ wire' \subseteq wire
    BY <1>3 DEF Restart, Reload, vars, Lose, requests
  <2> QED
    BY <2>1 DEF SideStep, Arrived, Shapes, tree, deployment
<1>4. ASSUME NEW s \in Source, Remove(s) \/ Restore(s) PROVE SideStep
  <2>1. UNCHANGED <<client, requests, deployment>>
    BY <1>4 DEF Remove, Restore, limits
  <2>2. CASE Remove(s)
    <3>1. /\ missing' = missing \cup {s}
          /\ removed' = [r \in Run |-> IF pc[r] \in {"idle", "exited"} THEN removed[r]
                                        ELSE removed[r] \cup {s}]
      BY <2>2 DEF Remove
    <3> QED
      BY <2>1, <3>1 DEF SideStep, Arrived, requests, deployment
  <2>3. CASE Restore(s)
    BY <2>1, <2>3 DEF Restore, SideStep, Arrived, Shapes, requests, deployment
  <2> QED
    BY <1>4, <2>2, <2>3
<1> QED
  BY <1>2, <1>3, <1>4

(* Such steps keep what was packed and sent.                               *)
LEMMA StockGoesOn ==
  ASSUME Inv, Stock, SideStep
  PROVE  Stock'
<1>0. UNCHANGED <<pc, config, at, todo, packed, why>> /\ wire' \subseteq wire
  BY DEF SideStep, client
<1>1. Shapes'
  BY <1>0 DEF Stock, Shapes, SideStep
<1>2. ASSUME NEW r \in Run PROVE Packing(r)'
  <2>1. Packing(r) /\ removed[r] \subseteq removed'[r] /\ at[r] \in Nat
    BY DEF Stock, SideStep, Inv, Types
  <2>2. Chosen(r)' = Chosen(r) /\ Selected(r)' = Selected(r)
    BY <1>0 DEF Chosen, Sources, Selected
  <2>3. Rest(r) => Rest(r)'
    BY <1>0, <2>1, <2>2 DEF Rest, EndsWith
  <2>4. ASSUME why[r] = "success" PROVE Phase(r, at[r])' = "deployed"
    <3>1. at[r] \in 1..MaxNames /\ Phase(r, at[r]) = "deployed"
      BY <2>1, <2>4 DEF Packing, Inv, Types
    <3> QED
      BY <1>0, <3>1 DEF Phase, Call, SideStep
  <2> QED
    BY <1>0, <2>1, <2>2, <2>3, <2>4 DEF Packing, Running, SideStep
<1>3. ASSUME NEW r \in Run, NEW i \in 1..at[r]
      PROVE  /\ \A m \in wire' : m.call = <<r, i>> => Covers(r, i, m.entries)'
             /\ phase'[<<r, i>>] \notin {"new", "refused"} => Covers(r, i, archive[<<r, i>>])'
  <2>1. Carried(r) /\ removed[r] \subseteq removed'[r] /\ config'[r] = config[r]
    BY <1>0 DEF Stock, SideStep
  <2>2. ASSUME NEW m \in wire', m.call = <<r, i>> PROVE Covers(r, i, m.entries)'
    <3>1. Covers(r, i, m.entries)
      BY <1>0, <2>1, <2>2 DEF Carried
    <3> QED
      BY <2>1, <3>1, CoversStays
  <2>3. ASSUME phase'[<<r, i>>] \notin {"new", "refused"}
        PROVE  Covers(r, i, archive[<<r, i>>])'
    <3>1. <<r, i>> \in Call
      <4>1. at[r] \in Nat /\ at[r] <= MaxNames /\ MaxNames \in Nat
        BY DEF Stock, Packing, Inv, Types
      <4> QED
        BY <4>1 DEF Call
    <3> DEFINE files == archive'[<<r, i>>]
    <3>2. Covers(r, i, files)
      BY <2>1, <2>3, <3>1 DEF Carried, SideStep, Arrived
    <3> HIDE DEF files
    <3>3. \A k \in 1..Len(Sources(r, i))' :
            Sources(r, i)'[k] \notin removed'[r] => Entries[Sources(r, i)'[k]] \subseteq files
      BY <2>1, <3>2 DEF Covers, Sources, Selected
    <3> QED
      BY <3>3 DEF Covers, files
  <2> QED
    BY <2>2, <2>3
<1> QED
  BY <1>0, <1>1, <1>2, <1>3 DEF Stock, Carried

(* What was sent for a package is as it was.                               *)
LEMMA CarriedOn ==
  ASSUME NEW r \in Run, NEW i \in 1..at[r], Carried(r),
         config'[r] = config[r], removed[r] \subseteq removed'[r],
         UNCHANGED <<phase, archive>>
  PROVE  /\ \A m \in wire : m.call = <<r, i>> => Covers(r, i, m.entries)'
         /\ phase'[<<r, i>>] \notin {"new", "refused"} => Covers(r, i, archive[<<r, i>>])'
<1>1. ASSUME NEW m \in wire, m.call = <<r, i>> PROVE Covers(r, i, m.entries)'
  <2>1. Covers(r, i, m.entries)
    BY <1>1 DEF Carried
  <2> QED
    BY <2>1, CoversStays
<1>2. ASSUME phase'[<<r, i>>] \notin {"new", "refused"} PROVE Covers(r, i, archive[<<r, i>>])'
  <2>1. Covers(r, i, archive[<<r, i>>])
    BY <1>2 DEF Carried
  <2> QED
    BY <2>1 DEF Covers, Sources, Selected
<1> QED
  BY <1>1, <1>2

(* A step of one run is nothing to another.                                *)
LEMMA OtherRuns ==
  ASSUME Inv, Stock, NEW r \in Run, NEW q \in Run \ {r},
         <<pc[q], config[q], at[q], todo[q], packed[q], why[q], removed[q]>>'
           = <<pc[q], config[q], at[q], todo[q], packed[q], why[q], removed[q]>>,
         UNCHANGED <<missing, phase, archive>>,
         \A m \in wire' : m \in wire \/ m.call = <<r, at[r]>>
  PROVE  Packing(q)' /\ Carried(q)'
<1>1. Packing(q) /\ Carried(q)
  BY DEF Stock
<1>2. Packing(q)'
  BY <1>1 DEF Packing, Running, Rest, EndsWith, Chosen, Sources, Selected, Phase
<1>3. Carried(q)'
  <2>1. ASSUME NEW m \in wire', NEW i, m.call = <<q, i>> PROVE m \in wire
    BY <2>1
  <2> QED
    BY <1>1, <2>1, CarriedOn DEF Carried
<1> QED
  BY <1>2, <1>3

(* A run that stays at its package, or goes on to the next, has sent what  *)
(* it had sent before.                                                     *)
LEMMA OwnCarried ==
  ASSUME Inv, Stock, NEW r \in Run,
         config'[r] = config[r], removed'[r] = removed[r], at'[r] \in {at[r], at[r] + 1}, at'[r] <= MaxNames,
         UNCHANGED <<wire, phase, archive>>
  PROVE  Carried(r)'
<1>1. Carried(r) /\ at[r] \in Nat
  BY DEF Stock, Inv, Types
<1>2. Untouched(r, at[r] + 1)
  BY <1>1 DEF Inv, Position
<1>3. \A i \in 1..at'[r] : i \in 1..at[r] \/ i = at[r] + 1
  BY <1>1
<1> QED
  <2>1. ASSUME NEW i \in 1..at[r]
        PROVE  /\ \A m \in wire' : m.call = <<r, i>> => Covers(r, i, m.entries)'
               /\ phase'[<<r, i>>] \notin {"new", "refused"} => Covers(r, i, archive[<<r, i>>])'
    BY <1>1, CarriedOn
  <2>2. ASSUME NEW i, i = at[r] + 1, i \in 1..at'[r]
        PROVE  /\ \A m \in wire' : m.call # <<r, i>>
               /\ i <= MaxNames => phase'[<<r, i>>] = "new"
    BY <1>1, <1>2, <2>2 DEF Untouched, Sent, Phase, Inv, Types
  <2> QED
    BY <1>3, <2>1, <2>2 DEF Carried

(* The steps of a client before it sends, one after the other.             *)
LEMMA StepKeeps ==
  ASSUME Inv, Stock, NEW r \in Run,
         \A q \in Run \ {r} :
           <<pc[q], config[q], at[q], todo[q], packed[q], why[q], removed[q]>>'
             = <<pc[q], config[q], at[q], todo[q], packed[q], why[q], removed[q]>>,
         DOMAIN config' = Run, DOMAIN todo' = Run, DOMAIN packed' = Run, DOMAIN removed' = Run,
         UNCHANGED <<missing, phase, archive>>,
         \A m \in wire' : m \in wire \/ m.call = <<r, at[r]>>,
         \A m \in wire' : m.call \in Call,
         Packing(r)', Carried(r)'
  PROVE  Stock'
<1>1. Shapes'
  BY DEF Shapes
<1>2. ASSUME NEW q \in Run \ {r} PROVE Packing(q)' /\ Carried(q)'
  BY OtherRuns
<1> QED
  BY <1>1, <1>2 DEF Stock

(* It ends: nothing more is packed, and success is the answer to the last. *)
LEMMA ExitStocks ==
  ASSUME Inv, Stock, NEW r \in Run, NEW ending, Exit(r, ending),
         UNCHANGED <<missing, removed, wire, phase, archive>>,
         ending = "success" => /\ pc[r] = "waiting" /\ ~ More(r)
                               /\ phase[Current(r)] = "deployed"
  PROVE  Stock'
<1>1. /\ DOMAIN pc = Run /\ DOMAIN at = Run /\ DOMAIN why = Run
      /\ Packing(r) /\ Shapes /\ at[r] \in Nat
  BY DEF Inv, Types, Stock, Shapes
<1>2. /\ pc' = [pc EXCEPT ![r] = "exited"] /\ why' = [why EXCEPT ![r] = ending]
      /\ todo' = [todo EXCEPT ![r] = <<>>] /\ packed' = [packed EXCEPT ![r] = {}]
      /\ UNCHANGED <<config, at>>
  BY DEF Exit
<1>3. Packing(r)'
  <2>1. ASSUME ending = "success"
        PROVE  at[r] = Len(Selected(r)) /\ at[r] # 0 /\ Phase(r, at[r]) = "deployed"
    <3>1. at[r] \in 1..Len(Selected(r)) /\ config[r] \in ClientConfig[r]
      BY <1>1, <2>1 DEF Packing, Running
    <3>2. Len(Selected(r)) \in Nat
      BY <3>1, Selection DEF Selected
    <3> QED
      BY <1>1, <2>1, <3>1, <3>2 DEF More, Current, Phase
  <2>2. Selected(r)' = Selected(r)
    BY <1>2 DEF Selected
  <2> QED
    BY <1>1, <1>2, <2>1, <2>2 DEF Packing, Running, Phase, Shapes
<1>4. Carried(r)'
  BY <1>1, <1>2, OwnCarried DEF Packing
<1>5. \A q \in Run \ {r} :
        <<pc[q], config[q], at[q], todo[q], packed[q], why[q], removed[q]>>'
          = <<pc[q], config[q], at[q], todo[q], packed[q], why[q], removed[q]>>
  BY <1>1, <1>2 DEF Shapes
<1>6. /\ DOMAIN config' = Run /\ DOMAIN todo' = Run /\ DOMAIN packed' = Run /\ DOMAIN removed' = Run
      /\ \A m \in wire' : m.call \in Call
  BY <1>1, <1>2 DEF Shapes
<1> QED
  BY <1>3, <1>4, <1>5, <1>6, StepKeeps

(* It starts on its next package, with all of its sources to pack.         *)
LEMMA PackStocks ==
  ASSUME Inv, Stock, NEW r \in Run, Pack(r, at[r] + 1),
         UNCHANGED <<missing, removed, wire, phase, archive>>,
         pc[r] \in {"connecting", "waiting"}, at[r] < Len(Selected(r))
  PROVE  Stock'
<1>1. /\ DOMAIN pc = Run /\ DOMAIN at = Run /\ DOMAIN why = Run
      /\ Packing(r) /\ Shapes /\ at[r] \in Nat
  BY DEF Inv, Types, Stock, Shapes
<1>2. /\ pc' = [pc EXCEPT ![r] = "looking"] /\ at' = [at EXCEPT ![r] = at[r] + 1]
      /\ todo' = [todo EXCEPT ![r] = Sources(r, at[r] + 1)] /\ packed' = [packed EXCEPT ![r] = {}]
      /\ UNCHANGED <<config, why>>
  BY DEF Pack
<1>3. /\ pc'[r] = "looking" /\ at'[r] = at[r] + 1 /\ why'[r] = why[r] /\ config'[r] = config[r]
      /\ todo'[r] = Sources(r, at[r] + 1)
  BY <1>1, <1>2 DEF Shapes
<1>4. config[r] \in ClientConfig[r] /\ Len(Selected(r)) \in Nat /\ Len(Selected(r)) <= MaxNames
      /\ \A i \in 1..Len(Selected(r)) : Sources(r, i) \in Seq(Source)
  <2>1. config[r] \in ClientConfig[r]
    BY <1>1 DEF Packing
  <2> QED
    BY <2>1, Selection DEF Selected, Sources
<1>5. Selected(r)' = Selected(r) /\ Chosen(r)' = Sources(r, at[r] + 1)
  BY <1>3 DEF Selected, Chosen, Sources
<1>6. Packing(r)'
  <2>1. at[r] + 1 \in 1..Len(Selected(r)) /\ at[r] + 1 <= MaxNames
    BY <1>1, <1>4, ClientAssumption
  <2>2. Sources(r, at[r] + 1) \in Seq(Source)
    BY <1>4, <2>1
  <2>3. Rest(r)'
    <3> DEFINE s == Sources(r, at[r] + 1)
    <3>1. s \in Seq(Source) /\ Len(s) \in Nat
      BY <2>2
    <3>2. todo'[r] = s /\ Chosen(r)' = s
      BY <1>3, <1>5
    <3> HIDE DEF s
    <3>3. /\ Len(s) <= Len(s)
          /\ \A j \in 1..Len(s) : j = Len(s) - Len(s) + j
          /\ 1..(Len(s) - Len(s)) = {}
      BY <3>1
    <3>4. EndsWith(s, s)
      BY <3>3, Zenon DEF EndsWith
    <3> QED
      BY <3>1, <3>2, <3>3, <3>4 DEF Rest, EndsWith
  <2>4. pc[r] \notin {"idle", "exited"} /\ missing \subseteq removed[r]
    BY <1>1 DEF Packing
  <2>5. /\ pc'[r] \notin {"exited", "idle", "adding", "packed", "waiting"}
        /\ why'[r] # "success"
    BY <1>1, <1>3, <2>4 DEF Packing
  <2>6. at'[r] \in 1..Len(Selected(r))' /\ at'[r] <= MaxNames
    BY <1>3, <1>5, <2>1
  <2>7. config'[r] \in ClientConfig[r] /\ missing' \subseteq removed'[r]
    BY <1>3, <1>4, <2>4
  <2> QED
    BY <2>3, <2>5, <2>6, <2>7 DEF Packing
<1>7. Carried(r)'
  <2>1. at'[r] = at[r] + 1 /\ at'[r] <= MaxNames
    BY <1>1, <1>3, <1>4, ClientAssumption
  <2> QED
    BY <1>3, <2>1, OwnCarried
<1>8. \A q \in Run \ {r} :
        <<pc[q], config[q], at[q], todo[q], packed[q], why[q], removed[q]>>'
          = <<pc[q], config[q], at[q], todo[q], packed[q], why[q], removed[q]>>
  BY <1>1, <1>2 DEF Shapes
<1>9. /\ DOMAIN config' = Run /\ DOMAIN todo' = Run /\ DOMAIN packed' = Run /\ DOMAIN removed' = Run
      /\ \A m \in wire' : m.call \in Call
  BY <1>1, <1>2 DEF Shapes
<1> QED
  BY <1>6, <1>7, <1>8, <1>9, StepKeeps

(* It packs one source: the first that is left.                            *)
LEMMA AddStocks ==
  ASSUME Inv, Stock, NEW r \in Run, Add(r)
  PROVE  Stock'
<1>1. /\ DOMAIN pc = Run /\ Packing(r) /\ Shapes /\ at[r] \in Nat /\ Rest(r)
      /\ todo[r] # <<>> /\ config[r] \in ClientConfig[r] /\ missing \subseteq removed[r]
  BY DEF Inv, Types, Stock, Shapes, Packing, Running, Add
<1>2. /\ pc[r] = "adding" /\ pc' = [pc EXCEPT ![r] = "looking"]
      /\ todo' = [todo EXCEPT ![r] = Tail(todo[r])]
      /\ packed' = IF Head(todo[r]) \in missing THEN packed
                   ELSE [packed EXCEPT ![r] = packed[r] \cup Entries[Head(todo[r])]]
      /\ UNCHANGED <<config, at, why, missing, removed, wire, phase, archive>>
  BY DEF Add, EntriesOf, tree, requests, deployment
<1>3. /\ pc'[r] = "looking" /\ todo'[r] = Tail(todo[r])
      /\ packed[r] \subseteq packed'[r]
      /\ Head(todo[r]) \notin missing => Entries[Head(todo[r])] \subseteq packed'[r]
  BY <1>1, <1>2 DEF Shapes
<1>4. Selected(r)' = Selected(r) /\ Chosen(r)' = Chosen(r)
  BY <1>2 DEF Selected, Chosen, Sources
<1>5. Rest(r)'
  <2> DEFINE n == Chosen(r)
             t == todo[r]
  <2>1. n \in Seq(Source)
    <3>1. at[r] \in 1..Len(Selected(r))
      BY <1>1, <1>2 DEF Packing, Running
    <3> QED
      BY <1>1, <3>1, Selection DEF Chosen, Selected, Sources
  <2>2. t \in Seq(Source) /\ t # <<>> /\ EndsWith(n, t)
    BY <1>1 DEF Rest
  <2>3. \A k \in 1..(Len(n) - Len(t)) :
          n[k] \notin removed[r] => Entries[n[k]] \subseteq packed[r]
    BY <1>1 DEF Rest
  <2>4. /\ todo'[r] = Tail(t) /\ Chosen(r)' = n /\ removed' = removed
        /\ packed[r] \subseteq packed'[r] /\ missing \subseteq removed[r]
        /\ Head(t) \notin missing => Entries[Head(t)] \subseteq packed'[r]
    BY <1>1, <1>2, <1>3, <1>4
  <2> HIDE DEF n, t
  <2>5. /\ Tail(t) \in Seq(Source) /\ EndsWith(n, Tail(t))
        /\ \A k \in 1..(Len(n) - Len(Tail(t))) :
             k \in 1..(Len(n) - Len(t)) \/ n[k] = Head(t)
    BY <2>1, <2>2, TailOfSuffix
  <2>6. ASSUME NEW k \in 1..(Len(n) - Len(Tail(t))), n[k] \notin removed[r]
        PROVE  Entries[n[k]] \subseteq packed'[r]
    <3>1. CASE k \in 1..(Len(n) - Len(t))
      BY <2>3, <2>4, <2>6, <3>1
    <3>2. CASE n[k] = Head(t)
      BY <2>4, <2>6, <3>2
    <3> QED
      BY <2>5, <3>1, <3>2
  <2>7. \A k \in 1..(Len(n) - Len(Tail(t))) :
          n[k] \notin removed'[r] => Entries[n[k]] \subseteq packed'[r]
    BY <2>4, <2>6
  <2> QED
    BY <2>4, <2>5, <2>7 DEF Rest, EndsWith
<1>6. Packing(r)'
  BY <1>1, <1>2, <1>3, <1>4, <1>5 DEF Packing, Running
<1>7. Carried(r)'
  BY <1>1, <1>2, OwnCarried DEF Packing
<1>8. \A q \in Run \ {r} :
        <<pc[q], config[q], at[q], todo[q], packed[q], why[q], removed[q]>>'
          = <<pc[q], config[q], at[q], todo[q], packed[q], why[q], removed[q]>>
  BY <1>1, <1>2 DEF Shapes
<1>9. /\ DOMAIN config' = Run /\ DOMAIN todo' = Run /\ DOMAIN packed' = Run /\ DOMAIN removed' = Run
      /\ \A m \in wire' : m.call \in Call
  BY <1>1, <1>2 DEF Shapes
<1> QED
  BY <1>2, <1>6, <1>7, <1>8, <1>9, StepKeeps

(* It looks at the source, which is there, or it finishes the archive.     *)
LEMMA LookStocks ==
  ASSUME Inv, Stock, NEW r \in Run, NEW step \in {"adding", "packed"},
         pc[r] = "looking", pc' = [pc EXCEPT ![r] = step],
         step = "adding" <=> todo[r] # <<>>,
         UNCHANGED <<config, at, todo, packed, why, missing, removed, wire, phase, archive>>
  PROVE  Stock'
<1>1. DOMAIN pc = Run /\ Packing(r) /\ Shapes /\ at[r] \in Nat
  BY DEF Inv, Types, Stock
<1>2. Selected(r)' = Selected(r) /\ Chosen(r)' = Chosen(r)
  BY DEF Selected, Chosen, Sources
<1>3. Rest(r) => Rest(r)'
  BY <1>2 DEF Rest, EndsWith
<1>4. Packing(r)'
  BY <1>1, <1>2, <1>3 DEF Packing, Running
<1>5. Carried(r)'
  BY <1>1, OwnCarried DEF Packing
<1>6. \A q \in Run \ {r} :
        <<pc[q], config[q], at[q], todo[q], packed[q], why[q], removed[q]>>'
          = <<pc[q], config[q], at[q], todo[q], packed[q], why[q], removed[q]>>
  BY <1>1
<1> QED
  BY <1>1, <1>4, <1>5, <1>6, StepKeeps DEF Shapes

(* It reads its configuration; nothing has been sent.                      *)
LEMMA BeginStocks ==
  ASSUME Inv, Stock, NEW r \in Run, Begin(r)
  PROVE  Stock'
<1>1. DOMAIN pc = Run /\ Packing(r) /\ Shapes /\ at[r] = 0 /\ pc[r] = "idle"
  BY DEF Inv, Types, Stock, Position, Begin
<1>2. PICK c \in ClientConfig[r] : config' = [config EXCEPT ![r] = c]
  BY DEF Begin
<1>3. /\ pc' = [pc EXCEPT ![r] = "connecting"] /\ removed' = [removed EXCEPT ![r] = missing]
      /\ UNCHANGED <<at, todo, packed, why, missing, wire, phase, archive>>
  BY DEF Begin, requests, deployment
<1>4. /\ pc'[r] = "connecting" /\ config'[r] = c /\ removed'[r] = missing
      /\ at'[r] = 0 /\ why'[r] = why[r] /\ why[r] # "success"
  BY <1>1, <1>2, <1>3 DEF Shapes, Packing
<1>5. Packing(r)'
  BY <1>1, <1>3, <1>4 DEF Packing, Running
<1>6. Carried(r)'
  BY <1>4 DEF Carried
<1>7. \A q \in Run \ {r} :
        <<pc[q], config[q], at[q], todo[q], packed[q], why[q], removed[q]>>'
          = <<pc[q], config[q], at[q], todo[q], packed[q], why[q], removed[q]>>
  BY <1>1, <1>2, <1>3 DEF Shapes
<1>8. /\ DOMAIN config' = Run /\ DOMAIN todo' = Run /\ DOMAIN packed' = Run /\ DOMAIN removed' = Run
      /\ \A m \in wire' : m.call \in Call
  BY <1>1, <1>2, <1>3 DEF Shapes
<1> QED
  BY <1>3, <1>5, <1>6, <1>7, <1>8, StepKeeps

(* It sends what it packed, and nothing was left to pack.                  *)
LEMMA SendStocks ==
  ASSUME Inv, Stock, NEW r \in Run, Send(r)
  PROVE  Stock'
<1>1. /\ DOMAIN pc = Run /\ Packing(r) /\ Shapes /\ at[r] \in Nat /\ pc[r] = "packed"
      /\ Rest(r) /\ todo[r] = <<>> /\ config[r] \in ClientConfig[r]
      /\ at[r] \in 1..Len(Selected(r)) /\ at[r] <= MaxNames /\ MaxNames \in Nat
  BY ClientAssumption DEF Inv, Types, Stock, Packing, Running, Send
<1>2. /\ pc' = [pc EXCEPT ![r] = "waiting"]
      /\ UNCHANGED <<config, at, todo, packed, why, missing, removed, phase, archive>>
  BY DEF Send, tree, deployment
<1>3. PICK new : /\ wire' = wire \cup {new} \/ wire' = wire
                 /\ new.call = <<r, at[r]>> /\ new.entries = packed[r]
  <2> DEFINE request == [call |-> <<r, at[r]>>, size |-> size[r], entries |-> packed[r]]
  <2>1. wire' = wire \cup {request} \/ wire' = wire
    BY DEF Send, Current
  <2>2. request.call = <<r, at[r]>> /\ request.entries = packed[r]
    OBVIOUS
  <2> HIDE DEF request
  <2> QED
    BY <2>1, <2>2
<1>4. new.call \in Call
  <2>1. at[r] \in 1..MaxNames
    BY <1>1, Selection DEF Selected
  <2> QED
    BY <1>3, <2>1 DEF Call
<1>5. Selected(r)' = Selected(r) /\ Chosen(r)' = Chosen(r)
  BY <1>2 DEF Selected, Chosen, Sources
<1>6. Packing(r)'
  <2>1. Rest(r)'
    BY <1>1, <1>2, <1>5 DEF Rest, EndsWith
  <2> QED
    BY <1>1, <1>2, <1>5, <2>1 DEF Packing, Running
<1>7. Covers(r, at[r], packed[r])'
  <2>1. Chosen(r) \in Seq(Source)
    BY <1>1, Selection DEF Chosen, Selected, Sources
  <2>2. Len(Chosen(r)) - Len(todo[r]) = Len(Chosen(r))
    BY <1>1, <2>1
  <2>3. \A k \in 1..Len(Chosen(r)) :
          Chosen(r)[k] \notin removed[r] => Entries[Chosen(r)[k]] \subseteq packed[r]
    BY <1>1, <2>2 DEF Rest
  <2> QED
    BY <1>2, <1>5, <2>3 DEF Covers, Chosen
<1>8. ASSUME NEW i \in 1..at[r]
      PROVE  /\ \A m \in wire' : m.call = <<r, i>> => Covers(r, i, m.entries)'
             /\ phase'[<<r, i>>] \notin {"new", "refused"} => Covers(r, i, archive[<<r, i>>])'
  <2>1. /\ \A m \in wire : m.call = <<r, i>> => Covers(r, i, m.entries)'
        /\ phase'[<<r, i>>] \notin {"new", "refused"} => Covers(r, i, archive[<<r, i>>])'
    BY <1>2, CarriedOn DEF Stock
  <2>2. new.call = <<r, i>> => Covers(r, i, new.entries)'
    <3>1. ASSUME i = at[r] PROVE Covers(r, i, new.entries)'
      BY <1>2, <1>3, <1>7, <3>1 DEF Covers, Sources, Selected
    <3> QED
      BY <1>1, <1>3, <3>1
  <2> QED
    BY <1>3, <2>1, <2>2
<1>9. Carried(r)'
  BY <1>2, <1>8 DEF Carried
<1>10. \A q \in Run \ {r} :
         <<pc[q], config[q], at[q], todo[q], packed[q], why[q], removed[q]>>'
           = <<pc[q], config[q], at[q], todo[q], packed[q], why[q], removed[q]>>
  BY <1>1, <1>2
<1>11. /\ DOMAIN config' = Run /\ DOMAIN todo' = Run /\ DOMAIN packed' = Run /\ DOMAIN removed' = Run
       /\ \A m \in wire' : m.call \in Call
       /\ \A m \in wire' : m \in wire \/ m.call = <<r, at[r]>>
  BY <1>1, <1>2, <1>3, <1>4 DEF Shapes
<1> QED
  BY <1>2, <1>6, <1>9, <1>10, <1>11, StepKeeps

(* The answer to a package is the start of the next, or the end.           *)
LEMMA AnswerStocks ==
  ASSUME Inv, Stock, NEW r \in Run, NEW outcome, pc[r] = "waiting", After(r, outcome),
         outcome = "deployed" => phase[Current(r)] = "deployed",
         outcome # "success",
         UNCHANGED <<missing, removed, wire, phase, archive>>
  PROVE  Stock'
<1>1. CASE Continues(outcome) /\ More(r) /\ Pack(r, at[r] + 1)
  BY <1>1, PackStocks DEF More
<1>2. CASE Continues(outcome) /\ ~ More(r) /\ Exit(r, "success")
  BY <1>2, ExitStocks DEF Continues
<1>3. CASE ~ Continues(outcome) /\ Exit(r, outcome)
  BY <1>3, ExitStocks
<1> QED
  BY <1>1, <1>2, <1>3 DEF After

(* At first nothing is packed or sent.                                     *)
LEMMA StockInit == Init => Stock /\ Promised!Inv
<1> SUFFICES ASSUME Init PROVE Stock /\ Promised!Inv
  OBVIOUS
<1>1. Shapes
  BY DEF Init, Shapes
<1>2. ASSUME NEW r \in Run PROVE Packing(r) /\ Carried(r)
  BY ClientAssumption DEF Init, Packing, Running, Carried
<1>3. Promised!Init
  BY DEF Init, Server!Init, Promised!Init
<1> QED
  BY <1>1, <1>2, <1>3, Promised!InvInit DEF Stock

(* Every step keeps what was packed, and the server what it promised.      *)
LEMMA StockStep == Inv /\ Stock /\ Promised!Inv /\ [Next]_vars => Stock' /\ Promised!Inv'
<1> SUFFICES ASSUME Inv, Stock, Promised!Inv, [Next]_vars PROVE Stock' /\ Promised!Inv'
  OBVIOUS
<1> USE DEF tree, requests, deployment
<1>0. Shapes
  BY DEF Stock
<1>1. Promised!Inv'
  BY KeepsContract, Promised!InvStep DEF Stock
<1> SUFFICES Stock'
  BY <1>1
<1>2. ASSUME NEW r \in Run, Begin(r) PROVE Stock'
  BY <1>2, BeginStocks
<1>3. ASSUME NEW r \in Run,
             BeginFails(r) \/ ConnectFails(r) \/ AddFails(r) \/ CannotSend(r)
      PROVE  Stock'
  <2>1. Exit(r, "local") /\ UNCHANGED <<missing, removed, wire, phase, archive>>
    BY <1>3 DEF BeginFails, ConnectFails, AddFails, CannotSend
  <2> QED
    BY <2>1, ExitStocks
<1>4. ASSUME NEW r \in Run, Connect(r) PROVE Stock'
  <2>1. at[r] = 0 /\ Pack(r, at[r] + 1) /\ UNCHANGED <<missing, removed, wire, phase, archive>>
    BY <1>4 DEF Connect, Inv, Position
  <2>2. config[r] \in ClientConfig[r]
    BY <1>4 DEF Connect, Stock, Packing
  <2>3. at[r] < Len(Selected(r))
    BY <1>4, <2>1, <2>2, Selection DEF Connect, Selected
  <2> QED
    BY <1>4, <2>1, <2>3, PackStocks DEF Connect
<1>5. ASSUME NEW r \in Run, Look(r) PROVE Stock'
  <2>1. CASE Exit(r, "local")
    BY <1>5, <2>1, ExitStocks DEF Look
  <2>2. CASE ~ Exit(r, "local")
    BY <1>5, <2>2, LookStocks DEF Look
  <2> QED
    BY <2>1, <2>2
<1>6. ASSUME NEW r \in Run, Add(r) PROVE Stock'
  BY <1>6, AddStocks
<1>7. ASSUME NEW r \in Run, Finish(r) PROVE Stock'
  BY <1>7, LookStocks DEF Finish
<1>8. ASSUME NEW r \in Run, Send(r) PROVE Stock'
  BY <1>8, SendStocks
<1>9. ASSUME NEW r \in Run, Reply(r) PROVE Stock'
  <2>1. phase[Current(r)] # "success"
    BY <1>9 DEF Reply
  <2> QED
    BY <1>9, <2>1, AnswerStocks DEF Reply
<1>10. ASSUME NEW r \in Run, Deadline(r) \/ ReplyLost(r) PROVE Stock'
  BY <1>10, AnswerStocks DEF Deadline, ReplyLost
<1>11. ASSUME NEW m \in wire, Receive(m) PROVE Stock'
  BY <1>11, ReceiveArrives, StockGoesOn DEF Stock
<1>12. ASSUME NEW c \in Call, Deploying(c) PROVE Stock'
  BY <1>12, DeployingArrives, StockGoesOn DEF Stock
<1>13. CASE \/ Halt \/ Restart \/ Reload \/ UNCHANGED vars
            \/ \E s \in Source : Remove(s) \/ Restore(s)
            \/ \E m \in wire : Lose(m)
  <2>1. SideStep
    BY <1>0, <1>13, OthersArrive DEF vars
  <2> QED
    BY <2>1, StockGoesOn
<1>14. ASSUME NEW r \in Run, ClientStep(r) PROVE Stock'
  BY <1>3, <1>4, <1>5, <1>6, <1>7, <1>8, <1>9, <1>10, <1>14 DEF ClientStep
<1>15. CASE Environment
  <2>1. CASE \E r \in Run : Begin(r) \/ BeginFails(r) \/ ReplyLost(r)
    BY <1>2, <1>3, <1>10, <2>1
  <2>2. CASE \E s \in Built : Remove(s) \/ Restore(s)
    <3>1. \E s \in Source : Remove(s) \/ Restore(s)
      BY <2>2, ClientAssumption
    <3> QED
      BY <1>13, <3>1
  <2>3. CASE \E m \in wire : Lose(m)
    BY <1>13, <2>3
  <2> QED
    BY <1>15, <2>1, <2>2, <2>3 DEF Environment
<1>16. CASE ServerStep
  <2>1. CASE \E m \in wire : Receive(m)
    BY <1>11, <2>1
  <2>2. CASE \E c \in Call : Deploying(c)
    BY <1>12, <2>2
  <2>3. CASE Halt \/ Restart \/ Reload
    BY <1>13, <2>3
  <2> QED
    BY <1>16, <2>1, <2>2, <2>3 DEF ServerStep
<1> QED
  BY <1>13, <1>14, <1>15, <1>16 DEF Next

(* What the server does among clients, builds, halts and a network that    *)
(* loses requests is what the contract allows.                             *)
THEOREM UsesContract == Spec => Promised!Spec
<1>1. Init => Promised!Init
  BY DEF Init, Server!Init, Promised!Init
<1>2. Spec => []Stock
  BY StockInit, StockStep, Invariant, PTL DEF Spec
<1>3. Stock /\ [Next]_vars => [Promised!Next]_(Promised!vars)
  BY KeepsContract DEF Stock
<1> QED
  BY <1>1, <1>2, <1>3, PTL DEF Spec, Promised!Spec

(* A run that ends with success has put every file of every package it     *)
(* selected on the server, whatever was lost, late, removed or restarted   *)
(* meanwhile: there it is whole, or another call has replaced it.          *)
THEOREM Reaches == Spec => []SuccessMeansDeployed
<1>1. ASSUME Inv, Stock, Promised!Inv PROVE SuccessMeansDeployed
  <2> SUFFICES ASSUME NEW r \in Run, why[r] = "success", NEW i \in 1..Len(Selected(r))
               PROVE  /\ phase[<<r, i>>] = "deployed"
                      /\ \A k \in 1..Len(Sources(r, i)) :
                           Sources(r, i)[k] \notin removed[r] =>
                             \A f \in Entries[Sources(r, i)[k]] : Server!Kept(<<r, i>>, f)
    BY DEF SuccessMeansDeployed
  <2>1. /\ at[r] = Len(Selected(r)) /\ at[r] \in Nat /\ at[r] <= MaxNames /\ MaxNames \in Nat
        /\ Phase(r, at[r]) = "deployed" /\ Carried(r)
    BY <1>1 DEF Stock, Packing, Inv, Types
  <2>2. i \in 1..at[r] /\ i \in 1..MaxNames /\ <<r, i>> \in Call
    BY <2>1 DEF Call
  <2>3. phase[<<r, i>>] = "deployed"
    BY <1>1, <2>1, <2>2 DEF Inv, Position, Phase
  <2>4. Covers(r, i, archive[<<r, i>>])
    BY <2>1, <2>2, <2>3 DEF Carried
  <2>5. \A f \in archive[<<r, i>>] : Server!Kept(<<r, i>>, f)
    BY <1>1, <2>2, <2>3
    DEF Promised!Inv, Promised!InItsPlace, Promised!Complete, Promised!Kept, Promised!Whole,
        Server!Kept, Server!Whole
  <2> QED
    BY <2>3, <2>4, <2>5 DEF Covers
<1>2. Spec => [](Stock /\ Promised!Inv)
  BY StockInit, StockStep, Invariant, PTL DEF Spec
<1> QED
  BY <1>1, <1>2, Invariant, PTL

(* It has deployed what the command line asks for: every name on it that   *)
(* its configuration knows, in their order, each as often as it is there.  *)
THEOREM NothingSkipped == Spec => []NamesDeployed
<1>1. ASSUME Inv, Stock, Promised!Inv, SuccessMeansDeployed PROVE NamesDeployed
  <2> SUFFICES ASSUME NEW r \in Run, why[r] = "success"
               PROVE  \E number \in [KnownPlaces(r) -> 1..Len(Selected(r))] :
                        /\ \A j, k \in KnownPlaces(r) : j < k => number[j] < number[k]
                        /\ \A i \in 1..Len(Selected(r)) : \E j \in KnownPlaces(r) : number[j] = i
                        /\ \A j \in KnownPlaces(r) :
                             /\ Selected(r)[number[j]] = Line[r][j]
                             /\ phase[<<r, number[j]>>] = "deployed"
    BY DEF NamesDeployed
  <2>1. PICK number : InOrderIn(DOMAIN config[r].packages, Line[r], Len(Line[r]), Selected(r), number)
    BY KnownIsPart DEF Part, Selected
  <2>2. \A i \in 1..Len(Selected(r)) : phase[<<r, i>>] = "deployed"
    BY <1>1 DEF SuccessMeansDeployed
  <2>3. \A j \in KnownPlaces(r) : phase[<<r, number[j]>>] = "deployed"
    BY <2>1, <2>2 DEF InOrderIn, KnownPlaces
  <2> QED
    BY <2>1, <2>3 DEF InOrderIn, KnownPlaces
<1>2. Spec => [](Stock /\ Promised!Inv)
  BY StockInit, StockStep, Invariant, PTL DEF Spec
<1> QED
  BY <1>1, <1>2, Reaches, Invariant, PTL

-----------------------------------------------------------------------------
(* The types of what a run keeps, and of the rest.                         *)
RunTypes ==
  /\ DOMAIN config = Run
  /\ \A r \in Run : config[r] \in ClientConfig[r] \cup {NoConfig}
  /\ \A r \in Run : at[r] \in 0..Len(Selected(r))
  /\ todo \in [Run -> Seq(Source)] /\ packed \in [Run -> SUBSET File]
  /\ size \in [Run -> Size \cup {0}]
  /\ \A r \in Run : pc[r] = "packed" => size[r] \in Size

OtherTypes ==
  /\ missing \subseteq Source /\ removed \in [Run -> SUBSET Source]
  /\ wire \subseteq Message /\ up \in BOOLEAN /\ events \in 0..MaxEvent

(* At first nothing is selected.                                           *)
LEMMA TypesInit == Init => RunTypes /\ OtherTypes
<1> SUFFICES ASSUME Init PROVE RunTypes /\ OtherTypes
  OBVIOUS
<1>1. ASSUME NEW r \in Run
      PROVE  config[r] \in ClientConfig[r] \cup {NoConfig} /\ at[r] \in 0..Len(Selected(r))
  <2>1. config[r] = NoConfig /\ at[r] = 0
    BY <1>1 DEF Init
  <2> QED
    BY <2>1, Selection DEF Selected
<1> QED
  BY <1>1, ClientAssumption DEF Init, RunTypes, OtherTypes

(* A run's steps keep its types, those of its sources with the stock.      *)
LEMMA RunTypesStep ==
  Inv /\ Stock /\ RunTypes /\ OtherTypes /\ [Next]_vars => RunTypes'
<1> SUFFICES ASSUME Inv, Stock, RunTypes, OtherTypes, [Next]_vars PROVE RunTypes'
  OBVIOUS
<1>0. pc \in [Run -> Steps] /\ at \in [Run -> Nat]
  BY DEF Inv, Types
<1> USE DEF RunTypes, Selected
<1>1. ASSUME NEW r \in Run, Begin(r) PROVE RunTypes'
  <2>1. at[r] = 0
    BY <1>1 DEF Begin, Inv, Position
  <2>2. PICK c \in ClientConfig[r] : config' = [config EXCEPT ![r] = c]
    BY <1>1 DEF Begin
  <2>3. 0 \in 0..Len(Known(c, Line[r]))
    BY Selection
  <2> QED
    BY <1>0, <1>1, <2>1, <2>2, <2>3 DEF Begin
<1>2. ASSUME NEW r \in Run, NEW ending, Exit(r, ending) PROVE RunTypes'
  BY <1>0, <1>2 DEF Exit
<1>3. ASSUME NEW r \in Run, Pack(r, at[r] + 1), at[r] < Len(Selected(r)),
             config[r] \in ClientConfig[r]
      PROVE  RunTypes'
  <2>1. Len(Selected(r)) \in Nat /\ \A i \in 1..Len(Selected(r)) : Sources(r, i) \in Seq(Source)
    BY <1>3, Selection DEF Sources
  <2>2. at[r] + 1 \in 0..Len(Selected(r)) /\ Sources(r, at[r] + 1) \in Seq(Source)
    BY <1>0, <1>3, <2>1
  <2> QED
    BY <1>0, <1>3, <2>2 DEF Pack
<1>4. ASSUME NEW r \in Run, Connect(r) PROVE RunTypes'
  <2>1. at[r] = 0 /\ Pack(r, at[r] + 1)
    BY <1>4 DEF Connect, Inv, Position
  <2>2. config[r] \in ClientConfig[r]
    BY <1>4 DEF Connect, Stock, Packing
  <2>3. at[r] < Len(Selected(r))
    BY <1>4, <2>1, <2>2, Selection DEF Connect
  <2> QED
    BY <1>3, <2>1, <2>2, <2>3
<1>5. ASSUME NEW r \in Run, Look(r) PROVE RunTypes'
  <2>1. CASE Exit(r, "local")
    BY <1>2, <2>1
  <2>2. CASE ~ Exit(r, "local")
    BY <1>0, <1>5, <2>2 DEF Look
  <2> QED
    BY <2>1, <2>2
<1>6. ASSUME NEW r \in Run, Add(r) PROVE RunTypes'
  <2>1. todo[r] \in Seq(Source) /\ todo[r] # <<>>
    BY <1>6 DEF Add, Stock, Packing
  <2>2. Tail(todo[r]) \in Seq(Source) /\ Entries[Head(todo[r])] \subseteq File
    BY <2>1, ClientAssumption
  <2>3. todo' = [todo EXCEPT ![r] = Tail(todo[r])] /\ todo' \in [Run -> Seq(Source)]
    BY <1>6, <2>2 DEF Add
  <2>4. packed' \in [Run -> SUBSET File]
    BY <1>6, <2>2 DEF Add, EntriesOf
  <2> QED
    BY <1>0, <1>6, <2>3, <2>4 DEF Add
<1>7. ASSUME NEW r \in Run, Finish(r) PROVE RunTypes'
  BY <1>0, <1>7 DEF Finish
<1>8. ASSUME NEW r \in Run, Send(r) PROVE RunTypes'
  BY <1>0, <1>8 DEF Send
<1>9. ASSUME NEW r \in Run, NEW outcome, pc[r] = "waiting", After(r, outcome) PROVE RunTypes'
  <2>1. config[r] \in ClientConfig[r]
    BY <1>9 DEF Stock, Packing
  <2> QED
    BY <1>2, <1>3, <1>9, <2>1 DEF After, More
<1>10. ASSUME NEW r \in Run, ClientStep(r) \/ BeginFails(r) \/ ReplyLost(r) PROVE RunTypes'
  <2>1. CASE BeginFails(r) \/ ConnectFails(r) \/ AddFails(r) \/ CannotSend(r)
    BY <1>2, <2>1 DEF BeginFails, ConnectFails, AddFails, CannotSend
  <2>2. CASE Reply(r) \/ Deadline(r) \/ ReplyLost(r)
    BY <1>9, <2>2 DEF Reply, Deadline, ReplyLost
  <2> QED
    BY <1>4, <1>5, <1>6, <1>7, <1>8, <1>10, <2>1, <2>2 DEF ClientStep
<1>11. CASE UNCHANGED client
  BY <1>11 DEF client
<1>12. CASE ServerStep
  BY <1>11, <1>12 DEF ServerStep, Receive, Deploying, Halt, Restart, Reload
<1>13. CASE Environment
  BY <1>1, <1>10, <1>11, <1>13 DEF Environment, Remove, Restore, Lose
<1>14. CASE UNCHANGED vars
  BY <1>11, <1>14 DEF vars
<1> QED
  BY <1>10, <1>12, <1>13, <1>14 DEF Next

(* Builds, the server and the network keep theirs.                         *)
LEMMA OtherTypesStep ==
  Inv /\ Stock /\ RunTypes /\ OtherTypes /\ [Next]_vars => OtherTypes'
<1> SUFFICES ASSUME Inv, Stock, RunTypes, OtherTypes, [Next]_vars PROVE OtherTypes'
  OBVIOUS
<1> USE DEF OtherTypes, tree, limits, requests
<1>1. ASSUME NEW r \in Run, Begin(r) PROVE OtherTypes'
  BY <1>1 DEF Begin
<1>2. ASSUME NEW r \in Run,
             BeginFails(r) \/ ReplyLost(r) \/ (ClientStep(r) /\ ~ Send(r))
      PROVE  OtherTypes'
  BY <1>2 DEF BeginFails, ReplyLost, ClientStep, Connect, ConnectFails, Look, Add, AddFails,
     Finish, CannotSend, Reply, Deadline
<1>3. ASSUME NEW r \in Run, Send(r) PROVE OtherTypes'
  <2>1. /\ config[r] \in ClientConfig[r] /\ at[r] \in 1..Len(Selected(r)) /\ at[r] <= MaxNames
        /\ size[r] \in Size /\ packed[r] \subseteq File
    BY <1>3 DEF Send, Stock, Packing, Running, RunTypes
  <2>2. Current(r) \in Call
    BY <2>1, Selection, ClientAssumption DEF Current, Call, Selected
  <2>3. [call |-> Current(r), size |-> size[r], entries |-> packed[r]] \in Message
    BY <2>1, <2>2 DEF Message
  <2> QED
    BY <1>3, <2>3 DEF Send
<1>4. ASSUME NEW s \in Source, Remove(s) \/ Restore(s) PROVE OtherTypes'
  BY <1>4, ClientAssumption DEF Remove, Restore, Event
<1>5. ASSUME NEW m \in wire, Lose(m) \/ Receive(m) PROVE OtherTypes'
  BY <1>5 DEF Lose, Receive
<1>6. ASSUME NEW c \in Call, Deploying(c) PROVE OtherTypes'
  BY <1>6 DEF Deploying
<1>7. CASE Halt \/ Restart \/ Reload
  <2>1. events' = events \/ events' \in 0..MaxEvent
    BY <1>7, ClientAssumption DEF Halt, Restart, Reload, Event
  <2>2. UNCHANGED <<missing, removed>> /\ wire' \subseteq wire /\ up' \in BOOLEAN
    BY <1>7 DEF Halt, Restart, Reload
  <2> QED
    BY <2>1, <2>2
<1>8. CASE UNCHANGED vars
  BY <1>8 DEF vars
<1> QED
  BY <1>1, <1>2, <1>3, <1>4, <1>5, <1>6, <1>7, <1>8, ClientAssumption
  DEF Next, Environment, ServerStep

(* Every variable has its type; no run is beyond the packages it selected. *)
THEOREM TypeCorrect == Spec => []TypeOK
<1>1. ASSUME Inv, Numbers, Promised!Inv, RunTypes, OtherTypes PROVE TypeOK
  <2>1. Server!TypeOK
    BY <1>1 DEF Promised!Inv, Promised!TypeOK, Server!TypeOK, Promised!Phases, Server!Phases
  <2> QED
    BY <1>1, <2>1 DEF Inv, Types, Numbers, RunTypes, OtherTypes, TypeOK
<1>2. Spec => []Numbers
  BY NumbersInit, NumbersStep, Invariant, PTL DEF Spec
<1>3. Spec => [](Stock /\ Promised!Inv)
  BY StockInit, StockStep, Invariant, PTL DEF Spec
<1>4. Spec => [](RunTypes /\ OtherTypes)
  BY TypesInit, RunTypesStep, OtherTypesStep, <1>3, Invariant, PTL DEF Spec
<1> QED
  BY <1>1, <1>2, <1>3, <1>4, Invariant, PTL

-----------------------------------------------------------------------------
(* A run does not go in circles.                                           *)

(* There is no endless sequence in which each has fewer than the one       *)
(* before.                                                                 *)
LEMMA FewerEnds ==
  IsWellFoundedOn({ff \in [1..4 -> Nat] \X [1..4 -> Nat] : Fewer(ff[1], ff[2])}, [1..4 -> Nat])
<1> DEFINE R == OpToRel(<, Nat)
           L == LexProductOrdering(R, Nat, 4)
           F == {ff \in [1..4 -> Nat] \X [1..4 -> Nat] : Fewer(ff[1], ff[2])}
<1>1. IsWellFoundedOn(R, Nat)
  BY NatLessThanWellFounded, Zenon
<1>2. R = {ss \in Nat \X Nat : ss[1] < ss[2]}
  BY Zenon DEF OpToRel
<1> HIDE DEF R
<1>3. IsWellFoundedOn(L, [1..4 -> Nat])
  BY <1>1, WFLexProductOrdering
<1>4. ASSUME NEW a \in [1..4 -> Nat], NEW b \in [1..4 -> Nat]
      PROVE  Fewer(a, b) <=> \E j \in 1..4 : /\ \A i \in 1..(j - 1) : a[i] = b[i]
                                            /\ <<a[j], b[j]>> \in R
  BY <1>2 DEF Fewer
<1>5. F = L
  BY <1>4 DEF LexProductOrdering
<1> QED
  BY <1>3, <1>5

(* What the steps count.                                                   *)
LEMMA Counting ==
  /\ \A step \in Steps : Way(step) \in Nat /\ Pass(step) \in Nat /\ Looks(step) \in Nat
  /\ Way("idle") = 3 /\ Way("connecting") = 2 /\ Way("exited") = 0
  /\ \A step \in {"looking", "adding", "packed", "waiting"} : Way(step) = 1
  /\ Pass("looking") = 2 /\ Pass("adding") = 2 /\ Pass("packed") = 1 /\ Pass("waiting") = 0
  /\ Looks("looking") = 1 /\ Looks("adding") = 0
<1>1. \A step \in Steps : Way(step) \in Nat
  BY DEF Way
<1>2. \A step \in Steps : Pass(step) \in Nat
  BY DEF Pass
<1>3. \A step \in Steps : Looks(step) \in Nat
  BY DEF Looks
<1>4. /\ Way("idle") = 3 /\ Way("connecting") = 2 /\ Way("exited") = 0
      /\ \A step \in {"looking", "adding", "packed", "waiting"} : Way(step) = 1
  BY DEF Way
<1>5. Pass("looking") = 2 /\ Pass("adding") = 2 /\ Pass("packed") = 1 /\ Pass("waiting") = 0
  BY DEF Pass
<1>6. Looks("looking") = 1 /\ Looks("adding") = 0
  BY DEF Looks
<1> QED
  BY <1>1, <1>2, <1>3, <1>4, <1>5, <1>6

(* Four numbers.                                                           *)
LEMMA Quadruple ==
  ASSUME NEW a \in Nat, NEW b \in Nat, NEW c \in Nat, NEW d \in Nat
  PROVE  <<a, b, c, d>> \in [1..4 -> Nat]
OBVIOUS

(* Those of a run at the i-th of n packages with l sources to add.         *)
LEMMA FourNumbers ==
  ASSUME NEW step \in Steps, NEW n \in Nat, NEW i \in Nat, i <= n, NEW l \in Nat
  PROVE  <<Way(step), n - i, Pass(step), 2 * l + Looks(step)>> \in [1..4 -> Nat]
<1> DEFINE a == Way(step)
           b == n - i
           c == Pass(step)
           d == 2 * l + Looks(step)
<1>1. a \in Nat
  BY DEF Way
<1>2. b \in Nat
  OBVIOUS
<1>3. c \in Nat
  BY DEF Pass
<1>4. d \in Nat
  <2>1. Looks(step) \in Nat
    BY DEF Looks
  <2> QED
    BY <2>1
<1> HIDE DEF a, b, c, d
<1>5. <<a, b, c, d>> \in [1..4 -> Nat]
  BY <1>1, <1>2, <1>3, <1>4, Quadruple
<1> QED
  BY <1>5 DEF a, b, c, d

LEMMA AheadIs ==
  ASSUME Inv, Stock, RunTypes, NEW r \in Run
  PROVE  /\ Ahead(r) \in [1..4 -> Nat]
         /\ at[r] \in Nat /\ Len(Selected(r)) \in Nat /\ Len(todo[r]) \in Nat
<1>1. at[r] \in 0..Len(Selected(r)) /\ Len(Selected(r)) \in Nat
  BY Selection DEF RunTypes, Selected
<1>2. Len(todo[r]) \in Nat
  BY DEF RunTypes
<1>3. pc[r] \in Steps
  BY DEF Inv, Types
<1> DEFINE n == Len(Selected(r))
           l == Len(todo[r])
<1>4. Ahead(r) = <<Way(pc[r]), n - at[r], Pass(pc[r]), 2 * l + Looks(pc[r])>>
  BY DEF Ahead
<1> HIDE DEF n, l
<1>5. <<Way(pc[r]), n - at[r], Pass(pc[r]), 2 * l + Looks(pc[r])>> \in [1..4 -> Nat]
  <2>1. n \in Nat /\ at[r] \in Nat /\ at[r] <= n /\ l \in Nat
    BY <1>1, <1>2 DEF n, l
  <2> QED
    BY <1>3, <2>1, FourNumbers
<1> QED
  BY <1>1, <1>2, <1>4, <1>5

(* Whoever is not the run leaves it where it is.                           *)
LEMMA OthersLeave ==
  ASSUME Inv, Shapes, [Next]_vars, NEW r \in Run,
         ~ (ClientStep(r) \/ Begin(r) \/ BeginFails(r) \/ ReplyLost(r))
  PROVE  <<pc[r], at[r], todo[r], config[r]>>' = <<pc[r], at[r], todo[r], config[r]>>
<1> USE DEF Inv, Types, Shapes, Exit, Pack, After
<1>1. ASSUME NEW q \in Run, q # r, ClientStep(q)
      PROVE  <<pc[r], at[r], todo[r], config[r]>>' = <<pc[r], at[r], todo[r], config[r]>>
  <2>1. CASE Connect(q) \/ ConnectFails(q) \/ Look(q) \/ Add(q) \/ AddFails(q)
    BY <1>1, <2>1 DEF Connect, ConnectFails, Look, Add, AddFails
  <2>2. CASE Finish(q) \/ CannotSend(q) \/ Send(q)
    BY <1>1, <2>2 DEF Finish, CannotSend, Send
  <2>3. CASE Reply(q) \/ Deadline(q)
    BY <1>1, <2>3 DEF Reply, Deadline
  <2> QED
    BY <1>1, <2>1, <2>2, <2>3 DEF ClientStep
<1>2. ASSUME NEW q \in Run, q # r, Begin(q) \/ BeginFails(q) \/ ReplyLost(q)
      PROVE  <<pc[r], at[r], todo[r], config[r]>>' = <<pc[r], at[r], todo[r], config[r]>>
  BY <1>2 DEF Begin, BeginFails, ReplyLost
<1>3. CASE UNCHANGED client
  BY <1>3 DEF client
<1>4. CASE ServerStep
  BY <1>3, <1>4 DEF ServerStep, Receive, Deploying, Halt, Restart, Reload
<1>5. CASE Environment
  BY <1>2, <1>3, <1>5 DEF Environment, Remove, Restore, Lose
<1>6. CASE UNCHANGED vars
  BY <1>3, <1>6 DEF vars
<1> QED
  BY <1>1, <1>2, <1>3, <1>4, <1>5, <1>6 DEF Next

(* Each of its own steps leaves it less ahead.                             *)
LEMMA StepsForward ==
  ASSUME Inv, Inv', Stock, Stock', RunTypes, RunTypes', NEW r \in Run,
         ClientStep(r) \/ Begin(r) \/ BeginFails(r) \/ ReplyLost(r)
  PROVE  Fewer(Ahead(r)', Ahead(r))
<1> DEFINE a == Ahead(r)
           b == Ahead(r)'
           n == Len(Selected(r))
           m == Len(Selected(r)')
<1>1. a \in [1..4 -> Nat] /\ at[r] \in Nat /\ n \in Nat /\ Len(todo[r]) \in Nat
  BY AheadIs
<1>2. b \in [1..4 -> Nat] /\ m \in Nat /\ Len(todo'[r]) \in Nat
  <2>1. at'[r] \in 0..m /\ m \in Nat
    BY Selection DEF RunTypes, Selected
  <2>2. Len(todo'[r]) \in Nat
    BY DEF RunTypes
  <2> QED
    <3>1. pc'[r] \in Steps
      BY DEF Inv, Types
    <3> DEFINE l == Len(todo'[r])
    <3>2. b = <<Way(pc'[r]), m - at'[r], Pass(pc'[r]), 2 * l + Looks(pc'[r])>>
      BY DEF Ahead
    <3> HIDE DEF b, m, l
    <3>3. <<Way(pc'[r]), m - at'[r], Pass(pc'[r]), 2 * l + Looks(pc'[r])>> \in [1..4 -> Nat]
      <4>1. m \in Nat /\ at'[r] \in Nat /\ at'[r] <= m /\ l \in Nat
        BY <2>1, <2>2 DEF l
      <4> QED
        BY <3>1, <4>1, FourNumbers
    <3> QED
      BY <2>1, <2>2, <3>2, <3>3
<1>3. /\ a[1] = Way(pc[r]) /\ a[2] = n - at[r]
      /\ a[3] = Pass(pc[r]) /\ a[4] = 2 * Len(todo[r]) + Looks(pc[r])
  BY DEF Ahead
<1>4. /\ b[1] = Way(pc'[r]) /\ b[2] = m - at'[r]
      /\ b[3] = Pass(pc'[r]) /\ b[4] = 2 * Len(todo'[r]) + Looks(pc'[r])
  BY DEF Ahead
<1>5. Shapes /\ pc \in [Run -> Steps] /\ at \in [Run -> Nat]
  BY DEF Inv, Types, Stock
<1>6. config' = config => m = n
  BY DEF Selected
<1> HIDE DEF a, b, n, m
<1> SUFFICES Fewer(b, a)
  BY DEF a, b
<1>7. /\ Way(pc'[r]) < Way(pc[r]) => Fewer(b, a)
      /\ b[1] = a[1] /\ b[2] < a[2] => Fewer(b, a)
      /\ b[1] = a[1] /\ b[2] = a[2] /\ b[3] < a[3] => Fewer(b, a)
      /\ b[1] = a[1] /\ b[2] = a[2] /\ b[3] = a[3] /\ b[4] < a[4] => Fewer(b, a)
  <2>1. Fewer(b, a) <=> \E j \in 1..4 : b[j] < a[j] /\ \A i \in 1..(j - 1) : b[i] = a[i]
    BY Zenon DEF Fewer
  <2>2. /\ b[1] < a[1] => Fewer(b, a)
        /\ b[1] = a[1] /\ b[2] < a[2] => Fewer(b, a)
        /\ b[1] = a[1] /\ b[2] = a[2] /\ b[3] < a[3] => Fewer(b, a)
        /\ b[1] = a[1] /\ b[2] = a[2] /\ b[3] = a[3] /\ b[4] < a[4] => Fewer(b, a)
    BY <2>1
  <2> QED
    BY <1>3, <1>4, <2>2
<1>8. ASSUME NEW ending, Exit(r, ending), pc[r] # "exited" PROVE Fewer(b, a)
  <2>1. pc'[r] = "exited"
    BY <1>5, <1>8 DEF Exit
  <2>2. Way(pc[r]) > 0
    BY <1>5, <1>8, Counting DEF Steps
  <2> QED
    BY <1>7, <2>1, <2>2, Counting
<1>9. CASE Begin(r)
  <2>1. pc[r] = "idle" /\ pc'[r] = "connecting"
    BY <1>5, <1>9 DEF Begin
  <2> QED
    BY <1>7, <2>1, Counting
<1>10. CASE Connect(r)
  <2>1. pc[r] = "connecting" /\ pc'[r] = "looking"
    BY <1>5, <1>10 DEF Connect, Pack
  <2> QED
    BY <1>7, <2>1, Counting
<1>11. CASE Look(r)
  <2>1. CASE Head(todo[r]) \in missing
    BY <1>8, <1>11, <2>1 DEF Look
  <2>2. CASE Head(todo[r]) \notin missing
    <3>1. pc[r] = "looking" /\ pc'[r] = "adding" /\ config' = config /\ at' = at /\ todo' = todo
      BY <1>5, <1>11, <2>2 DEF Look
    <3>2. b[1] = a[1] /\ b[2] = a[2] /\ b[3] = a[3]
      BY <1>3, <1>4, <1>6, <3>1, Counting
    <3>3. b[4] < a[4]
      BY <1>1, <1>3, <1>4, <3>1, Counting
    <3> QED
      BY <1>7, <3>2, <3>3
  <2> QED
    BY <2>1, <2>2
<1>12. CASE Add(r)
  <2>1. /\ pc[r] = "adding" /\ pc'[r] = "looking" /\ config' = config /\ at' = at
        /\ todo'[r] = Tail(todo[r])
    BY <1>5, <1>12 DEF Add, Shapes
  <2>2. todo[r] \in Seq(Source) /\ todo[r] # <<>>
    BY <2>1 DEF Stock, Packing, RunTypes
  <2>3. Len(todo'[r]) = Len(todo[r]) - 1
    BY <2>1, <2>2
  <2>4. b[1] = a[1] /\ b[2] = a[2] /\ b[3] = a[3]
    BY <1>3, <1>4, <1>6, <2>1, Counting
  <2>5. b[4] < a[4]
    <3>1. b[4] = 2 * Len(todo'[r]) + 1 /\ a[4] = 2 * Len(todo[r]) + 0
      BY <1>3, <1>4, <2>1, Counting
    <3>2. \A k, l \in Nat : k = l - 1 => 2 * k + 1 < 2 * l + 0
      OBVIOUS
    <3> QED
      BY <1>1, <1>2, <2>3, <3>1, <3>2
  <2> QED
    BY <1>7, <2>4, <2>5
<1>13. CASE Finish(r) \/ Send(r)
  <2>1. config' = config /\ at' = at
    BY <1>13 DEF Finish, Send
  <2>2. \/ pc[r] = "looking" /\ pc'[r] = "packed"
        \/ pc[r] = "packed" /\ pc'[r] = "waiting"
    BY <1>5, <1>13 DEF Finish, Send
  <2>3. b[1] = a[1] /\ b[2] = a[2]
    BY <1>3, <1>4, <1>6, <2>1, <2>2, Counting
  <2>4. b[3] < a[3]
    BY <1>3, <1>4, <2>2, Counting
  <2> QED
    BY <1>7, <2>3, <2>4
<1>14. ASSUME NEW outcome, pc[r] = "waiting", After(r, outcome) PROVE Fewer(b, a)
  <2>1. CASE Pack(r, at[r] + 1)
    <3>1. config' = config /\ at'[r] = at[r] + 1 /\ pc'[r] = "looking"
      BY <1>5, <2>1 DEF Pack, Shapes
    <3>2. b[1] = a[1]
      BY <1>3, <1>4, <1>14, <3>1, Counting
    <3>3. b[2] < a[2]
      BY <1>1, <1>3, <1>4, <1>6, <3>1
    <3> QED
      BY <1>7, <3>2, <3>3
  <2>2. CASE \E ending : Exit(r, ending)
    BY <1>8, <1>14, <2>2
  <2> QED
    BY <1>14, <2>1, <2>2 DEF After
<1>15. CASE BeginFails(r) \/ ConnectFails(r) \/ AddFails(r) \/ CannotSend(r)
  BY <1>8, <1>15 DEF BeginFails, ConnectFails, AddFails, CannotSend
<1>16. CASE Reply(r) \/ Deadline(r) \/ ReplyLost(r)
  BY <1>14, <1>16 DEF Reply, Deadline, ReplyLost
<1> QED
  BY <1>9, <1>10, <1>11, <1>12, <1>13, <1>15, <1>16 DEF ClientStep

(* Hence a run ends after finitely many steps, as long as it takes any,    *)
(* whatever is lost, late or refused: nothing is tried twice.              *)
THEOREM Forward == Spec => RunsGoForward
<1>1. Spec => [](Stock /\ RunTypes)
  <2>1. Spec => [](Stock /\ Promised!Inv)
    BY StockInit, StockStep, Invariant, PTL DEF Spec
  <2> QED
    BY TypesInit, RunTypesStep, OtherTypesStep, <2>1, Invariant, PTL DEF Spec
<1>2. ASSUME Inv, Inv', Stock, Stock', RunTypes, RunTypes', [Next]_vars
      PROVE  \A r \in Run :
               /\ Ahead(r) \in [1..4 -> Nat]
               /\ <<pc[r], at[r], todo[r]>>' # <<pc[r], at[r], todo[r]>>
                    => Fewer(Ahead(r)', Ahead(r))
  BY <1>2, AheadIs, OthersLeave, StepsForward DEF Stock
<1> QED
  BY <1>1, <1>2, Invariant, PTL DEF RunsGoForward, Spec
===============================================================================
