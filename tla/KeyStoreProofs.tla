---------------------------- MODULE KeyStoreProofs ----------------------------
(* What holds of the key files for any number of client processes.         *)
EXTENDS KeyStore, TLAPS

Loading == {"load private", "load public", "ready"}

(* While nothing has disturbed a generation it has the files to itself.    *)
Alone == \A c \in Client : pc[c] \in Generating => ~ Others(c)

(* What the files hold at each step of a generation, and between two.      *)
Files ==
  /\ \A c \in Client :
       /\ pc[c] = "check public" => private # "absent"
       /\ pc[c] \in {"open public", "write public"} => private = c
  /\ Quiet => private # "empty" /\ public # "empty" /\
              (private = "absent" \/ public = "absent" \/ public = private)

(* Who has seen both files there has seen the pair, and it has stayed.     *)
Seen ==
  \A c \in Client :
    /\ pc[c] \in Loading => Quiet /\ private # "absent" /\ public = private
    /\ pc[c] \in {"load public", "ready"} => keypair[c] = private
    /\ pc[c] = "ready" => public_key[c] = private

Orderly == Alone /\ Files /\ Seen
Inv == TypeOK /\ (~ disturbed => Orderly)

USE DEF Move, Loaded, Generating

-----------------------------------------------------------------------------
(* The types by themselves are inductive.                                  *)
LEMMA TypeStep == TypeOK /\ [Next]_vars => TypeOK'
<1> SUFFICES ASSUME TypeOK, [Next]_vars PROVE TypeOK'
  OBVIOUS
<1> USE DEF TypeOK, Places, Key, KeyFile
<1>1. ASSUME NEW c \in Client, CheckPrivate(c) \/ CheckPublic(c) PROVE TypeOK'
  <2>1. disturbed' \in BOOLEAN
    BY <1>1, Zenon DEF CheckPrivate, CheckPublic
  <2>2. pc' \in [Client -> Places] /\ UNCHANGED <<private, public, keypair, public_key>>
    BY <1>1 DEF CheckPrivate, CheckPublic, AfterPrivate
  <2> QED
    BY <2>1, <2>2
<1>2. ASSUME NEW c \in Client, OpenPrivate(c) \/ WritePrivate(c) \/ OpenPublic(c) \/ WritePublic(c)
      PROVE  TypeOK'
  BY <1>2 DEF OpenPrivate, WritePrivate, OpenPublic, WritePublic
<1>3. ASSUME NEW c \in Client, LoadPrivate(c) \/ RejectPrivate(c) PROVE TypeOK'
  BY <1>3 DEF LoadPrivate, RejectPrivate, RightLength
<1>4. ASSUME NEW c \in Client, LoadPublic(c) PROVE TypeOK'
  BY <1>4 DEF LoadPublic
<1>5. ASSUME NEW c \in Client, Die(c) PROVE TypeOK'
  <2>1. disturbed' \in BOOLEAN
    BY <1>5, Zenon DEF Die
  <2>2. pc' \in [Client -> Places] /\ UNCHANGED <<private, public, keypair, public_key>>
    BY <1>5 DEF Die
  <2> QED
    BY <2>1, <2>2
<1>6. CASE UNCHANGED vars
  BY <1>6 DEF vars
<1> QED
  BY <1>1, <1>2, <1>3, <1>4, <1>5, <1>6 DEF Next, Step

(* Nobody generates, and there is a pair, one file of one, or nothing.     *)
LEMMA InvInit == Init => Inv
<1> SUFFICES ASSUME Init PROVE Inv
  OBVIOUS
<1>1. TypeOK
  BY DEF Init, TypeOK, Places, Key, KeyFile
<1>2. Orderly
  BY DEF Init, Orderly, Alone, Files, Seen, Loading, Quiet
<1> QED
  BY <1>1, <1>2 DEF Inv

(* A disturbance is not forgotten, and a step is disturbed by definition   *)
(* when it begins a generation beside a running process or looks at the    *)
(* files while another generates.                                          *)
LEMMA LookKeeps ==
  ASSUME TypeOK, TypeOK', Orderly, ~ disturbed', NEW c \in Client,
         CheckPrivate(c) \/ CheckPublic(c)
  PROVE  Orderly'
<1> USE DEF TypeOK, Orderly
<1>1. UNCHANGED <<private, public, keypair, public_key>>
  BY DEF CheckPrivate, CheckPublic
<1>2. \E to \in {"check public", "load private", "open private"} :
        /\ pc' = [pc EXCEPT ![c] = to]
        /\ pc[c] \in {"start", "check public"}
        /\ to = "open private" => ~ Others(c) /\ (private = "absent" \/ public = "absent")
        /\ to = "check public" => private # "absent"
        /\ to = "load private" => pc[c] = "check public" /\ public # "absent"
        /\ Quiet
  <2>1. CASE CheckPrivate(c)
    BY <2>1 DEF CheckPrivate, AfterPrivate, Quiet
  <2>2. CASE CheckPublic(c)
    <3>1. ASSUME NEW o \in Client, pc[o] \in Generating PROVE FALSE
      <4>1. o # c /\ Running(c)
        BY <2>2, <3>1 DEF CheckPublic, Running
      <4> QED
        BY <4>1, <3>1 DEF Alone, Others
    <3> QED
      BY <2>2, <3>1 DEF CheckPublic, Quiet
  <2> QED
    BY <2>1, <2>2
<1>3. PICK to \in {"check public", "load private", "open private"} :
        /\ pc' = [pc EXCEPT ![c] = to]
        /\ pc[c] \in {"start", "check public"}
        /\ to = "open private" => ~ Others(c) /\ (private = "absent" \/ public = "absent")
        /\ to = "check public" => private # "absent"
        /\ to = "load private" => pc[c] = "check public" /\ public # "absent"
        /\ Quiet
  BY <1>2
<1>4. \A o \in Client : pc'[o] = IF o = c THEN to ELSE pc[o]
  BY <1>3
<1>5. Alone'
  <2> SUFFICES ASSUME NEW o \in Client, pc'[o] \in Generating PROVE ~ Others(o)'
    BY DEF Alone
  <2>1. o = c /\ ~ Others(c)
    BY <1>3, <1>4 DEF Quiet
  <2> QED
    BY <2>1, <1>4 DEF Others, Running
<1>6. Files'
  BY <1>1, <1>3, <1>4 DEF Files, Quiet
<1>7. to # "open private" => Quiet'
  BY <1>3, <1>4 DEF Quiet
<1>8. to = "open private" => \A o \in Client : pc[o] \notin Loading
  BY <1>3, <1>4 DEF Seen, Quiet
<1>9. Seen'
  BY <1>1, <1>3, <1>4, <1>7, <1>8 DEF Seen, Files, Loading
<1> QED
  BY <1>5, <1>6, <1>9

(* A step of a generation: nobody else is running, nobody has loaded.      *)
LEMMA GenerateKeeps ==
  ASSUME TypeOK, TypeOK', Orderly, NEW c \in Client,
         OpenPrivate(c) \/ WritePrivate(c) \/ OpenPublic(c) \/ WritePublic(c)
  PROVE  Orderly'
<1> USE DEF TypeOK, Orderly
<1>1. /\ pc[c] \in Generating
      /\ \A o \in Client \ {c} : pc'[o] = pc[o]
      /\ UNCHANGED <<keypair, public_key>>
  BY DEF OpenPrivate, WritePrivate, OpenPublic, WritePublic
<1>2. \A o \in Client \ {c} : pc[o] \in {"start", "ready", "gone"}
  BY <1>1 DEF Alone, Others, Running
<1>3. \A o \in Client : pc[o] \notin Loading
  BY <1>1 DEF Seen, Quiet
<1>4. Alone'
  BY <1>1, <1>2 DEF Alone, Others, Running
<1>5. pc'[c] \in Generating \/ pc'[c] = "load private"
  BY DEF OpenPrivate, WritePrivate, OpenPublic, WritePublic
<1>6. c \notin {"absent", "empty"}
  BY ClientAssumption
<1>7. CASE WritePublic(c)
  <2>1. private' = c /\ public' = c /\ pc'[c] = "load private"
    BY <1>7 DEF WritePublic, Files
  <2>2. Quiet'
    BY <2>1, <1>1, <1>2 DEF Quiet
  <2> QED
    BY <1>1, <1>2, <1>3, <1>4, <1>6, <2>1, <2>2 DEF Files, Seen, Loading
<1>8. CASE OpenPrivate(c) \/ WritePrivate(c) \/ OpenPublic(c)
  <2>1. pc'[c] \in {"write private", "open public", "write public"}
    BY <1>8 DEF OpenPrivate, WritePrivate, OpenPublic
  <2>2. pc'[c] \in {"open public", "write public"} => private' = c
    BY <1>8 DEF OpenPrivate, WritePrivate, OpenPublic, Files
  <2>3. ~ Quiet'
    BY <2>1 DEF Quiet
  <2>4. Files'
    BY <1>1, <1>2, <2>1, <2>2, <2>3 DEF Files
  <2> QED
    BY <1>1, <1>2, <1>3, <1>4, <2>1, <2>4 DEF Seen, Loading
<1> QED
  BY <1>7, <1>8

(* A process that loads has the pair before it.                            *)
LEMMA LoadKeeps ==
  ASSUME TypeOK, TypeOK', Orderly, NEW c \in Client,
         LoadPrivate(c) \/ RejectPrivate(c) \/ LoadPublic(c)
  PROVE  Orderly'
<1> USE DEF TypeOK, Orderly
<1>1. /\ pc[c] \in {"load private", "load public"}
      /\ \A o \in Client \ {c} : pc'[o] = pc[o] /\ keypair'[o] = keypair[o]
                                  /\ public_key'[o] = public_key[o]
      /\ pc'[c] \in {"load public", "ready", "gone"}
      /\ UNCHANGED <<private, public>>
  BY DEF LoadPrivate, RejectPrivate, LoadPublic
<1>2. Quiet /\ private # "absent" /\ public = private
  BY <1>1 DEF Seen, Loading
<1>3. Quiet'
  BY <1>1, <1>2 DEF Quiet
<1>4. Alone'
  BY <1>3 DEF Alone, Quiet
<1>5. Files'
  BY <1>1, <1>2, <1>3 DEF Files, Quiet
<1>6. /\ pc'[c] \in {"load public", "ready"} => keypair'[c] = private
      /\ pc'[c] = "ready" => public_key'[c] = private
  <2>1. CASE LoadPrivate(c)
    BY <2>1 DEF LoadPrivate
  <2>2. CASE RejectPrivate(c)
    BY <2>2 DEF RejectPrivate
  <2>3. CASE LoadPublic(c)
    BY <2>3, <1>2 DEF LoadPublic, Seen
  <2> QED
    BY <2>1, <2>2, <2>3
<1>7. Seen'
  BY <1>1, <1>2, <1>3, <1>6 DEF Seen, Loading
<1> QED
  BY <1>4, <1>5, <1>7

(* A process that ends outside a generation takes nothing with it.         *)
LEMMA DieKeeps ==
  ASSUME TypeOK, TypeOK', Orderly, ~ disturbed', NEW c \in Client, Die(c)
  PROVE  Orderly'
<1> USE DEF TypeOK, Orderly
<1>1. /\ pc[c] \notin Generating /\ pc'[c] = "gone"
      /\ \A o \in Client \ {c} : pc'[o] = pc[o]
      /\ UNCHANGED <<private, public, keypair, public_key>>
  BY DEF Die
<1>2. Quiet' <=> Quiet
  BY <1>1 DEF Quiet
<1>3. Alone'
  BY <1>1 DEF Alone, Others, Running
<1>4. Files' /\ Seen'
  BY <1>1, <1>2 DEF Files, Seen, Loading
<1> QED
  BY <1>3, <1>4

(* One case for each kind of step.                                         *)
LEMMA InvStep == Inv /\ [Next]_vars => Inv'
<1> SUFFICES ASSUME Inv, [Next]_vars PROVE Inv'
  OBVIOUS
<1>1. TypeOK /\ TypeOK'
  BY TypeStep DEF Inv
<1>2. ASSUME ~ disturbed' PROVE Orderly'
  <2>1. ASSUME NEW c \in Client, Step(c) \/ Die(c) PROVE disturbed => disturbed'
    BY <2>1, Zenon DEF Step, Die, CheckPrivate, CheckPublic, OpenPrivate, WritePrivate,
       OpenPublic, WritePublic, LoadPrivate, RejectPrivate, LoadPublic
  <2>2. Orderly
    BY <1>2, <2>1 DEF Inv, Next, vars
  <2>3. CASE UNCHANGED vars
    BY <2>2, <2>3 DEF vars, Orderly, Alone, Others, Running, Files, Seen, Quiet, Loading
  <2> QED
    BY <1>1, <1>2, <2>2, <2>3, LookKeeps, GenerateKeeps, LoadKeeps, DieKeeps DEF Next, Step
<1> QED
  BY <1>1, <1>2 DEF Inv

-----------------------------------------------------------------------------
(* The types, and what an undisturbed store keeps at every step.           *)
THEOREM Invariant == Spec => []Inv
  BY InvInit, InvStep, PTL DEF Spec

(* No file that is loaded for signing is anything but a whole key.         *)
THEOREM TypeCorrect == Spec => []TypeOK
  BY Invariant, PTL DEF Inv

(* However many runs of the client there are, those that are ready to sign *)
(* do it with one key, unless a generation was disturbed.                  *)
THEOREM SameKey == Spec => []OneIdentity
<1>1. Inv => OneIdentity
  BY DEF Inv, Orderly, Seen, OneIdentity
<1> QED
  BY <1>1, Invariant, PTL

(* And the key they announce is that key's other half, as are the files.   *)
THEOREM Paired == Spec => []PairIfUndisturbed
<1>1. Inv => PairIfUndisturbed
  BY ClientAssumption DEF Inv, TypeOK, Orderly, Files, Seen, PairIfUndisturbed, Key
<1> QED
  BY <1>1, Invariant, PTL

(* Nobody writes the files once both exist and no generation is under way, *)
(* disturbed or not.                                                       *)
THEOREM Final == Spec => IdentityStable
<1>1. TypeOK /\ [Next]_vars /\ Quiet /\ private # "absent" /\ public # "absent"
        => Quiet' /\ UNCHANGED <<private, public>>
  <2> SUFFICES ASSUME TypeOK, [Next]_vars, Quiet, private # "absent", public # "absent"
               PROVE  Quiet' /\ UNCHANGED <<private, public>>
    OBVIOUS
  <2> USE DEF TypeOK, Quiet
  <2>1. ASSUME NEW c \in Client, Step(c) \/ Die(c)
        PROVE  Quiet' /\ UNCHANGED <<private, public>>
    <3>1. CASE CheckPrivate(c) \/ CheckPublic(c)
      BY <3>1 DEF CheckPrivate, CheckPublic, AfterPrivate
    <3>2. CASE LoadPrivate(c) \/ RejectPrivate(c) \/ LoadPublic(c) \/ Die(c)
      BY <3>2 DEF LoadPrivate, RejectPrivate, LoadPublic, Die
    <3>3. CASE OpenPrivate(c) \/ WritePrivate(c) \/ OpenPublic(c) \/ WritePublic(c)
      BY <3>3 DEF OpenPrivate, WritePrivate, OpenPublic, WritePublic
    <3> QED
      BY <2>1, <3>1, <3>2, <3>3 DEF Step
  <2> QED
    BY <2>1 DEF Next, vars
<1> QED
  BY <1>1, TypeCorrect, PTL DEF Spec, IdentityStable
===============================================================================
