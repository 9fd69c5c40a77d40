--------------------------- MODULE DeployContractProofs ---------------------------
(***************************************************************************)
(* What follows from the contract alone, for any calls, directories and    *)
(* files.                                                                  *)
(***************************************************************************)
EXTENDS DeployContract, TLAPS

(* A file has one writer, a call that was accepted for it, and what calls  *)
(* have finished stays theirs until another call replaces it.              *)
Inv ==
  /\ TypeOK
  /\ InItsPlace
  /\ \A c \in Call : phase[c] \in {"new", "refused"} => archive[c] = {} /\ finished[c] = {}
  /\ \A c \in Call : phase[c] \notin {"new", "refused"} => target[c] \in Dir
  /\ \A c \in Call : finished[c] \subseteq archive[c]
  /\ \A c \in Call : \A f \in finished[c] : Kept(c, f)
  /\ \A c \in Call : phase[c] = "deployed" => Complete(c)

(* Nothing was written by a call before the first one is accepted.         *)
LEMMA InvInit == Init => Inv
BY DEF Init, Inv, TypeOK, Phases, InItsPlace

(* Every step of every call keeps the invariant.                           *)
LEMMA InvStep == Inv /\ [Next]_vars => Inv'
<1> SUFFICES ASSUME Inv, [Next]_vars PROVE Inv'
  OBVIOUS
<1> USE DEF Inv, TypeOK, InItsPlace, Kept, Complete, Phases, Become, Forget
<1>1. ASSUME NEW c \in Call, Refuse(c) PROVE Inv'
  BY <1>1 DEF Refuse
<1>2. ASSUME NEW c \in Call, Accept(c) PROVE Inv'
  BY <1>2 DEF Accept
<1>3. ASSUME NEW c \in Call, NEW f \in File, Open(c, f) PROVE Inv'
  BY <1>3 DEF Open, Writing, Torn, Whole
<1>4. ASSUME NEW c \in Call, NEW f \in File, Close(c, f) PROVE Inv'
  <2>1. f \in archive[c] /\ target[c] \in Dir
    BY <1>4 DEF Close, Writing
  <2>2. /\ phase' = phase /\ target' = target /\ archive' = archive
        /\ finished' = [finished EXCEPT ![c] = @ \cup {f}]
        /\ phase[c] \in {"accepted", "abandoned"}
    BY <1>4 DEF Close, Writing
  <2>3. CASE disk' = disk /\ disk[target[c]][f].by \in Call \ {c}
    BY <2>1, <2>2, <2>3
  <2>4. CASE disk[target[c]][f] = Torn(c) /\ disk' = [disk EXCEPT ![target[c]][f] = Whole(c)]
    <3>1. TypeOK' /\ InItsPlace'
      BY <2>1, <2>2, <2>4 DEF Whole
    <3>2. ASSUME NEW o \in Call, NEW g \in finished'[o] PROVE Kept(o, g)'
      <4>1. g \in File /\ target[o] \in Dir
        BY <2>2
      <4>2. CASE o = c /\ g = f
        BY <2>1, <2>2, <2>4, <4>2
      <4>3. CASE ~ (o = c /\ g = f)
        <5>1. g \in finished[o] /\ Kept(o, g)
          BY <2>2, <4>3
        <5>2. CASE target[o] = target[c] /\ g = f
          BY <2>1, <2>2, <2>4, <4>3, <5>1, <5>2 DEF Torn, Whole
        <5>3. CASE ~ (target[o] = target[c] /\ g = f)
          <6>1. disk'[target[o]][g] = disk[target[o]][g]
            BY <2>1, <2>4, <4>1, <5>3
          <6>2. QED BY <2>2, <5>1, <6>1
        <5>4. QED BY <5>2, <5>3
      <4>4. QED BY <4>2, <4>3
    <3>3. QED BY <2>1, <2>2, <3>1, <3>2
  <2>5. QED BY <1>4, <2>3, <2>4 DEF Close
<1>5. ASSUME NEW c \in Call, Succeed(c) PROVE Inv'
  BY <1>5 DEF Succeed
<1>6. ASSUME NEW c \in Call, Fail(c) PROVE Inv'
  BY <1>6 DEF Fail
<1>7. ASSUME NEW c \in Call, Abandon(c) PROVE Inv'
  BY <1>7 DEF Abandon
<1>8. ASSUME NEW c \in Call, Leave(c) PROVE Inv'
  BY <1>8 DEF Leave
<1>9. CASE Halt
  BY <1>9 DEF Halt
<1>10. CASE UNCHANGED vars
  BY <1>10 DEF vars
<1>11. QED
  BY <1>1, <1>2, <1>3, <1>4, <1>5, <1>6, <1>7, <1>8, <1>9, <1>10 DEF Next, CallStep

(* The contract is worth having: a client that is told "deployed" finds    *)
(* its files whole, but for those another call has replaced.               *)
THEOREM Promise == Spec => [](InItsPlace /\ DeployedIsWhole)
<1>1. Spec => []Inv
  BY InvInit, InvStep, PTL DEF Spec
<1>2. Inv => InItsPlace /\ DeployedIsWhole
  <2> SUFFICES ASSUME Inv PROVE DeployedIsWhole
    BY DEF Inv
  <2>1. ASSUME NEW c \in Call, phase[c] = "deployed", NEW f \in archive[c] PROVE Kept(c, f)
    BY <2>1 DEF Inv, Complete
  <2>2. ASSUME NEW c \in Call, phase[c] = "deployed", NEW d \in Dir, NEW f \in File,
               disk[d][f] = Torn(c)
        PROVE  FALSE
    <3>1. target[c] = d /\ f \in archive[c]
      BY <2>2 DEF Inv, InItsPlace, Torn
    <3>2. Kept(c, f)
      BY <2>1, <2>2, <3>1
    <3>3. QED BY <2>2, <3>1, <3>2 DEF Kept, Torn, Whole
  <2>3. QED BY <2>1, <2>2 DEF DeployedIsWhole
<1>3. QED BY <1>1, <1>2, PTL
=============================================================================
