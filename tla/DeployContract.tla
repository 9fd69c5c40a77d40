----------------------------- MODULE DeployContract -----------------------------
(***************************************************************************)
(* What the clients of the Deploy RPC may rely on, without stages, tasks,  *)
(* scripts, configurations or server processes (src/src/server.rs deploy,  *)
(* src/src/deploy.rs extract_files).                                       *)
(*                                                                         *)
(* A call is accepted once, for one directory and one archive.  From then  *)
(* on its files may show up there one by one, in any order, mixed with     *)
(* those of other calls.  A call is answered "deployed" only after each of *)
(* its files was written out to the end; one that is answered touches      *)
(* nothing any more.  A call whose client gave up is abandoned: the server *)
(* may go on with it, until it has gone.                                   *)
(***************************************************************************)
CONSTANTS Call, Dir, File

VARIABLES disk,      \* the deploy directories: who wrote a file, and was it all
          phase,     \* of each call
          target,    \* the directory it was accepted for
          archive,   \* the files it was accepted with
          finished   \* those written out to the end

vars == <<disk, phase, target, archive, finished>>

Torn(c)  == [by |-> c, whole |-> FALSE]
Whole(c) == [by |-> c, whole |-> TRUE]

Phases == {"new", "refused", "accepted", "abandoned", "deployed", "failed", "gone"}

(* The types; the archive of a call counts from its acceptance on.         *)
TypeOK ==
  /\ DOMAIN disk = Dir /\ \A d \in Dir : DOMAIN disk[d] = File
  /\ phase \in [Call -> Phases]
  /\ target \in [Call -> Dir \cup {"none"}]
  /\ archive \in [Call -> SUBSET File]
  /\ finished \in [Call -> SUBSET File]

Init ==
  /\ DOMAIN disk = Dir
  /\ \A d \in Dir : DOMAIN disk[d] = File /\ \A f \in File : disk[d][f].by \notin Call
  /\ phase = [c \in Call |-> "new"]
  /\ target = [c \in Call |-> "none"]
  /\ archive = [c \in Call |-> {}]
  /\ finished = [c \in Call |-> {}]

-----------------------------------------------------------------------------
Become(c, from, to) == phase[c] \in from /\ phase' = [phase EXCEPT ![c] = to]

Refuse(c) ==
  /\ Become(c, {"new"}, "refused")
  /\ UNCHANGED <<disk, target, archive, finished>>

Accept(c) ==
  /\ Become(c, {"new"}, "accepted")
  /\ \E d \in Dir : target' = [target EXCEPT ![c] = d]
  /\ \E files \in SUBSET File : archive' = [archive EXCEPT ![c] = files]
  /\ UNCHANGED <<disk, finished>>

Writing(c, f) == phase[c] \in {"accepted", "abandoned"} /\ f \in archive[c] \ finished[c]

Open(c, f) ==
  /\ Writing(c, f)
  /\ disk' = [disk EXCEPT ![target[c]][f] = Torn(c)]
  /\ UNCHANGED <<phase, target, archive, finished>>

(* A file that another call has replaced meanwhile is written out unseen.  *)
Close(c, f) ==
  /\ Writing(c, f)
  /\ \/ /\ disk[target[c]][f] = Torn(c)
        /\ disk' = [disk EXCEPT ![target[c]][f] = Whole(c)]
     \/ /\ disk[target[c]][f].by \in Call \ {c}
        /\ UNCHANGED disk
  /\ finished' = [finished EXCEPT ![c] = @ \cup {f}]
  /\ UNCHANGED <<phase, target, archive>>

Complete(c) == finished[c] = archive[c]

Succeed(c) ==
  /\ Become(c, {"accepted"}, "deployed")
  /\ Complete(c)
  /\ UNCHANGED <<disk, target, archive, finished>>

Forget(c) == finished' = [finished EXCEPT ![c] = {}]

Fail(c) ==
  /\ Become(c, {"accepted"}, "failed")
  /\ Forget(c)
  /\ UNCHANGED <<disk, target, archive>>

Abandon(c) ==
  /\ Become(c, {"accepted"}, "abandoned")
  /\ UNCHANGED <<disk, target, archive, finished>>

Leave(c) ==
  /\ Become(c, {"accepted", "abandoned"}, "gone")
  /\ Forget(c)
  /\ UNCHANGED <<disk, target, archive>>

(* The server goes down: every call it was at is gone.                     *)
Halt ==
  LET lost == {c \in Call : phase[c] \in {"accepted", "abandoned"}}
  IN /\ phase' = [c \in Call |-> IF c \in lost THEN "gone" ELSE phase[c]]
     /\ finished' = [c \in Call |-> IF c \in lost THEN {} ELSE finished[c]]
     /\ UNCHANGED <<disk, target, archive>>

CallStep(c) ==
  \/ Refuse(c) \/ Accept(c) \/ \E f \in File : Open(c, f) \/ Close(c, f)
  \/ Succeed(c) \/ Fail(c) \/ Abandon(c) \/ Leave(c)

Next == Halt \/ \E c \in Call : CallStep(c)

Spec == Init /\ [][Next]_vars

-----------------------------------------------------------------------------
(* A file that a call has written is in the directory and of the archive   *)
(* the call was accepted for.                                              *)
InItsPlace ==
  \A d \in Dir, f \in File, c \in Call : disk[d][f].by = c =>
    target[c] = d /\ f \in archive[c]

(* What a call has finished is there, whole, or another call's by now.     *)
Kept(c, f) == \/ disk[target[c]][f] = Whole(c)
              \/ disk[target[c]][f].by \in Call \ {c}

(* A client that is told "deployed" finds every file of its archive whole  *)
(* in the directory, or replaced by another call's; none of its files is   *)
(* half written.                                                           *)
DeployedIsWhole ==
  \A c \in Call : phase[c] = "deployed" =>
    /\ \A f \in archive[c] : Kept(c, f)
    /\ \A d \in Dir, f \in File : disk[d][f] # Torn(c)
=============================================================================
