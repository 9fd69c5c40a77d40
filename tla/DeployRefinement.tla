---------------------------- MODULE DeployRefinement ----------------------------
(***************************************************************************)
(* DeployServer implements DeployContract.  The mapping hides stages,      *)
(* scripts, configurations and snapshots; a call is abandoned as long as a *)
(* blocking task of its dropped handler runs, and gone afterwards.         *)
(***************************************************************************)
EXTENDS DeployServer

Phase(r) ==
  IF answer[r] = "none" THEN IF pc[r] = "new" THEN "new" ELSE "accepted"
  ELSE IF answer[r] = "ok" THEN "deployed"
  ELSE IF answer[r] = "failed" THEN "failed"
  ELSE IF answer[r] = "lost" THEN IF job[r] = "none" THEN "gone" ELSE "abandoned"
  ELSE "refused"

Target(r)  == IF Admitted(r) THEN PlanOf(r).deploy_path ELSE "none"
Archive(r) == IF Admitted(r) THEN body[r].entries ELSE {}

(* The entries of the archive that tar has written out.                    *)
Finished(r) ==
  IF job[r] = "unpack" THEN body[r].entries \ todo[r]
  ELSE IF pc[r] = "after" \/ answer[r] = "ok" THEN body[r].entries
  ELSE {}

phase    == [r \in Request |-> Phase(r)]
target   == [r \in Request |-> Target(r)]
archive  == [r \in Request |-> Archive(r)]
finished == [r \in Request |-> Finished(r)]

Contract == INSTANCE DeployContract WITH Call <- Request

(* Every behaviour of the server, with its faults, crashes, reloads and    *)
(* concurrent calls, is one that the contract allows.                      *)
Implements == Contract!Spec

-----------------------------------------------------------------------------
(* What the refinement needs besides Discipline: while a task is writing   *)
(* an entry, the file is its own unfinished one, unless another call has   *)
(* replaced it.                                                            *)
StillThere(r) ==
  opened[r] # NoFile =>
    \/ Live(r)[opened[r]] = Torn(r)
    \/ Live(r)[opened[r]].by \in Request \ {r}

EntriesStillThere == \A r \in Request : StillThere(r)
=============================================================================
