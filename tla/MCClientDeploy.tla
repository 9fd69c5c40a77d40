---------------------------- MODULE MCClientDeploy ----------------------------
(* ClientDeploy for TLC: two runs of up to two packages, one directory.    *)
EXTENDS ClientDeploy, TLC

CONSTANTS r1, r2, s1, s2, f1, f2, d1

MCRun     == {r1, r2}
OneRun    == {r1}
MCPackage == {"app", "lib", "typo"}
MCHost    == {"alpha", "beta"}
MCSource  == {s1, s2}
MCFile    == {f1, f2}
MCDir     == {d1}

(* s1 is a directory of both files, s2 one of these files by itself.       *)
MCEntries == [s \in MCSource |-> IF s = s1 THEN {f1, f2} ELSE {f2}]

(* The first deploys two packages and has the default limit and a timeout. *)
(* The second deploys one; it has a remote for alpha only, without a       *)
(* timeout and with a limit that an archive of size 7 is within, its       *)
(* message not.                                                            *)
MCLine == [r \in MCRun |-> IF r = r1 THEN <<"app", "typo", "lib">> ELSE <<"lib">>]

remoteConfig(timeout, limit) == [timeout |-> timeout, max_file_size |-> limit]

packages == [p \in {"app", "lib"} |-> IF p = "app" THEN <<s2>> ELSE <<s1, s2>>]

MCClientConfig == [r \in MCRun |->
  {[packages |-> packages,
    remotes  |-> IF r = r1 THEN "default" :> remoteConfig(30, 0)
                           ELSE "alpha" :> remoteConfig(0, 7)]}]
===============================================================================
