---------------------------- MODULE MCDeployServer ----------------------------
(* DeployServer for TLC: two calls, two packages, two keys, one or two     *)
(* directories of two files.                                               *)
EXTENDS DeployRefinement, TLC

CONSTANTS r1, r2, k1, k2, f1, f2, d1, d2, b1

MCRequest   == {r1, r2}
MCPackage   == {"app", "lib"}
MCKey       == {k1, k2}
MCFile      == {f1, f2}
MCDir       == {d1, d2}
OneFile     == {f1}
OneDir      == {d1}
MCBackupDir == {b1}

plan(d, backup, path, before, after) ==
  [deploy_path |-> d, backup_enabled |-> backup, backup_path |-> path,
   before_deploy_script |-> before, after_deploy_script |-> after]

server(keys, limit, packages) ==
  [allowed_keys |-> keys, max_file_size |-> limit, packages |-> packages]

request(package, key, signature, size, matches, files) ==
  [package_name |-> package, public_key |-> key, signature |-> signature,
   size |-> size, hash_matches |-> matches, entries |-> files]

(* The operator moves app to another directory, changes its backup and its *)
(* scripts, withdraws lib and lets another key in.                         *)
Original == server({k1}, 2,
  [p \in MCPackage |-> IF p = "app" THEN plan(d1, TRUE, b1, TRUE, FALSE)
                                    ELSE plan(d1, FALSE, "none", FALSE, TRUE)])
Edited == server({k2}, 0, [p \in {"app"} |-> plan(d2, TRUE, "none", FALSE, TRUE)])

Both      == request("app", k1, "valid", 2, TRUE, {f1, f2})
ByOther   == request("app", k2, "valid", 3, TRUE, {f1})
One       == request("app", k1, "valid", 2, TRUE, {f1})
Lib       == request("lib", k1, "valid", 1, TRUE, {f1})
LibOther  == request("lib", k1, "valid", 1, TRUE, {f2})
Corrupted == request("app", k1, "valid", 2, FALSE, {f1})
Forged    == request("app", k1, "invalid", 1, TRUE, {f1})
Garbled   == request("app", k1, "garbled", 1, TRUE, {f1})
Huge      == request("lib", k1, "valid", 3, TRUE, {f1})

AdmissionConfigs == {Original, Edited}
AdmissionBodies  == {One, ByOther, Lib, Corrupted, Forged, Garbled, Huge}

(* Two packages that share a directory; one has a backup_path, the other   *)
(* the default.  after: does the first have an after script.               *)
Shared(after) == server({k1}, 0,
  [p \in MCPackage |-> IF p = "app" THEN plan(d1, TRUE, b1, TRUE, after)
                                    ELSE plan(d1, TRUE, "none", FALSE, FALSE)])

DiskConfigs == {Shared(FALSE)}
LiveConfigs == {Shared(TRUE)}
DiskBodies  == {Both, LibOther}
LiveBodies  == {One, LibOther}

CallSymmetry == Permutations(MCRequest)
=============================================================================
