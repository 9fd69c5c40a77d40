------------------------------ MODULE Admission ------------------------------
(***************************************************************************)
(* The checks AdeployService::deploy makes on a call before it touches the *)
(* disk (src/src/server.rs 41-113), as operators on the server's           *)
(* configuration and the body of the request.                              *)
(*                                                                         *)
(* Keys, packages, directories and file names are opaque.  An archive is   *)
(* the set of files it holds; whether its digest is the one the request    *)
(* announces, and whether its signature is one over these bytes by the     *)
(* public key it comes with, are attributes of the body.                   *)
(***************************************************************************)
EXTENDS Naturals

CONSTANTS Package,    \* package names a call may carry
          Key,        \* base64 public keys, compared as strings
          File,       \* names of files inside a deploy directory
          Dir,        \* deploy_path values
          BackupDir,  \* backup_path values
          Config,     \* the server configurations an operator may write
          Body        \* the request bodies a client may send

(* ServerPackageConfig.  backup_path is an Option: "none" is its None.     *)
Plan == [deploy_path    : Dir,
         backup_enabled : BOOLEAN,
         backup_path    : BackupDir \cup {"none"},
         before_deploy_script : BOOLEAN,
         after_deploy_script  : BOOLEAN]

ServerConfig == [allowed_keys  : SUBSET Key,
                 max_file_size : Nat,
                 packages      : UNION {[P -> Plan] : P \in SUBSET Package}]

(* DeployRequest: "garbled" is a signature that is not base64, "invalid"   *)
(* one that does not verify, the malformed keys and signatures for which   *)
(* verify_signature returns an error included.                             *)
DeployRequest == [package_name : Package,
                  public_key   : Key,
                  signature    : {"garbled", "invalid", "valid"},
                  size         : Nat,
                  hash_matches : BOOLEAN,
                  entries      : SUBSET File]

ASSUME ConfigAssumption == Config \subseteq ServerConfig /\ Config # {}
ASSUME BodyAssumption   == Body \subseteq DeployRequest
ASSUME NoneAssumption   == "none" \notin BackupDir

-----------------------------------------------------------------------------
KeyAllowed(c, b) == b.public_key \in c.allowed_keys

SignatureValid(b) == b.signature = "valid"

Configured(c, b) == b.package_name \in DOMAIN c.packages

(* max_file_size 0 switches this check off.                                *)
TooLarge(c, b) == c.max_file_size > 0 /\ b.size > c.max_file_size

(* The status the call ends with, or "admit"; the order is the code's.     *)
Verdict(c, b) ==
  IF b.signature = "garbled" THEN "invalid_argument"
  ELSE IF ~ KeyAllowed(c, b) \/ ~ SignatureValid(b) THEN "unauthenticated"
  ELSE IF ~ Configured(c, b) THEN "not_found"
  ELSE IF TooLarge(c, b) THEN "resource_exhausted"
  ELSE "admit"

Refusals == {"invalid_argument", "unauthenticated", "not_found", "resource_exhausted"}
=============================================================================
