-------------------------------- MODULE KeyStore --------------------------------
(***************************************************************************)
(* The client's signing identity: the files .key/id_ed25519 and            *)
(* .key/id_ed25519.pub next to the binary (src/src/config.rs get_key_paths,*)
(* src/src/auth.rs, src/src/client.rs prepare_auth_resources).             *)
(*                                                                         *)
(* Every client process looks for both files, generates a pair when one is *)
(* missing, and then reads both back.  Processes run concurrently, may be  *)
(* killed at every step, and nothing locks the files.                      *)
(*                                                                         *)
(* A key is named after who made it: a client process, or "provisioned"    *)
(* for one that was there before.                                          *)
(***************************************************************************)
CONSTANTS Client,     \* the runs of the client program; each is one process
          HalfStored  \* may an installation start with only one of the files

ASSUME HalfAssumption   == HalfStored \in BOOLEAN
ASSUME ClientAssumption == Client \cap {"provisioned", "absent", "empty"} = {}

Key == Client \cup {"provisioned"}
KeyFile == Key \cup {"absent", "empty"}

VARIABLES
  private,   \* .key/id_ed25519
  public,    \* .key/id_ed25519.pub
  pc,        \* where each process is
  keypair,   \* the signing key a process has loaded, or "absent"
  public_key,\* the public key string it has loaded; "empty" is the empty string
  disturbed  \* history: generation was interrupted or met another process

vars == <<private, public, pc, keypair, public_key, disturbed>>

Generating == {"open private", "write private", "open public", "write public"}
Places == {"start", "check public", "load private", "load public", "ready", "gone"}
            \cup Generating

(* The types.  A key that is loaded for signing is a whole one: a private  *)
(* file caught empty between truncation and write is never taken for a key.*)
TypeOK ==
  /\ private \in KeyFile
  /\ public \in KeyFile
  /\ pc \in [Client -> Places]
  /\ keypair \in [Client -> Key \cup {"absent"}]
  /\ public_key \in [Client -> Key \cup {"absent", "empty"}]
  /\ disturbed \in BOOLEAN

(* A fresh installation, a provisioned one, or one that has lost a file.   *)
Init ==
  /\ private \in {"absent", "provisioned"}
  /\ public \in {"absent", "provisioned"}
  /\ HalfStored \/ public = private
  /\ pc = [c \in Client |-> "start"]
  /\ keypair = [c \in Client |-> "absent"]
  /\ public_key = [c \in Client |-> "absent"]
  /\ disturbed = FALSE

-----------------------------------------------------------------------------
Running(c) == pc[c] \notin {"start", "ready", "gone"}
Move(c, from, to) == pc[c] = from /\ pc' = [pc EXCEPT ![c] = to]
Others(c) == \E o \in Client \ {c} : Running(o)
Loaded == <<keypair, public_key>>

(* Path::exists on either file; get_key_paths generates unless both are.   *)
MutAfterPrivate == "open private"
AfterPrivate == IF private = "absent" THEN "open private" ELSE "check public"

CheckPrivate(c) ==
  /\ Move(c, "start", AfterPrivate)
  /\ disturbed' = \/ disturbed
                  \/ \E o \in Client : pc[o] \in Generating
                  \/ private = "absent" /\ Others(c)
  /\ UNCHANGED <<private, public, Loaded>>

CheckPublic(c) ==
  /\ Move(c, "check public", IF public = "absent" THEN "open private" ELSE "load private")
  /\ disturbed' = (disturbed \/ (public = "absent" /\ Others(c)))
  /\ UNCHANGED <<private, public, Loaded>>

(* generate_key_pair: each file is truncated, then written.                *)
OpenPrivate(c) ==
  /\ Move(c, "open private", "write private")
  /\ private' = "empty"
  /\ UNCHANGED <<public, Loaded, disturbed>>

WritePrivate(c) ==
  /\ Move(c, "write private", "open public")
  /\ private' = c
  /\ UNCHANGED <<public, Loaded, disturbed>>

MutOpenPublic(c) ==
  /\ Move(c, "open public", IF public = "absent" THEN "write public" ELSE "load private")
  /\ public' = IF public = "absent" THEN "empty" ELSE public
  /\ UNCHANGED <<private, Loaded, disturbed>>
OpenPublic(c) ==
  /\ Move(c, "open public", "write public")
  /\ public' = "empty"
  /\ UNCHANGED <<private, Loaded, disturbed>>

WritePublic(c) ==
  /\ Move(c, "write public", "load private")
  /\ public' = c
  /\ UNCHANGED <<private, Loaded, disturbed>>

(* load_key_pair accepts 32 bytes and nothing else.                        *)
MutRightLength(bytes) == TRUE
RightLength(bytes) == bytes \in Key

LoadPrivate(c) ==
  /\ RightLength(private)
  /\ Move(c, "load private", "load public")
  /\ keypair' = [keypair EXCEPT ![c] = private]
  /\ UNCHANGED <<private, public, public_key, disturbed>>

RejectPrivate(c) ==
  /\ ~ RightLength(private)
  /\ Move(c, "load private", "gone")
  /\ UNCHANGED <<private, public, Loaded, disturbed>>

(* load_public_key takes the text as it is, and never looks whether it     *)
(* belongs to the signing key.                                             *)
LoadPublic(c) ==
  /\ Move(c, "load public", "ready")
  /\ public_key' = [public_key EXCEPT ![c] = public]
  /\ UNCHANGED <<private, public, keypair, disturbed>>

(* The process is killed, or one of its file operations fails.             *)
Die(c) ==
  /\ Running(c)
  /\ pc' = [pc EXCEPT ![c] = "gone"]
  /\ disturbed' = (disturbed \/ pc[c] \in Generating)
  /\ UNCHANGED <<private, public, Loaded>>

Step(c) ==
  \/ CheckPrivate(c) \/ CheckPublic(c)
  \/ OpenPrivate(c) \/ WritePrivate(c) \/ OpenPublic(c) \/ WritePublic(c)
  \/ LoadPrivate(c) \/ RejectPrivate(c) \/ LoadPublic(c)

Next == \E c \in Client : Step(c) \/ Die(c)

Spec == Init /\ [][Next]_vars

-----------------------------------------------------------------------------
(* Properties.                                                             *)
Quiet == \A c \in Client : pc[c] \notin Generating

(* All clients that are ready to sign have one identity, as long as no     *)
(* generation was interrupted and none ran beside another process: later   *)
(* runs use the key of the first one.                                      *)
OneIdentity ==
  ~ disturbed =>
    \A c, o \in Client : pc[c] = "ready" /\ pc[o] = "ready" => keypair[c] = keypair[o]

(* As long as no generation was interrupted and none ran beside another    *)
(* process, a ready client's two keys belong together, and so do the files *)
(* between generations.                                                    *)
PairIfUndisturbed ==
  ~ disturbed =>
    /\ \A c \in Client : pc[c] = "ready" => public_key[c] = keypair[c]
    /\ (Quiet /\ private \in Key /\ public # "absent") => public = private

(* The files are final once both exist and nobody is generating, a pair or *)
(* not: no process ever decides to generate again, so what two first runs  *)
(* have left is neither replaced nor mended.                               *)
IdentityStable ==
  [][Quiet /\ private # "absent" /\ public # "absent"
       => Quiet' /\ UNCHANGED <<private, public>>]_vars

(* "Generate an Ed25519 key pair and save it to disk" (src/src/auth.rs):   *)
(* what is on the disk when nobody is generating is a pair.  Fails for two *)
(* first runs at once; nothing mends it afterwards.                        *)
StoredPairMatches ==
  Quiet /\ private \in Key /\ public \in Key => public = private
=============================================================================
