-------------------------------- MODULE Limits --------------------------------
(***************************************************************************)
(* The bounds an archive passes on its way: the client's own, that of the  *)
(* message it is sent in, that of the messages the server decodes.         *)
(***************************************************************************)
EXTENDS Naturals

CONSTANTS DefaultLimit,  \* DEFAULT_MAX_MESSAGE_SIZE, in client and server
          UsizeMax,      \* the largest message a build can hold
          Overhead       \* what the other fields add to the archive in a message

ASSUME LimitsAssumption ==
  /\ DefaultLimit \in Nat \ {0} /\ UsizeMax \in Nat \ {0} /\ Overhead \in Nat \ {0}

(* RemoteConfig::max_file_size is an Option: None and Some(0) are both 0.  *)
resolved_max_file_size(limit) == IF limit = 0 THEN DefaultLimit ELSE limit

clamp_message_limit(limit) == IF limit > UsizeMax THEN UsizeMax ELSE limit

MutResolveMessageLimit(limit) == clamp_message_limit(limit)
resolve_message_limit(limit) == clamp_message_limit(resolved_max_file_size(limit))

(* The encoder of the client and the decoder of the server look at the     *)
(* message, not at the archive.                                            *)
Fits(size, limit) == size + Overhead <= limit

enforce_client_archive_size(size, limit) == limit > 0 => size <= limit

(* The check of the deploy handler; 0 switches it off.                     *)
TooLarge(size, limit) == limit > 0 /\ size > limit
===============================================================================
