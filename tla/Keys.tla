--------------------------------- MODULE Keys ---------------------------------
(***************************************************************************)
(* receipt.get_or_create_signing_key as several threads and processes run  *)
(* it: the look at the key file, the read, and the creation of a missing   *)
(* one (open with O_TRUNC, then write) are separate steps and no lock      *)
(* covers them.  A seed is named after the user that drew it.              *)
(***************************************************************************)
CONSTANTS Users,   \* threads and processes that sign with one key file
          NoKey, EmptyKey,  \* what the key file is when it holds no seed
          NoSeed

ASSUME KeysAssumption == {NoKey, EmptyKey, NoSeed} \cap Users = {} /\ NoKey # EmptyKey

VARIABLES
  keyFile,  \* NoKey (absent), EmptyKey (opened and not yet written) or a seed
  signing,  \* where each user is
  seed,     \* the seed it came away with
  raced     \* history: a user found the file absent while another was creating it

keyVars == <<keyFile, signing, seed, raced>>

SigningStages == {"idle", "read", "open", "write", "ready", "key_error"}
Creating(u) == signing[u] \in {"open", "write"}
InHand(u) == signing[u] \in {"read", "open", "write"}

KeysInit ==
  /\ keyFile = NoKey
  /\ signing = [u \in Users |-> "idle"]
  /\ seed = [u \in Users |-> NoSeed]
  /\ raced = FALSE

Sets(u, stage) == signing' = [signing EXCEPT ![u] = stage]

(* Mutant of LookForKey: a file without a usable key is created again. *)
LookForUsableKey(u) ==
  /\ signing[u] = "idle"
  /\ Sets(u, IF keyFile \in {NoKey, EmptyKey} THEN "open" ELSE "read")
  /\ raced' = (raced \/ (keyFile = NoKey /\ \E v \in Users \ {u} : Creating(v)))
  /\ UNCHANGED <<keyFile, seed>>

(* key_path.exists() *)
LookForKey(u) ==
  /\ signing[u] = "idle"
  /\ Sets(u, IF keyFile = NoKey THEN "open" ELSE "read")
  /\ raced' = (raced \/ (keyFile = NoKey /\ \E v \in Users \ {u} : Creating(v)))
  /\ UNCHANGED <<keyFile, seed>>

(* A file that holds no key is an error, never a reason for a new key. *)
ReadKey(u) ==
  /\ signing[u] = "read"
  /\ IF keyFile = EmptyKey
       THEN Sets(u, "key_error") /\ UNCHANGED seed
       ELSE Sets(u, "ready") /\ seed' = [seed EXCEPT ![u] = keyFile]
  /\ UNCHANGED <<keyFile, raced>>

OpenKey(u) ==
  /\ signing[u] = "open"
  /\ keyFile' = EmptyKey
  /\ Sets(u, "write")
  /\ UNCHANGED <<seed, raced>>

WriteKey(u) ==
  /\ signing[u] = "write"
  /\ keyFile' = u
  /\ seed' = [seed EXCEPT ![u] = u]
  /\ Sets(u, "ready")
  /\ UNCHANGED raced

KeyStep(u) == ReadKey(u) \/ OpenKey(u) \/ WriteKey(u)

(* The caller signs with the seed, or sees SigningKeyError. *)
Signed(u) ==
  /\ signing[u] \in {"ready", "key_error"}
  /\ Sets(u, "idle")
  /\ seed' = [seed EXCEPT ![u] = NoSeed]
  /\ UNCHANGED <<keyFile, raced>>

(* Every user dies; the file stays as it is. *)
AbandonKeys ==
  /\ signing' = [u \in Users |-> "idle"]
  /\ seed' = [u \in Users |-> NoSeed]
  /\ UNCHANGED <<keyFile, raced>>

KeysTypeOK ==
  /\ keyFile \in {NoKey, EmptyKey} \cup Users
  /\ signing \in [Users -> SigningStages]
  /\ seed \in [Users -> Users \cup {NoSeed}]
  /\ raced \in BOOLEAN
=============================================================================
