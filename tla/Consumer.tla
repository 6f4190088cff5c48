------------------------------- MODULE Consumer -------------------------------
(***************************************************************************)
(* receipt.verify_receipt and the verify-receipt command: what a consumer  *)
(* who holds a file, and perhaps expectations about its signer and its     *)
(* provenance, makes of it.  Everything is constant-level.  A document is  *)
(* described by what each test of the function sees of it:                 *)
(*   input     "object", or the way it is not a JSON object                *)
(*   block     "ed25519", or the way the signature block is not usable     *)
(*   intact    whether the signature fits the payload                      *)
(*   signer, base, head, test, repo    who and what it is about            *)
(*   schema    the status given by validate_schema                         *)
(*   semantic  the verdict of validate_semantics (module Receipt)          *)
(*   refused, sandbox                  what it says of the execution       *)
(* An expectation is None when the consumer states none.                   *)
(***************************************************************************)
CONSTANT None

Expecting(asked) == {f \in {"base", "head", "test", "repo"} : asked[f] # None}

(* execution_trust: a refusal outranks whatever the sandbox block says; in *)
(* that block the word "confined", which is optional, outranks the backend *)
(* unless the block says that there was no sandbox.                        *)
ExecutionTrust(doc) ==
  IF doc.refused THEN "REFUSED"
  ELSE IF doc.sandbox = None THEN "UNKNOWN"
  ELSE IF doc.sandbox.mode = "off" \/ doc.sandbox.backend = "none" \/ doc.sandbox.confined = "no"
    THEN "UNCONFINED"
  ELSE IF doc.sandbox.confined = "yes" \/ doc.sandbox.backend \in {"docker", "podman", "bubblewrap"}
    THEN "CONFINED"
  ELSE "UNKNOWN"

(* The reasons to stop before any check of the content. *)
SignatureFault(doc) ==
  IF doc.input # "object" THEN doc.input
  ELSE IF doc.block # "ed25519" THEN doc.block
  ELSE IF ~doc.intact THEN "signature_verification_failed" ELSE "none"

(* An expected signer is a file of keys, a key, its fingerprint or a       *)
(* prefix; less than 16 digits is a format error and matches nobody.       *)
SignerStatus(doc, asked) ==
  IF asked.form = "none" THEN "UNVERIFIED"
  ELSE IF asked.form = "short" THEN "INVALID_FORMAT"
  ELSE IF doc.signer \in asked.signers THEN "TRUSTED" ELSE "UNTRUSTED"

(* An abbreviated revision has to be resolved in the repository the        *)
(* receipt names, and so needs that repository here (present); a receipt   *)
(* of a checkout without a remote (local) cannot be held against a remote. *)
(* One failure to resolve outranks every mismatch.                         *)
Unresolvable(doc, asked) ==
  \/ asked.abbreviated /\ ~doc.present /\ Expecting(asked) \cap {"base", "head"} # {}
  \/ "repo" \in Expecting(asked) /\ doc.local /\ asked.remote

(* Mutant of Mismatched: revisions are only compared when abbreviated. *)
MismatchedMaterial(doc, asked) == {f \in Expecting(asked) \ {"base", "head"} : asked[f] # doc[f]}
Mismatched(doc, asked) == {f \in Expecting(asked) : asked[f] # doc[f]}

ProvenanceStatus(doc, asked) ==
  IF Expecting(asked) = {} THEN "NOT_CHECKED"
  ELSE IF Unresolvable(doc, asked) THEN "UNRESOLVABLE"
  ELSE IF Mismatched(doc, asked) # {} THEN "MISMATCH" ELSE "MATCHED"

SchemaOK(doc) == doc.schema \in {"VALID", "VALID_LEGACY"}

(* ReceiptVerificationResult.valid.  An expected signer that does not      *)
(* match leaves it true unless the caller is strict.                       *)
VerifyReceipt(doc, asked) ==
  /\ SignatureFault(doc) = "none"
  /\ SchemaOK(doc) /\ doc.semantic
  /\ ProvenanceStatus(doc, asked) \in {"MATCHED", "NOT_CHECKED"}
  /\ asked.strict => SignerStatus(doc, asked) = "TRUSTED"
  /\ asked.confined => ExecutionTrust(doc) = "CONFINED"

(* The exit code of verify-receipt, whose expected signer must match       *)
(* whether the caller is strict or not.                                    *)
CommandExit(doc, asked) ==
  IF SignatureFault(doc) # "none" THEN 2
  ELSE IF ~SchemaOK(doc) THEN 4
  ELSE IF ~doc.semantic THEN 5
  ELSE IF ProvenanceStatus(doc, asked) \in {"MISMATCH", "UNRESOLVABLE"} THEN 6
  ELSE IF (asked.strict \/ asked.form # "none") /\ SignerStatus(doc, asked) # "TRUSTED" THEN 3
  ELSE IF asked.confined /\ ExecutionTrust(doc) # "CONFINED" THEN 7
  ELSE 0
=============================================================================
