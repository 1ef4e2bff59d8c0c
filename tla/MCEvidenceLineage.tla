-------------------------- MODULE MCEvidenceLineage --------------------------
(* An instance of EvidenceLineage for TLC. *)
EXTENDS EvidenceLineage, TLC

CONSTANTS b1, b2, v1

(* The observation contract does not parse b2. *)
MCExtract == b1 :> v1 @@ b2 :> None
=============================================================================
