--------------------------- MODULE MCArtifactStore ---------------------------
(* Instances of ArtifactStore for TLC. *)
EXTENDS ArtifactStore, TLC

(* Importers, readers and blobs are interchangeable; an importer is also   *)
(* the name of its record, so permuting one permutes the other.            *)
Symmetry ==
  Permutations(Importers) \cup Permutations(Readers) \cup Permutations(Blobs)
=============================================================================
