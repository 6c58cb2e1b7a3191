-------------------------- MODULE MCEvidenceUpload --------------------------
(* EvidenceUpload for TLC: a video, and another file whose content is read. *)
EXTENDS EvidenceUpload, TLC

CONSTANTS video, manifest

MCFiles == {video, manifest}
=============================================================================
