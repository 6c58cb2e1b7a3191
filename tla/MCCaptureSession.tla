------------------------- MODULE MCCaptureSession -------------------------
(* CaptureSession for TLC. *)
EXTENDS CaptureSession, TLC
=============================================================================
