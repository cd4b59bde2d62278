----------------------------- MODULE MCCapture ------------------------------
(* A small instance of Capture.                                              *)
EXTENDS Capture
=============================================================================
