------------------------- MODULE MCCaptureScheduler -------------------------
(* Model checking of CaptureScheduler with a calibration run, an           *)
(* evaluation run and one crash.                                           *)
EXTENDS CaptureScheduler
=============================================================================
