---------------------------- MODULE MCRecordTimer ----------------------------
(* Instances of RecordTimer for TLC.                                       *)
EXTENDS RecordTimer

CONSTANTS t1, t2

MCBackoffs == <<1, 2>>
RetryFaults == {"prepare", "start"}
=============================================================================
