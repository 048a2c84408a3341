----------------------------- MODULE MCRecorder -----------------------------
(* Instances of Recorder for TLC: the bounds are in the configurations.    *)
EXTENDS Recorder

(* Every fault a kernel may answer a write with.                           *)
AllFaults == {"refuse", "fail", "short"}
=============================================================================
