----------------------------- MODULE MCMainLoop -----------------------------
(* Instances of MainLoop for TLC: the bounds are in the configurations.    *)
EXTENDS MainLoop

CONSTANTS n1, n2, t1, t2

(* Code with two timers, and code with two notifiers and a timer.          *)
MCPrograms == {{t1, t2}, {t1, n1, n2}}
=============================================================================
