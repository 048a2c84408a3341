---------------------------- MODULE RecorderLife ----------------------------
(***************************************************************************)
(* What a recorder promises its owner (eDVBTSRecorder as eDVBServiceRecord *)
(* sees it, lib/dvb/demux.cpp): start() gives it a thread, the thread may  *)
(* end at any time and may tell of a write error, and stop() leaves        *)
(* neither a thread nor an event behind.                                   *)
(***************************************************************************)

VARIABLE life    (* phase: how far the owner is with it;                   *)
                 (* alive: the thread runs;                                *)
                 (* err: eventWriteError is on its way to the owner        *)

Fresh == [phase |-> "new", alive |-> FALSE, err |-> FALSE]

(* After start(), whose result says nothing: there may be no thread.       *)
Started(r) == {[r EXCEPT !.phase = "running", !.alive = a] : a \in BOOLEAN}

(* After the end of the thread, which may be due to a write error.         *)
Ended(r) == {[r EXCEPT !.alive = FALSE, !.err = e] : e \in {r.err, TRUE}}

(* After stop(), which does nothing to a recorder that was not started.    *)
Stopped(r) ==
  IF r.phase = "running" THEN [phase |-> "stopped", alive |-> FALSE, err |-> FALSE] ELSE r

Start      == life.phase = "new" /\ life' \in Started(life)
ThreadEnds == life.alive /\ life' \in Ended(life)
Stop       == life.phase = "running" /\ life' = Stopped(life)
Destroy    == life.phase \in {"new", "stopped"} /\ life' = [life EXCEPT !.phase = "gone"]

Next == Start \/ ThreadEnds \/ Stop \/ Destroy

Safety == life = Fresh /\ [][Next]_life

(* An owner that is told of an error stops the recorder, and stop() comes  *)
(* to its end.                                                             *)
Spec == Safety /\ WF_life(life.err /\ Stop)
=============================================================================
