----------------------------- MODULE PushThread -----------------------------
(***************************************************************************)
(* Playback of a recording: eFilePushThread (lib/base/filepush.cpp) copies *)
(* the file to the decoder's FIFO, eDVBChannel (lib/dvb/dvb.cpp) starts,   *)
(* flushes and stops it from the main loop, and eThread (lib/base/         *)
(* thread.cpp) starts and joins it.  One condition variable under one      *)
(* mutex serves both directions; m_stop is also read and set without it.   *)
(*                                                                         *)
(* A seek asks for another place of the file.  Data carries the number of  *)
(* seeks that had been asked for when its span was queried.                *)
(***************************************************************************)
EXTENDS Integers

CONSTANT MaxSeek     (* bound on the seeks                                 *)

ASSUME PushAssumption == MaxSeek \in Nat

VARIABLES
  main,       (* where the main loop is in start, flushPVR or stop         *)
  pc,         (* where the thread is                                       *)
  stop,       (* m_stop: 0 run, 1 end, 2 pause                             *)
  runState,   (* m_run_state                                               *)
  mutex,      (* m_run_mutex is held by the main loop between two steps;   *)
              (* the thread's critical sections are single steps           *)
  waiting,    (* who waits on m_run_cond                                   *)
  seeks,      (* seeks asked for                                           *)
  span,       (* of which seek the current span is, or NoSpan              *)
  buf,        (* the same of the data in m_buffer                          *)
  out,        (* the same of the data written last, or of the last flush   *)
  flushed     (* the last seek that was flushed                            *)

vars == <<main, pc, stop, runState, mutex, waiting, seeks, span, buf, out, flushed>>

Seek   == 0 .. MaxSeek
NoSpan == MaxSeek + 1

TypeOK ==
  /\ main \in {"off", "starting", "idle", "pause", "signal", "test", "wait", "flush",
               "resume", "stop", "joining"}
  /\ pc \in {"none", "created", "round", "check", "span", "reading", "readError", "eof",
             "toWrite", "writing", "writeError", "stopped", "lock", "paused", "again", "dead"}
  /\ stop \in 0 .. 2 /\ runState \in 0 .. 1
  /\ mutex \in BOOLEAN /\ waiting \subseteq {"main", "thread"}
  /\ seeks \in Seek /\ span \in Seek \cup {NoSpan}
  /\ buf \in Seek /\ out \in Seek /\ flushed \in Seek

Init ==
  /\ main = "off" /\ pc = "none"
  /\ stop = 1 /\ runState = 0
  /\ mutex = FALSE /\ waiting = {}
  /\ seeks = 0 /\ span = NoSpan /\ buf = 0 /\ out = 0 /\ flushed = 0

-----------------------------------------------------------------------------
(* The thread.                                                             *)

Data    == <<span, buf, out>>
Control == <<main, stop, runState, mutex, waiting, seeks, flushed>>

Go(from, to) == pc = from /\ pc' = to

(* hasStarted(), which lets run() return.                                  *)
HasStarted == Go("created", "round") /\ UNCHANGED <<Control, Data>>

(* A round of the outer loop forgets its span.                             *)
Round == Go("round", "check") /\ span' = NoSpan /\ UNCHANGED <<Control, buf, out>>

(* while (!m_stop)                                                         *)
CheckStop ==
  /\ Go("check", IF stop # 0 THEN "stopped" ELSE "span")
  /\ UNCHANGED <<Control, Data>>

(* getNextSourceSpan, when the last span is used up, looks for seeks.      *)
NextSpan ==
  /\ Go("span", "reading")
  /\ span' = IF span = NoSpan THEN seeks ELSE span
  /\ UNCHANGED <<Control, buf, out>>

(* The read delivers, fails, or there is nothing left.                     *)
Read ==
  /\ \/ Go("reading", "toWrite") /\ buf' = span
     \/ Go("reading", "readError") /\ UNCHANGED buf
     \/ Go("reading", "eof") /\ UNCHANGED buf
  /\ UNCHANGED <<Control, span, out>>

(* m_stop is looked at after an interrupted read.  Other errors count as   *)
(* the end of the file.                                                    *)
ReadError ==
  /\ pc = "readError"
  /\ pc' \in IF stop # 0 THEN {"stopped"} ELSE {"check", "eof"}
  /\ UNCHANGED <<Control, Data>>

(* The end of the file ends the round, or is waited out: poll() of the     *)
(* destination, stream mode, and ten seconds for a file that may grow.  An *)
(* empty span is asked for anew.                                           *)
EndOfFile ==
  /\ pc = "eof"
  /\ pc' \in {"check", "stopped"} /\ span' \in {span, NoSpan}
  /\ UNCHANGED <<Control, buf, out>>

(* while (buf_start != buf_end && !m_stop): a paused round drops the rest, *)
(* which counts as written.                                                *)
ToWrite ==
  /\ \/ stop # 0 /\ Go("toWrite", "check") /\ span' \in {span, NoSpan}
     \/ stop = 0 /\ Go("toWrite", "writing") /\ UNCHANGED span
  /\ UNCHANGED <<Control, buf, out>>

(* write() takes all or a part of the data, or fails; the span may then be *)
(* used up.                                                                *)
Write ==
  /\ \/ Go("writing", "check") /\ out' = buf /\ span' \in {span, NoSpan}
     \/ Go("writing", "toWrite") /\ out' = buf /\ UNCHANGED span
     \/ Go("writing", "writeError") /\ UNCHANGED <<out, span>>
  /\ UNCHANGED <<Control, buf>>

(* m_stop, EINTR, or an error that is reported and skips the data.         *)
WriteError ==
  /\ \/ stop # 0 /\ Go("writeError", "check") /\ UNCHANGED span
     \/ stop = 0 /\ Go("writeError", "toWrite") /\ UNCHANGED span
     \/ stop = 0 /\ Go("writeError", "check") /\ span' \in {span, NoSpan}
  /\ UNCHANGED <<Control, buf, out>>

(* sendEvent(evtStopped).                                                  *)
SendStopped == Go("stopped", "lock") /\ UNCHANGED <<Control, Data>>

(* m_run_cond.signal() wakes one of those who wait.                        *)
SignalCond(W) == waiting' \in IF W = {} THEN {W} ELSE {W \ {w} : w \in W}

(* The end of the critical section: wait while paused, or go on.           *)
WaitWhilePaused_Stopped(W) ==
  /\ IF stop # 0
     THEN pc' = "paused" /\ waiting' = W \cup {"thread"} /\ runState' = 0
     ELSE pc' = "again" /\ waiting' = W /\ runState' = 1

WaitWhilePaused(W) ==
  /\ IF stop = 2
     THEN pc' = "paused" /\ waiting' = W \cup {"thread"} /\ runState' = 0
     ELSE /\ pc' = "again" /\ waiting' = W
          /\ runState' = IF stop = 0 THEN 1 ELSE 0

(* "Tell them we're here": m_run_state = 0 and the signal to pause().      *)
LockScope ==
  /\ pc = "lock" /\ ~mutex
  /\ WaitWhilePaused(waiting \ {"main"})
  /\ UNCHANGED <<main, stop, mutex, seeks, flushed, Data>>

Woken ==
  /\ pc = "paused" /\ "thread" \notin waiting /\ ~mutex
  /\ WaitWhilePaused(waiting)
  /\ UNCHANGED <<main, stop, mutex, seeks, flushed, Data>>

(* while (m_stop == 0), read after the mutex was released.                 *)
Again ==
  /\ Go("again", IF stop = 0 THEN "round" ELSE "dead")
  /\ UNCHANGED <<Control, Data>>

Thread == HasStarted \/ Round \/ CheckStop \/ NextSpan \/ Read \/ ReadError \/ EndOfFile
          \/ ToWrite \/ Write \/ WriteError \/ SendStopped \/ LockScope \/ Woken \/ Again

-----------------------------------------------------------------------------
(* The main loop.                                                          *)

Step(from, to) == main = from /\ main' = to

(* SIGUSR1 interrupts the thread only while it is blocked.                 *)
Interrupt ==
  pc' = CASE pc = "reading" -> "readError" [] pc = "writing" -> "writeError" [] OTHER -> pc

(* playSource: a new eFilePushThread, start() and run() ...                *)
Start ==
  /\ Step("off", "starting")
  /\ pc' = "created" /\ stop' = 0 /\ runState' = 1
  /\ UNCHANGED <<mutex, waiting, seeks, flushed, Data>>

(* ... whose sync() waits for hasStarted().                                *)
Synced ==
  /\ Step("starting", "idle") /\ pc # "created"
  /\ UNCHANGED <<pc, stop, runState, mutex, waiting, seeks, flushed, Data>>

(* cueSheetEvent: a seek is put into the cue sheet, then flushPVR.         *)
SeekRequest ==
  /\ Step("idle", "pause") /\ seeks < MaxSeek
  /\ seeks' = seeks + 1
  /\ UNCHANGED <<pc, stop, runState, mutex, waiting, flushed, Data>>

(* pause(): m_stop = 2 under the mutex ...                                 *)
Pause ==
  /\ Step("pause", "signal") /\ ~mutex
  /\ mutex' = TRUE /\ stop' = 2
  /\ UNCHANGED <<pc, runState, waiting, seeks, flushed, Data>>

(* ... both signals ...                                                    *)
PauseSignal ==
  /\ Step("signal", "test")
  /\ Interrupt /\ SignalCond(waiting)
  /\ UNCHANGED <<stop, runState, mutex, seeks, flushed, Data>>

(* ... and the wait until the thread is paused.                            *)
PauseTest_Once ==
  /\ main = "test" \/ (main = "wait" /\ "main" \notin waiting /\ ~mutex)
  /\ mutex' = FALSE
  /\ main' = "flush" /\ UNCHANGED waiting
  /\ UNCHANGED <<pc, stop, runState, seeks, flushed, Data>>

PauseTest ==
  /\ main = "test" \/ (main = "wait" /\ "main" \notin waiting /\ ~mutex)
  /\ mutex' = FALSE
  /\ IF runState = 1 THEN main' = "wait" /\ waiting' = waiting \cup {"main"}
                     ELSE main' = "flush" /\ UNCHANGED waiting
  /\ UNCHANGED <<pc, stop, runState, seeks, flushed, Data>>

(* flushPVR flushes the demux and the decoders.                            *)
Flush ==
  /\ Step("flush", "resume")
  /\ flushed' = seeks /\ out' = seeks
  /\ UNCHANGED <<pc, stop, runState, mutex, waiting, seeks, span, buf>>

Resume ==
  /\ Step("resume", "idle") /\ ~mutex
  /\ stop' = 0 /\ SignalCond(waiting)
  /\ UNCHANGED <<pc, runState, mutex, seeks, flushed, Data>>

(* eDVBChannel::stop: m_stop = 1 without the mutex, ...                    *)
Stop ==
  /\ Step("idle", "stop")
  /\ stop' = 1
  /\ UNCHANGED <<pc, runState, mutex, waiting, seeks, flushed, Data>>

(* ... both signals, ...                                                   *)
StopSignal ==
  /\ Step("stop", "joining")
  /\ Interrupt /\ SignalCond(waiting)
  /\ UNCHANGED <<stop, runState, mutex, seeks, flushed, Data>>

(* ... and eThread::kill, which joins the thread.                          *)
Kill ==
  /\ Step("joining", "off") /\ pc = "dead"
  /\ pc' = "none"
  /\ UNCHANGED <<stop, runState, mutex, waiting, seeks, flushed, Data>>

Next == Thread \/ Start \/ Synced \/ SeekRequest \/ Pause \/ PauseSignal \/ PauseTest
        \/ Flush \/ Resume \/ Stop \/ StopSignal \/ Kill

Spec == Init /\ [][Next]_vars

(* The scheduler runs both, and a blocked read or write returns: the       *)
(* player behind the FIFO goes on reading.                                 *)
FairSpec ==
  /\ Spec
  /\ WF_vars(Thread)
  /\ WF_vars(Synced \/ Pause \/ PauseSignal \/ PauseTest \/ Flush \/ Resume \/ StopSignal \/ Kill)

-----------------------------------------------------------------------------
(* Properties.                                                             *)

(* While the main loop flushes, the thread is paused; and whatever it      *)
(* writes after the flush comes from a span that was queried after the     *)
(* seek: no data of the old place reaches the flushed decoder.             *)
NoStaleData ==
  /\ main \in {"flush", "resume"} => pc = "paused"
  /\ out >= flushed

(* stop() returns wherever it meets the thread: blocked, between its tests *)
(* of m_stop, or not yet awake after a resume().                           *)
StopReturns == main = "stop" ~> main = "off"

-----------------------------------------------------------------------------
(* What a comment promises and the code does not keep.                     *)

(* pause() "waits for the thread to acknowledge" the pause: a seek comes   *)
(* to its end.                                                             *)
PauseReturns == main = "pause" ~> main = "idle"
=============================================================================
