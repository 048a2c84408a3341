------------------------------- MODULE Recorder -------------------------------
(***************************************************************************)
(* One recording of a transport stream: eDVBTSRecorder::start and stop on  *)
(* the main loop, the recording thread (eFilePushThreadRecorder::thread    *)
(* with the writeData of eDVBRecordFileThread or eDVBRecordStreamThread,   *)
(* lib/base/filepush.cpp and lib/dvb/demux.cpp) and the asynchronous       *)
(* writes the kernel completes in any order.                               *)
(*                                                                         *)
(* A chunk is what one read of the source delivers; chunk k belongs at     *)
(* place k of the file.  A recorder serves one recording: its owners       *)
(* destroy it after stop().                                                *)
(***************************************************************************)
EXTENDS Integers

CONSTANTS
  N,          (* buffers, each with its own AsyncIO control block          *)
  Variants,   (* which kinds of thread there are: TRUE is                  *)
              (* eDVBRecordStreamThread, FALSE eDVBRecordFileThread        *)
  Faults,     (* what the kernel may do to a write                         *)
  MaxChunk,   (* bound on the chunks the source delivers                   *)
  Hole        (* what a place of the file holds that was never written     *)

ASSUME RecorderAssumption ==
  /\ N \in Nat \ {0} /\ MaxChunk \in Nat /\ Hole \notin Nat
  /\ Variants \subseteq BOOLEAN /\ Faults \subseteq {"refuse", "fail", "short"}

VARIABLES
  streaming,  (* the kind of thread this recorder was made with            *)
  main,       (* how far the main loop is with this recorder               *)
  pc,         (* what the recording thread does next                       *)
  cur,        (* m_current_buffer                                          *)
  buf,        (* the chunk in each buffer                                  *)
  aio,        (* the request of each control block                         *)
  taken,      (* chunks read from the source                               *)
  offset,     (* m_current_offset                                          *)
  file,       (* the target file                                           *)
  reported    (* evtWriteError is on its way to the main loop              *)

vars == <<streaming, main, pc, cur, buf, aio, taken, offset, file, reported>>

Buffer    == 0 .. N - 1
Place     == 0 .. MaxChunk - 1
Phase     == {"new", "running", "closed", "flagged", "joining", "stopped", "gone"}
ThreadAt  == {"none", "check", "toread", "reading", "failed", "submit", "poll",
              "wait", "suspended", "dead"}
Status    == {"none", "queued", "running", "done", "failed"}

SourceOpen_Late == main # "gone"

(* The demux descriptor is open.                                           *)
SourceOpen == main \in {"new", "running"}

m_stop == main \in {"new", "flagged", "joining", "stopped", "gone"}

InFlight(b) == aio[b].st \in {"queued", "running"}

TypeOK ==
  /\ streaming \in Variants
  /\ main \in Phase
  /\ pc \in ThreadAt
  /\ cur \in Buffer
  /\ buf \in [Buffer -> Nat]
  /\ aio \in [Buffer -> [st : Status, at : Nat]]
  /\ taken \in 0 .. MaxChunk
  /\ offset \in 0 .. MaxChunk
  /\ file \in [Place -> Nat \cup {Hole}]
  /\ reported \in BOOLEAN

Init ==
  /\ streaming \in Variants
  /\ main = "new" /\ pc = "none"
  /\ cur = 0
  /\ buf = [b \in Buffer |-> 0]
  /\ aio = [b \in Buffer |-> [st |-> "none", at |-> 0]]
  /\ taken = 0 /\ offset = 0
  /\ file = [o \in Place |-> Hole]
  /\ reported = FALSE

-----------------------------------------------------------------------------
(* The recording thread.                                                   *)

(* while (!m_stop)                                                         *)
CheckStop ==
  /\ pc = "check"
  /\ pc' = IF m_stop THEN "dead" ELSE "toread"
  /\ UNCHANGED <<main, cur, buf, aio, taken, offset, file, reported>>

(* m_source->read: with the descriptor open it may block; on a descriptor  *)
(* that was closed before it fails at once.                                *)
EnterRead ==
  /\ pc = "toread"
  /\ pc' = IF SourceOpen THEN "reading" ELSE "failed"
  /\ UNCHANGED <<main, cur, buf, aio, taken, offset, file, reported>>

(* The source delivers, or the decryption ring what it still holds of it.  *)
Deliver ==
  /\ pc = "toread" \/ (pc = "reading" /\ SourceOpen)
  /\ taken < MaxChunk
  /\ buf' = [buf EXCEPT ![cur] = taken]
  /\ taken' = taken + 1
  /\ pc' = "submit"
  /\ UNCHANGED <<main, cur, aio, offset, file, reported>>

(* No packet could be decrypted, an overflow, or an error.                 *)
ReadFails ==
  /\ pc = "reading" /\ SourceOpen
  /\ pc' = "failed"
  /\ UNCHANGED <<main, cur, buf, aio, taken, offset, file, reported>>

(* bytes < 0: the thread ends when m_stop is set or errno is unexpected.   *)
AfterReadError ==
  /\ pc = "failed"
  /\ pc' \in IF m_stop THEN {"dead"} ELSE {"check", "dead"}
  /\ UNCHANGED <<main, cur, buf, aio, taken, offset, file, reported>>

(* writeData < 0: the event and the end of the thread.                     *)
WriteError == pc' = "dead" /\ reported' = TRUE

(* asyncWrite, first half: aio_write of the current buffer, which the      *)
(* kernel may refuse.                                                      *)
Submit ==
  /\ pc = "submit"
  /\ \/ /\ aio' = [aio EXCEPT ![cur] = [st |-> "queued", at |-> offset]]
        /\ offset' = offset + 1
        /\ pc' = "poll"
        /\ UNCHANGED reported
     \/ /\ "refuse" \in Faults
        /\ WriteError
        /\ UNCHANGED <<aio, offset>>
  /\ UNCHANGED <<main, cur, buf, taken, file>>

(* asyncWrite, second half: poll backwards from the current buffer to the  *)
(* first request that is not in flight any more and collect that one.  Its *)
(* failure is an error, but the failure of the current request is not.     *)
Back(b)  == (cur - b) % N
Resting  == {b \in Buffer : ~InFlight(b)}
Nearest  == {b \in Resting : \A c \in Resting : Back(b) <= Back(c)}
After(b) == IF b = N - 1 THEN 0 ELSE b + 1

Collect(S) == [b \in Buffer |-> IF b \in S THEN [aio[b] EXCEPT !.st = "none"] ELSE aio[b]]

PollBack ==
  /\ pc = "poll"
  /\ aio' = Collect(Nearest)
  /\ IF \E b \in Nearest : aio[b].st = "failed" /\ b # cur
     THEN WriteError /\ UNCHANGED cur
     ELSE pc' = "wait" /\ cur' = After(cur) /\ UNCHANGED reported
  /\ UNCHANGED <<main, buf, taken, offset, file>>

(* AsyncIO::wait finds the request at rest, or has waited for it.          *)
Collected ==
  /\ aio' = Collect({cur})
  /\ IF aio[cur].st = "failed" THEN WriteError ELSE pc' = "check" /\ UNCHANGED reported

WaitForBuffer_Skips ==
  /\ pc = "wait"
  /\ pc' = "check"
  /\ UNCHANGED <<main, cur, buf, aio, taken, offset, file, reported>>

(* writeData: before the next buffer is used its last request must be over.*)
WaitForBuffer ==
  /\ pc = "wait"
  /\ ~(streaming /\ InFlight(cur))
  /\ IF InFlight(cur) THEN pc' = "suspended" /\ UNCHANGED <<aio, reported>> ELSE Collected
  /\ UNCHANGED <<main, cur, buf, taken, offset, file>>

(* The stream thread cancels that request instead.  One that was cancelled *)
(* makes wait() fail; one that has begun takes all the others with it and  *)
(* is waited for.                                                          *)
CancelBuffer ==
  /\ pc = "wait"
  /\ streaming /\ InFlight(cur)
  /\ IF aio[cur].st = "queued"
     THEN aio' = Collect({cur}) /\ WriteError
     ELSE /\ aio' = Collect({b \in Buffer : aio[b].st # "running"})
          /\ pc' = "suspended" /\ UNCHANGED reported
  /\ UNCHANGED <<main, cur, buf, taken, offset, file>>

(* aio_suspend returns because the request is over.                        *)
Resume ==
  /\ pc = "suspended"
  /\ ~InFlight(cur)
  /\ Collected
  /\ UNCHANGED <<main, cur, buf, taken, offset, file>>

Thread == CheckStop \/ EnterRead \/ Deliver \/ ReadFails \/ AfterReadError \/ Submit
          \/ PollBack \/ WaitForBuffer \/ CancelBuffer \/ Resume

-----------------------------------------------------------------------------
(* The kernel.                                                             *)

Begin(b) ==
  /\ aio[b].st = "queued"
  /\ aio' = [aio EXCEPT ![b].st = "running"]
  /\ UNCHANGED <<main, pc, cur, buf, taken, offset, file, reported>>

(* A write ends: what the buffer holds at that moment is in the file, or   *)
(* only a part of it (aio_return is positive but short), or nothing.  Once *)
(* the owner has closed the file and unmapped the buffers it fails.        *)
Finish(b) ==
  /\ aio[b].st = "running"
  /\ \/ /\ main # "gone"
        /\ aio' = [aio EXCEPT ![b].st = "done"]
        /\ file' = [file EXCEPT ![aio[b].at] = buf[b]]
     \/ /\ "short" \in Faults
        /\ aio' = [aio EXCEPT ![b].st = "done"]
        /\ UNCHANGED file
     \/ /\ "fail" \in Faults \/ main = "gone"
        /\ aio' = [aio EXCEPT ![b].st = "failed"]
        /\ UNCHANGED file
  /\ UNCHANGED <<main, pc, cur, buf, taken, offset, reported>>

-----------------------------------------------------------------------------
(* The main loop.                                                          *)

MainUnchanged == UNCHANGED <<cur, buf, aio, taken, offset, file>>

(* eDVBTSRecorder::start returns when the thread has started.              *)
Start ==
  /\ main = "new"
  /\ main' = "running" /\ pc' = "check"
  /\ MainUnchanged /\ UNCHANGED reported

(* eDVBTSRecorder::stop, by the user or by the owner that is told of the   *)
(* write error: DMX_STOP and close ...                                     *)
CloseSource ==
  /\ main = "running"
  /\ main' = "closed"
  /\ MainUnchanged /\ UNCHANGED <<pc, reported>>

HandleWriteError == reported /\ CloseSource

(* ... eFilePushThreadRecorder::stop: m_stop = 1 ...                       *)
SetStop ==
  /\ main = "closed"
  /\ main' = "flagged"
  /\ MainUnchanged /\ UNCHANGED <<pc, reported>>

(* ... SIGUSR1, which interrupts the thread only while it is blocked: in   *)
(* read(), or in aio_suspend, which is taken for a write error ...         *)
Signal ==
  /\ main = "flagged"
  /\ main' = "joining"
  /\ CASE pc = "reading"   -> pc' = "failed" /\ UNCHANGED reported
       [] pc = "suspended" -> WriteError
       [] OTHER            -> UNCHANGED <<pc, reported>>
  /\ MainUnchanged

(* ... and pthread_join.                                                   *)
Join_Detached ==
  /\ main = "joining"
  /\ main' = "stopped"
  /\ MainUnchanged /\ UNCHANGED <<pc, reported>>

Join ==
  /\ main = "joining" /\ pc = "dead"
  /\ main' = "stopped"
  /\ MainUnchanged /\ UNCHANGED <<pc, reported>>

(* The owner closes the file and drops the recorder with its buffers.      *)
Destroy ==
  /\ main = "stopped"
  /\ main' = "gone"
  /\ MainUnchanged /\ UNCHANGED <<pc, reported>>

MainLoop == Start \/ CloseSource \/ SetStop \/ Signal \/ Join \/ Destroy

Step == Thread \/ (\E b \in Buffer : Begin(b) \/ Finish(b)) \/ MainLoop

Next == Step /\ UNCHANGED streaming

Spec == Init /\ [][Next]_vars

(* The scheduler runs the thread and the main loop, and the kernel ends    *)
(* its writes; the source may be silent for ever.                          *)
FairSpec ==
  /\ Spec
  /\ WF_vars((CheckStop \/ EnterRead \/ AfterReadError \/ Submit \/ PollBack
              \/ WaitForBuffer \/ CancelBuffer \/ Resume) /\ UNCHANGED streaming)
  /\ \A b \in Buffer : WF_vars((Begin(b) \/ Finish(b)) /\ UNCHANGED streaming)
  /\ WF_vars((HandleWriteError \/ SetStop \/ Signal \/ Join) /\ UNCHANGED streaming)

-----------------------------------------------------------------------------
(* Properties.                                                             *)

(* The thread reads into, and starts a write of, only a buffer whose last  *)
(* request is over and collected: no buffer changes under a write, and no  *)
(* control block is zeroed while the kernel uses it.                       *)
BufferIsFree ==
  pc \in {"check", "toread", "reading", "failed", "submit"} => aio[cur].st = "none"

(* The recording implements the promise of RecordedFile: in whatever order *)
(* writes end, and whether they fail or are cancelled, each chunk that     *)
(* reaches the file reaches it once and at its own place.                  *)
RF == INSTANCE RecordedFile
WritesInPlace == RF!Spec

(* stop() returns: the thread ends whatever it was doing when the source   *)
(* was closed, m_stop was set and the one signal was sent.  A write error  *)
(* makes the owner call it.                                                *)
StopReturns ==
  (main = "closed" \/ (main = "running" /\ reported)) ~> (main = "stopped")

(* What the owner sees of main, pc and reported.                           *)
AsOwned ==
  [phase |-> IF main \in {"closed", "flagged", "joining"} THEN "running" ELSE main,
   alive |-> pc \notin {"none", "dead"},
   err   |-> reported /\ main \notin {"stopped", "gone"}]

Life == INSTANCE RecorderLife WITH life <- AsOwned

(* A recorder lives the life its owner counts on: after stop() there is no *)
(* thread and no event of it, whatever the thread was doing, and an error  *)
(* that was reported ends in a recorder that is stopped.                   *)
LifeCycle == Life!Spec
===============================================================================
