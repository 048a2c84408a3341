-------------------------- MODULE PushThread_proofs --------------------------
(***************************************************************************)
(* Type correctness of PushThread, and that a seek never lets data of the  *)
(* old place reach the flushed decoder, for any number of seeks.           *)
(***************************************************************************)
EXTENDS PushThread, TLAPS

(* What m_stop says while the main loop is where it is, and that           *)
(* m_run_state is 0 for a thread in use only while it is paused.           *)
Handshake ==
  /\ main \in {"starting", "idle", "pause"} => stop = 0
  /\ main \in {"signal", "test", "wait", "flush", "resume"} => stop = 2
  /\ main \in {"off", "stop", "joining"} => stop = 1
  /\ main \notin {"off", "stop", "joining"} /\ runState = 0 => pc = "paused"
  /\ main \in {"flush", "resume"} => runState = 0

(* Where the thread holds no data and will ask for a new span first.       *)
Afresh == {"none", "created", "round", "paused", "again", "dead", "stopped", "lock"}

(* What the thread reads from, or still has to write, is not older than    *)
(* the last flush.                                                         *)
Fresh ==
  /\ flushed <= seeks /\ out >= flushed
  /\ pc \notin Afresh => span >= flushed
  /\ pc = "reading" => span # NoSpan
  /\ pc \in {"toWrite", "writing", "writeError"} => buf >= flushed

(* TypeOK but for the mutex, which is typed on its own.                    *)
Typed ==
  /\ main \in {"off", "starting", "idle", "pause", "signal", "test", "wait", "flush",
               "resume", "stop", "joining"}
  /\ pc \in {"none", "created", "round", "check", "span", "reading", "readError", "eof",
             "toWrite", "writing", "writeError", "stopped", "lock", "paused", "again", "dead"}
  /\ stop \in 0 .. 2 /\ runState \in 0 .. 1
  /\ waiting \subseteq {"main", "thread"}
  /\ seeks \in Seek /\ span \in Seek \cup {NoSpan}
  /\ buf \in Seek /\ out \in Seek /\ flushed \in Seek

IInv == Typed /\ Handshake /\ Fresh

LEMMA InitIInv == Init => IInv
  BY PushAssumption DEF Init, IInv, Typed, Handshake, Fresh, Afresh, Seek, NoSpan

LEMMA ThreadKeeps == IInv /\ Thread => IInv'
<1> SUFFICES ASSUME IInv, Thread PROVE IInv'
  OBVIOUS
<1> USE PushAssumption DEF IInv, Typed, Handshake, Fresh, Afresh, Seek, NoSpan
<1>1. CASE HasStarted
  BY <1>1 DEF HasStarted, Go, Control, Data
<1>2. CASE Round
  BY <1>2 DEF Round, Go, Control, NoSpan
<1>3. CASE CheckStop
  BY <1>3 DEF CheckStop, Go, Control, Data
<1>4. CASE NextSpan
  BY <1>4 DEF NextSpan, Go, Control
<1>5. CASE Read
  BY <1>5 DEF Read, Go, Control
<1>6. CASE ReadError
  BY <1>6 DEF ReadError, Control, Data
<1>7. CASE EndOfFile
  BY <1>7 DEF EndOfFile, Control
<1>8. CASE ToWrite
  BY <1>8 DEF ToWrite, Go, Control
<1>9. CASE Write
  BY <1>9 DEF Write, Go, Control
<1>10. CASE WriteError
  BY <1>10 DEF WriteError, Go, Control
<1>11. CASE SendStopped
  BY <1>11 DEF SendStopped, Go, Control, Data
<1>12. CASE LockScope
  <2>1. pc = "lock" /\ WaitWhilePaused(waiting \ {"main"})
    BY <1>12, Zenon DEF LockScope
  <2>2. main' = main /\ stop' = stop /\ seeks' = seeks /\ flushed' = flushed
    BY <1>12, Zenon DEF LockScope
  <2>3. span' = span /\ buf' = buf /\ out' = out
    BY <1>12, Zenon DEF LockScope, Data
  <2>4. Typed'
    <3>1. waiting' \subseteq waiting \cup {"thread"}
      BY <2>1, Zenon DEF WaitWhilePaused
    <3>2. waiting' \subseteq {"main", "thread"}
      BY <3>1
    <3>3. pc' \in {"paused", "again"} /\ runState' \in 0 .. 1
      BY <2>1 DEF WaitWhilePaused
    <3>4. QED
      BY <3>2, <3>3, <2>2, <2>3
  <2>5. Handshake'
    BY <2>1, <2>2, <2>3 DEF WaitWhilePaused
  <2>6. Fresh'
    BY <2>1, <2>2, <2>3 DEF WaitWhilePaused
  <2>7. QED
    BY <2>4, <2>5, <2>6
<1>13. CASE Woken
  <2>1. pc = "paused" /\ WaitWhilePaused(waiting)
    BY <1>13, Zenon DEF Woken
  <2>2. main' = main /\ stop' = stop /\ seeks' = seeks /\ flushed' = flushed
    BY <1>13, Zenon DEF Woken
  <2>3. span' = span /\ buf' = buf /\ out' = out
    BY <1>13, Zenon DEF Woken, Data
  <2>4. Typed'
    <3>1. waiting' \subseteq waiting \cup {"thread"}
      BY <2>1, Zenon DEF WaitWhilePaused
    <3>2. waiting' \subseteq {"main", "thread"}
      BY <3>1
    <3>3. pc' \in {"paused", "again"} /\ runState' \in 0 .. 1
      BY <2>1 DEF WaitWhilePaused
    <3>4. QED
      BY <3>2, <3>3, <2>2, <2>3
  <2>5. Handshake'
    BY <2>1, <2>2, <2>3 DEF WaitWhilePaused
  <2>6. Fresh'
    BY <2>1, <2>2, <2>3 DEF WaitWhilePaused
  <2>7. QED
    BY <2>4, <2>5, <2>6
<1>14. CASE Again
  BY <1>14 DEF Again, Go, Control, Data
<1>15. QED
  BY <1>1, <1>2, <1>3, <1>4, <1>5, <1>6, <1>7, <1>8, <1>9, <1>10, <1>11, <1>12, <1>13, <1>14 DEF Thread

MutexOK == mutex \in BOOLEAN

LEMMA MutexTyped == MutexOK /\ [Next]_vars => MutexOK'
  BY Zenon DEF MutexOK, vars, Next, Thread, HasStarted, Round, CheckStop, NextSpan, Read, ReadError, EndOfFile,
          ToWrite, Write, WriteError, SendStopped, LockScope, Woken, Again, Start, Synced,
          SeekRequest, Pause, PauseSignal, PauseTest, Flush, Resume, Stop, StopSignal, Kill,
          Control, Data

MainLoop ==
  Start \/ Synced \/ SeekRequest \/ Pause \/ PauseSignal \/ PauseTest \/ Flush \/ Resume
  \/ Stop \/ StopSignal \/ Kill

LEMMA MainLoopKeeps == IInv /\ MainLoop => IInv'
<1> SUFFICES ASSUME IInv, MainLoop PROVE IInv'
  OBVIOUS
<1> USE PushAssumption DEF IInv, Typed, Handshake, Fresh, Afresh, Seek, NoSpan
<1>1. CASE Start
  BY <1>1 DEF Start, Step, Data
<1>2. CASE Synced
  BY <1>2 DEF Synced, Step, Data
<1>3. CASE SeekRequest
  BY <1>3 DEF SeekRequest, Step, Data
<1>4. CASE Pause
  BY <1>4 DEF Pause, Step, Data
<1>5. CASE PauseSignal
  BY <1>5 DEF PauseSignal, Step, Interrupt, SignalCond, Data
<1>6. CASE PauseTest
  <2>1. main \in {"test", "wait"}
    BY <1>6, Zenon DEF PauseTest
  <2>2. IF runState = 1 THEN main' = "wait" /\ waiting' = waiting \cup {"main"}
                        ELSE main' = "flush" /\ waiting' = waiting
    BY <1>6, Zenon DEF PauseTest
  <2>3. /\ pc' = pc /\ stop' = stop /\ runState' = runState /\ seeks' = seeks
        /\ flushed' = flushed /\ span' = span /\ buf' = buf /\ out' = out
    BY <1>6, Zenon DEF PauseTest, Data
  <2>4. Typed'
    BY <2>1, <2>2, <2>3
  <2>5. Handshake'
    BY <2>1, <2>2, <2>3
  <2>6. Fresh'
    BY <2>1, <2>2, <2>3
  <2>7. QED
    BY <2>4, <2>5, <2>6
<1>7. CASE Flush
  BY <1>7 DEF Flush, Step
<1>8. CASE Resume
  BY <1>8 DEF Resume, Step, SignalCond, Data
<1>9. CASE Stop
  BY <1>9 DEF Stop, Step, Data
<1>10. CASE StopSignal
  BY <1>10 DEF StopSignal, Step, Interrupt, SignalCond, Data
<1>11. CASE Kill
  BY <1>11 DEF Kill, Step, Data
<1>12. QED
  BY <1>1, <1>2, <1>3, <1>4, <1>5, <1>6, <1>7, <1>8, <1>9, <1>10, <1>11 DEF MainLoop

LEMMA InvIInv == Spec => []IInv
<1>1. IInv /\ [Next]_vars => IInv'
  <2> SUFFICES ASSUME IInv, [Next]_vars PROVE IInv'
    OBVIOUS
  <2>1. CASE Thread
    BY <2>1, ThreadKeeps
  <2>2. CASE MainLoop
    BY <2>2, MainLoopKeeps
  <2>3. CASE UNCHANGED vars
    BY <2>3 DEF vars, IInv, Typed, Handshake, Fresh
  <2>4. QED
    BY <2>1, <2>2, <2>3 DEF Next, MainLoop
<1>2. QED
  BY InitIInv, <1>1, PTL DEF Spec

(* The variables of the push thread keep their types.                      *)
THEOREM PushTyped == Spec => []TypeOK
<1>1. Init => MutexOK
  BY DEF Init, MutexOK
<1>2. Spec => []MutexOK
  BY <1>1, MutexTyped, PTL DEF Spec
<1>3. IInv /\ MutexOK => TypeOK
  BY DEF IInv, Typed, TypeOK, MutexOK
<1>4. QED
  BY InvIInv, <1>2, <1>3, PTL

(* The thread is paused while the main loop flushes, and what it writes    *)
(* afterwards was asked for after the seek: the order of m_run_state,      *)
(* m_stop and the two signals leaves no gap between them.                  *)
THEOREM FlushedStaysFresh == Spec => []NoStaleData
<1>1. IInv => NoStaleData
  BY DEF IInv, Typed, Handshake, Fresh, NoStaleData
<1>2. QED
  BY InvIInv, <1>1, PTL
=============================================================================
