--------------------------- MODULE Recorder_proofs ---------------------------
(***************************************************************************)
(* The recording is type correct, never touches a buffer under a write and *)
(* implements RecordedFile, for every number of buffers, every length of   *)
(* the stream, both kinds of thread and whatever the kernel does.          *)
(***************************************************************************)
EXTENDS Recorder, TLAPS

(* How many chunks are in hand: one between its read and its aio_write.    *)
InStep ==
  /\ pc = "submit" => taken = offset + 1 /\ buf[cur] = offset
  /\ pc \notin {"submit", "dead"} => taken = offset
  /\ offset <= taken

(* A request in flight carries its own chunk, to a place of its own that   *)
(* was not written, and nothing was written past the offset.               *)
Pending ==
  /\ \A b \in Buffer : InFlight(b) =>
       buf[b] = aio[b].at /\ aio[b].at < offset /\ file[aio[b].at] = Hole
  /\ \A b, c \in Buffer : InFlight(b) /\ InFlight(c) /\ aio[b].at = aio[c].at => b = c
  /\ \A o \in Place : o >= offset => file[o] = Hole

Starting == (main = "new" => pc = "none") /\ (pc = "none" => aio[cur].st = "none")

IInv == TypeOK /\ BufferIsFree /\ Starting /\ InStep /\ Pending

-----------------------------------------------------------------------------
(* The next buffer is a buffer.                                            *)
LEMMA AfterType == ASSUME NEW b \in Buffer PROVE After(b) \in Buffer
BY RecorderAssumption DEF After, Buffer

(* Collecting requests keeps the type of the control blocks and leaves the *)
(* requests outside the set alone.                                         *)
LEMMA CollectType ==
  ASSUME TypeOK, NEW S
  PROVE  /\ Collect(S) \in [Buffer -> [st : Status, at : Nat]]
         /\ \A b \in Buffer : Collect(S)[b].at = aio[b].at
         /\ \A b \in Buffer : b \in S => Collect(S)[b].st = "none"
         /\ \A b \in Buffer : b \notin S => Collect(S)[b] = aio[b]
BY DEF TypeOK, Collect, Status

(* The initial state.                                                      *)
LEMMA InitInv == Init => IInv
<1> SUFFICES ASSUME Init PROVE IInv
  OBVIOUS
<1>1. N \in Nat \ {0} /\ MaxChunk \in Nat /\ 0 \in Buffer
  BY RecorderAssumption DEF Buffer
<1>2. TypeOK
  <2>1. streaming \in Variants /\ main \in Phase /\ pc \in ThreadAt /\ cur \in Buffer /\ reported \in BOOLEAN
    BY <1>1 DEF Init, Phase, ThreadAt
  <2>2. buf \in [Buffer -> Nat] /\ file \in [Place -> Nat \cup {Hole}]
    BY DEF Init
  <2>3. aio \in [Buffer -> [st : Status, at : Nat]]
    BY DEF Init, Status
  <2>4. taken \in 0 .. MaxChunk /\ offset \in 0 .. MaxChunk
    BY <1>1 DEF Init
  <2> QED
    BY <2>1, <2>2, <2>3, <2>4 DEF TypeOK
<1>3. \A b \in Buffer : aio[b].st = "none" /\ ~InFlight(b)
  BY DEF Init, InFlight
<1>4. BufferIsFree /\ Starting
  BY <1>1, <1>3 DEF Init, BufferIsFree, Starting
<1>5. InStep
  BY DEF Init, InStep
<1>6. Pending
  BY <1>3 DEF Init, Pending
<1> QED
  BY <1>2, <1>4, <1>5, <1>6 DEF IInv

(* Steps that collect requests S, or none, and touch no data, keep what is *)
(* known of the requests in flight.                                        *)
LEMMA CollectKeepsPending ==
  ASSUME TypeOK, Pending, NEW S, aio' = Collect(S), UNCHANGED <<buf, offset, file>>
  PROVE  Pending'
<1>1. \A b \in Buffer : InFlight(b)' => aio'[b] = aio[b] /\ InFlight(b)
  BY CollectType DEF InFlight
<1> QED
  BY <1>1 DEF Pending, InFlight

(* Steps that leave the requests and the data alone keep it as well.       *)
LEMMA QuietKeepsPending ==
  ASSUME Pending, UNCHANGED <<aio, buf, offset, file>>
  PROVE  Pending'
BY DEF Pending, InFlight

(* Every step of the thread, the kernel and the main loop keeps the        *)
(* invariant.                                                              *)
LEMMA NextInv == IInv /\ [Next]_vars => IInv'
<1> SUFFICES ASSUME IInv, [Next]_vars PROVE IInv'
  OBVIOUS
<1> USE DEF IInv
<1>0. N \in Nat \ {0} /\ MaxChunk \in Nat /\ Hole \notin Nat
  BY RecorderAssumption
<1>a. UNCHANGED streaming
  BY DEF Next, vars
<1> USE <1>a
<1>1. CASE CheckStop
  <2>1. TypeOK'
    BY <1>1 DEF CheckStop, TypeOK, ThreadAt
  <2>2. Pending'
    BY <1>1, QuietKeepsPending DEF CheckStop
  <2> QED
    BY <1>1, <2>1, <2>2 DEF CheckStop, BufferIsFree, Starting, InStep
<1>2. CASE EnterRead
  <2>1. TypeOK'
    BY <1>2 DEF EnterRead, TypeOK, ThreadAt
  <2>2. Pending'
    BY <1>2, QuietKeepsPending DEF EnterRead
  <2> QED
    BY <1>2, <2>1, <2>2 DEF EnterRead, BufferIsFree, Starting, InStep
<1>3. CASE Deliver
  <2>1. TypeOK'
    BY <1>0, <1>3 DEF Deliver, TypeOK, ThreadAt
  <2>2. cur \in Buffer /\ aio[cur].st = "none" /\ taken = offset /\ offset \in Nat
    BY <1>0, <1>3 DEF Deliver, TypeOK, BufferIsFree, InStep
  <2>3. \A b \in Buffer : InFlight(b)' => InFlight(b) /\ buf'[b] = buf[b]
    BY <1>3, <2>2 DEF Deliver, InFlight, TypeOK
  <2>4. Pending'
    BY <1>3, <2>3 DEF Deliver, Pending, InFlight
  <2>5. InStep'
    BY <1>3, <2>2 DEF Deliver, InStep, TypeOK
  <2> QED
    BY <1>3, <2>1, <2>2, <2>4, <2>5 DEF Deliver, BufferIsFree, Starting
<1>4. CASE ReadFails
  <2>1. TypeOK'
    BY <1>4 DEF ReadFails, TypeOK, ThreadAt
  <2>2. Pending'
    BY <1>4, QuietKeepsPending DEF ReadFails
  <2> QED
    BY <1>4, <2>1, <2>2 DEF ReadFails, BufferIsFree, Starting, InStep
<1>5. CASE AfterReadError
  <2>1. TypeOK'
    BY <1>5 DEF AfterReadError, TypeOK, ThreadAt
  <2>2. Pending'
    BY <1>5, QuietKeepsPending DEF AfterReadError
  <2> QED
    BY <1>5, <2>1, <2>2 DEF AfterReadError, BufferIsFree, Starting, InStep
<1>6. CASE Submit
  <2>0. /\ cur \in Buffer /\ offset \in Nat /\ taken \in Nat /\ taken = offset + 1
        /\ taken <= MaxChunk /\ buf[cur] = offset /\ offset \in Place
    BY <1>0, <1>6 DEF Submit, TypeOK, InStep, Place
  <2>1. CASE offset' = offset
    <3>1. /\ pc' = "dead" /\ reported' = TRUE
          /\ UNCHANGED <<main, cur, buf, aio, taken, offset, file>>
      BY <1>6, <2>0, <2>1 DEF Submit, WriteError
    <3>2. TypeOK'
      BY <3>1 DEF TypeOK, ThreadAt
    <3>3. Pending'
      BY <3>1, QuietKeepsPending
    <3> QED
      BY <1>6, <2>0, <3>1, <3>2, <3>3 DEF Submit, BufferIsFree, Starting, InStep
  <2>2. CASE offset' = offset + 1
    <3>1. /\ aio' = [aio EXCEPT ![cur] = [st |-> "queued", at |-> offset]]
          /\ pc' = "poll" /\ UNCHANGED <<main, cur, buf, taken, file, reported>>
      BY <1>6, <2>0, <2>2 DEF Submit
    <3>2. TypeOK'
      BY <1>0, <2>0, <2>2, <3>1 DEF TypeOK, ThreadAt, Status
    <3>3. \A b \in Buffer : InFlight(b)' => (b = cur /\ aio'[b].at = offset)
                                            \/ (b # cur /\ InFlight(b) /\ aio'[b] = aio[b])
      BY <2>0, <3>1 DEF InFlight, TypeOK
    <3>4. file[offset] = Hole
      BY <2>0 DEF Pending
    <3>5. \A b \in Buffer : InFlight(b)' =>
            buf'[b] = aio'[b].at /\ aio'[b].at < offset' /\ file'[aio'[b].at] = Hole
      BY <2>0, <2>2, <3>1, <3>3, <3>4 DEF Pending, TypeOK
    <3>6. \A b, c \in Buffer :
            InFlight(b)' /\ InFlight(c)' /\ aio'[b].at = aio'[c].at => b = c
      BY <2>0, <3>3 DEF Pending, TypeOK
    <3>7. \A o \in Place : o >= offset' => file'[o] = Hole
      BY <2>0, <2>2, <3>1 DEF Pending, Place
    <3>8. Pending'
      BY <3>1, <3>5, <3>6, <3>7 DEF Pending, Buffer, Place
    <3> QED
      BY <1>6, <2>0, <2>2, <3>1, <3>2, <3>8 DEF Submit, BufferIsFree, Starting, InStep
  <2> QED
    BY <1>6, <2>1, <2>2 DEF Submit
<1>7. CASE PollBack
  <2>1. aio' \in [Buffer -> [st : Status, at : Nat]]
    BY <1>7, CollectType DEF PollBack
  <2>2. cur' \in Buffer
    BY <1>7, AfterType DEF PollBack, TypeOK
  <2>3. TypeOK'
    BY <1>7, <2>1, <2>2 DEF PollBack, TypeOK, ThreadAt, WriteError
  <2>4. Pending'
    BY <1>7, CollectKeepsPending DEF PollBack
  <2>5. pc' \in {"dead", "wait"}
    BY <1>7 DEF PollBack, WriteError
  <2> QED
    BY <1>7, <2>3, <2>4, <2>5 DEF PollBack, BufferIsFree, Starting, InStep
<1>8. CASE (WaitForBuffer \/ Resume) /\ Collected
  <2>1. /\ aio' \in [Buffer -> [st : Status, at : Nat]]
        /\ cur \in Buffer /\ aio'[cur].st = "none"
    BY <1>8, CollectType DEF Collected, TypeOK
  <2>2. /\ pc' \in {"dead", "check"} /\ reported' \in BOOLEAN
        /\ UNCHANGED <<main, cur, buf, taken, offset, file>>
        /\ pc \in {"wait", "suspended"}
    BY <1>8 DEF WaitForBuffer, Resume, Collected, WriteError, TypeOK
  <2>3. TypeOK'
    BY <2>1, <2>2 DEF TypeOK, ThreadAt
  <2>4. Pending'
    BY <1>8, <2>2, CollectKeepsPending DEF Collected
  <2> QED
    BY <2>1, <2>2, <2>3, <2>4 DEF BufferIsFree, Starting, InStep
<1>9. CASE WaitForBuffer /\ ~Collected
  <2>1. pc = "wait" /\ pc' = "suspended" /\ UNCHANGED <<main, cur, buf, aio, taken, offset, file, reported>>
    BY <1>9 DEF WaitForBuffer
  <2>2. TypeOK'
    BY <2>1 DEF TypeOK, ThreadAt
  <2>3. Pending'
    BY <2>1, QuietKeepsPending
  <2> QED
    BY <2>1, <2>2, <2>3 DEF BufferIsFree, Starting, InStep
<1>10. CASE CancelBuffer
  <2>1. PICK S : aio' = Collect(S)
    BY <1>10 DEF CancelBuffer
  <2>2. /\ pc' \in {"dead", "suspended"} /\ reported' \in BOOLEAN /\ pc = "wait"
        /\ UNCHANGED <<main, cur, buf, taken, offset, file>>
    BY <1>10 DEF CancelBuffer, WriteError, TypeOK
  <2>3. TypeOK'
    BY <2>1, <2>2, CollectType DEF TypeOK, ThreadAt
  <2>4. Pending'
    BY <2>1, <2>2, CollectKeepsPending
  <2> QED
    BY <2>2, <2>3, <2>4 DEF BufferIsFree, Starting, InStep
<1>11. ASSUME NEW b \in Buffer, Begin(b) PROVE IInv'
  <2>1. /\ aio[b].st = "queued" /\ aio' = [aio EXCEPT ![b].st = "running"]
        /\ UNCHANGED <<main, pc, cur, buf, taken, offset, file, reported>>
    BY <1>11 DEF Begin
  <2>2. TypeOK'
    BY <2>1 DEF TypeOK, Status
  <2>3. \A c \in Buffer : /\ aio'[c].at = aio[c].at /\ (InFlight(c)' => InFlight(c))
                          /\ aio[c].st = "none" => aio'[c].st = "none"
    BY <2>1 DEF InFlight, TypeOK
  <2>4. Pending'
    BY <2>1, <2>3 DEF Pending
  <2> QED
    BY <2>1, <2>2, <2>3, <2>4 DEF BufferIsFree, Starting, InStep, TypeOK
<1>12. ASSUME NEW b \in Buffer, Finish(b) PROVE IInv'
  <2>1. /\ InFlight(b)
        /\ UNCHANGED <<main, pc, cur, buf, taken, offset, reported>>
        /\ aio' \in {[aio EXCEPT ![b].st = "done"], [aio EXCEPT ![b].st = "failed"]}
        /\ file' \in {file, [file EXCEPT ![aio[b].at] = buf[b]]}
    BY <1>12 DEF Finish, InFlight
  <2>2. TypeOK'
    BY <2>1 DEF TypeOK, Status
  <2>3. \A c \in Buffer : /\ aio'[c].at = aio[c].at
                          /\ InFlight(c)' => InFlight(c) /\ c # b
                          /\ aio[c].st = "none" => aio'[c].st = "none"
    BY <2>1 DEF InFlight, TypeOK
  <2>4. \A o \in Place : o # aio[b].at => file'[o] = file[o]
    BY <2>1 DEF TypeOK
  <2>5. \A c \in Buffer : InFlight(c) => aio[c].at \in Place
    BY <1>0 DEF Pending, TypeOK, Place
  <2>6. \A c \in Buffer : InFlight(c)' =>
          buf'[c] = aio'[c].at /\ aio'[c].at < offset' /\ file'[aio'[c].at] = Hole
    BY <2>1, <2>3, <2>4, <2>5 DEF Pending
  <2>7. \A o \in Place : o >= offset' => file'[o] = Hole
    BY <1>0, <2>1, <2>4 DEF Pending, TypeOK, Place
  <2>8. \A c, d \in Buffer :
          InFlight(c)' /\ InFlight(d)' /\ aio'[c].at = aio'[d].at => c = d
    BY <2>3 DEF Pending
  <2>9. Pending'
    BY <2>6, <2>7, <2>8 DEF Pending, Buffer, Place
  <2> QED
    BY <2>1, <2>2, <2>3, <2>9 DEF BufferIsFree, Starting, InStep, TypeOK
<1>13. CASE Start
  <2>1. TypeOK' /\ UNCHANGED <<cur, buf, aio, taken, offset, file>>
    BY <1>13 DEF Start, MainUnchanged, TypeOK, Phase, ThreadAt
  <2>2. Pending'
    BY <2>1, QuietKeepsPending
  <2> QED
    BY <1>13, <2>1, <2>2 DEF Start, BufferIsFree, Starting, InStep
<1>14. CASE Signal
  <2>1. /\ UNCHANGED <<cur, buf, aio, taken, offset, file>> /\ main' = "joining"
        /\ \/ pc = "reading" /\ pc' = "failed" /\ reported' = reported
           \/ pc = "suspended" /\ pc' = "dead" /\ reported' = TRUE
           \/ pc' = pc /\ reported' = reported
    BY <1>14, Zenon DEF Signal, MainUnchanged, WriteError
  <2>2. TypeOK'
    BY <2>1 DEF TypeOK, Phase, ThreadAt
  <2>3. Pending'
    BY <2>1, QuietKeepsPending
  <2> QED
    BY <2>1, <2>2, <2>3 DEF BufferIsFree, Starting, InStep
<1>15. CASE CloseSource \/ SetStop \/ Join \/ Destroy
  <2>1. /\ UNCHANGED <<pc, cur, buf, aio, taken, offset, file, reported>>
        /\ main' \in {"closed", "flagged", "stopped", "gone"}
    BY <1>15 DEF CloseSource, SetStop, Join, Destroy, MainUnchanged
  <2>2. TypeOK'
    BY <2>1 DEF TypeOK, Phase
  <2>3. Pending'
    BY <2>1, QuietKeepsPending
  <2> QED
    BY <2>1, <2>2, <2>3 DEF BufferIsFree, Starting, InStep
<1>16. CASE UNCHANGED vars
  <2>1. TypeOK' /\ Pending'
    BY <1>16, QuietKeepsPending DEF vars, TypeOK
  <2> QED
    BY <1>16, <2>1 DEF vars, BufferIsFree, Starting, InStep
<1> QED
  BY <1>1, <1>2, <1>3, <1>4, <1>5, <1>6, <1>7, <1>8, <1>9, <1>10, <1>11, <1>12, <1>13,
     <1>14, <1>15, <1>16 DEF Next, Step, Thread, MainLoop, Resume

-----------------------------------------------------------------------------
(* The inductive invariant holds in every reachable state.                 *)
LEMMA Invariance == Spec => []IInv
BY InitInv, NextInv, PTL DEF Spec

(* The thread reads into, and starts a write of, only buffers whose last   *)
(* request is over and collected (eDVBRecordFileThread::writeData).        *)
THEOREM BuffersFree == Spec => []BufferIsFree
<1>1. IInv => BufferIsFree
  BY DEF IInv
<1> QED
  BY <1>1, Invariance, PTL

(* The variables stay in their domains.                                    *)
THEOREM RecorderTyped == Spec => []TypeOK
<1>1. IInv => TypeOK
  BY DEF IInv
<1> QED
  BY <1>1, Invariance, PTL

(* Each step is a step of RecordedFile or leaves the stream and the file   *)
(* alone.                                                                  *)
LEMMA StepRefines ==
  IInv /\ [Next]_vars => [RF!Next]_<<taken, file>>
<1> SUFFICES ASSUME IInv, [Next]_vars PROVE RF!Next \/ UNCHANGED <<taken, file>>
  OBVIOUS
<1>1. CASE Deliver
  <2>1. RF!Take
    BY <1>1 DEF Deliver, RF!Take
  <2> QED
    BY <2>1 DEF RF!Next
<1>2. ASSUME NEW b \in Buffer, Finish(b) PROVE RF!Next \/ UNCHANGED <<taken, file>>
  <2>1. CASE UNCHANGED file
    BY <1>2, <2>1 DEF Finish
  <2>2. CASE file' = [file EXCEPT ![aio[b].at] = buf[b]]
    <3>1. InFlight(b) /\ taken' = taken
      BY <1>2 DEF Finish, InFlight
    <3>2. aio[b].at \in Place /\ aio[b].at < taken /\ file[aio[b].at] = Hole /\ buf[b] = aio[b].at
      BY <3>1, RecorderAssumption DEF IInv, TypeOK, InStep, Pending, Place
    <3>3. RF!Store(aio[b].at) /\ aio[b].at \in RF!Place
      BY <2>2, <3>1, <3>2 DEF RF!Store, RF!Place, Place
    <3> QED
      BY <3>3 DEF RF!Next
  <2> QED
    BY <1>2, <2>1, <2>2 DEF Finish
<1>3. CASE UNCHANGED vars
  BY <1>3 DEF vars
<1>4. CASE Next /\ ~Deliver /\ ~\E b \in Buffer : Finish(b)
  BY <1>4
  DEF Next, Step, Thread, MainLoop, CheckStop, EnterRead, ReadFails, AfterReadError, Submit,
      PollBack, WaitForBuffer, CancelBuffer, Resume, Begin, Start, CloseSource, SetStop,
      Signal, Join, Destroy, MainUnchanged
<1> QED
  BY <1>1, <1>2, <1>3, <1>4

(* A recording implements RecordedFile: in whatever order the kernel ends  *)
(* the writes, and whichever fail, each chunk that reaches the file        *)
(* reaches it once and at its own place.                                   *)
THEOREM RecordingInPlace == Spec => WritesInPlace
<1>1. Init => RF!Init
  BY DEF Init, RF!Init, Place, RF!Place
<1> QED
  BY <1>1, StepRefines, Invariance, PTL DEF Spec, WritesInPlace, RF!Spec

-----------------------------------------------------------------------------
(* What the owner sees of a recorder: its life.                            *)

(* stop() has joined the thread.                                           *)
Joined == main \in {"stopped", "gone"} => pc = "dead"

(* The thread does nothing before start() and nothing after its end.       *)
LEMMA ThreadAlive ==
  ASSUME TypeOK, Thread
  PROVE  pc \notin {"none", "dead"} /\ pc' # "none" /\ main' = main /\ (reported => reported')
BY DEF TypeOK, Thread, CheckStop, EnterRead, Deliver, ReadFails, AfterReadError, Submit, PollBack,
       WaitForBuffer, CancelBuffer, Resume, Collected, WriteError

LEMMA NextJoined == TypeOK /\ Joined /\ [Next]_vars => Joined'
<1> SUFFICES ASSUME TypeOK, Joined, [Next]_vars PROVE Joined'
  OBVIOUS
<1>1. CASE Thread
  BY <1>1, ThreadAlive DEF Joined
<1>2. CASE MainLoop
  BY <1>2 DEF MainLoop, Start, CloseSource, SetStop, Signal, Join, Destroy, WriteError, Joined
<1>3. CASE UNCHANGED <<main, pc>>
  BY <1>3 DEF Joined
<1> QED
  BY <1>1, <1>2, <1>3 DEF Next, Step, Begin, Finish, vars

(* What an owner sees of main, pc and reported.                            *)
Seen(m) == IF m \in {"closed", "flagged", "joining"} THEN "running" ELSE m
Own(m, c, r) ==
  [phase |-> Seen(m), alive |-> c \notin {"none", "dead"}, err |-> r /\ m \notin {"stopped", "gone"}]

LEMMA OwnIs ==
  ASSUME NEW m, NEW c, NEW r \in BOOLEAN, NEW a \in BOOLEAN, NEW e \in BOOLEAN,
         c \notin {"none", "dead"} <=> a, r /\ m \notin {"stopped", "gone"} <=> e
  PROVE  Own(m, c, r) = [phase |-> Seen(m), alive |-> a, err |-> e]
<1>1. (c \notin {"none", "dead"}) = a
  BY Zenon
<1>2. (r /\ m \notin {"stopped", "gone"}) = e
  BY Zenon
<1> QED
  BY <1>1, <1>2, Zenon DEF Own

LEMMA AsOwnedIs ==
  AsOwned = Own(main, pc, reported) /\ AsOwned' = Own(main', pc', reported')
BY Zenon DEF AsOwned, Own, Seen

(* The end of the thread, with or without a write error.                   *)
LEMMA DiesAsPromised ==
  ASSUME NEW p, NEW d \in BOOLEAN, NEW e \in {d, TRUE},
         AsOwned = [phase |-> p, alive |-> TRUE, err |-> d],
         AsOwned' = [phase |-> p, alive |-> FALSE, err |-> e]
  PROVE  Life!Next
<1>1. PICK no : no = FALSE
  BY Zenon
<1> DEFINE s == [AsOwned EXCEPT !.alive = no]
<1>2. AsOwned.alive /\ AsOwned.err = d
  OBVIOUS
<1>3. s = [phase |-> p, alive |-> no, err |-> d]
  OBVIOUS
<1>4. [AsOwned EXCEPT !.alive = no, !.err = e] = [s EXCEPT !.err = e]
  OBVIOUS
<1> HIDE DEF s
<1>5. [s EXCEPT !.err = e] = [phase |-> p, alive |-> no, err |-> e]
  BY <1>3
<1>6. [AsOwned EXCEPT !.alive = FALSE, !.err = e] = [phase |-> p, alive |-> FALSE, err |-> e]
  BY <1>1, <1>4, <1>5, Zenon
<1>7. AsOwned' \in Life!Ended(AsOwned)
  BY <1>2, <1>6, Zenon DEF Life!Ended
<1> QED
  BY <1>2, <1>7 DEF Life!Next, Life!ThreadEnds

(* The start of the thread.                                                *)
LEMMA BornAsPromised ==
  ASSUME NEW d, NEW new, NEW no, NEW now, NEW yes,
         AsOwned = [phase |-> new, alive |-> no, err |-> d],
         AsOwned' = [phase |-> now, alive |-> yes, err |-> d]
  PROVE  new = "new" /\ now = "running" /\ yes = TRUE => Life!Next
<1> DEFINE s == [AsOwned EXCEPT !.phase = now]
<1>1. AsOwned.phase = new
  OBVIOUS
<1>2. s = [phase |-> now, alive |-> no, err |-> d]
  OBVIOUS
<1>3. [AsOwned EXCEPT !.phase = now, !.alive = yes] = [s EXCEPT !.alive = yes]
  OBVIOUS
<1> HIDE DEF s
<1>4. [s EXCEPT !.alive = yes] = [phase |-> now, alive |-> yes, err |-> d]
  BY <1>2
<1> SUFFICES ASSUME new = "new", now = "running", yes = TRUE PROVE Life!Next
  OBVIOUS
<1>5. AsOwned' = [AsOwned EXCEPT !.phase = "running", !.alive = TRUE]
  BY <1>3, <1>4, Zenon
<1>6. AsOwned' \in Life!Started(AsOwned)
  BY <1>5, Zenon DEF Life!Started
<1> QED
  BY <1>1, <1>6 DEF Life!Next, Life!Start

(* A step of the thread, the kernel or the main loop is one of the life or *)
(* leaves it as it is.                                                     *)
LEMMA StepLives ==
  IInv /\ Joined /\ [Next]_vars => [Life!Next]_AsOwned
<1> SUFFICES ASSUME IInv, Joined, [Next]_vars PROVE Life!Next \/ UNCHANGED AsOwned
  OBVIOUS
<1>1. main \in Phase /\ pc \in ThreadAt /\ reported \in BOOLEAN /\ TypeOK
  BY DEF IInv, TypeOK
<1>2. CASE UNCHANGED <<main, pc, reported>>
  BY <1>2 DEF AsOwned
<1>3. CASE Thread
  <2>1. /\ pc \notin {"none", "dead"} /\ pc' # "none" /\ main' = main
        /\ main \notin {"stopped", "gone"}
    BY <1>1, <1>3, ThreadAlive DEF Joined
  <2>2. pc' = "dead" \/ reported' = reported
    BY <1>3 DEF Thread, CheckStop, EnterRead, Deliver, ReadFails, AfterReadError, Submit, PollBack,
                WaitForBuffer, CancelBuffer, Resume, Collected, WriteError
  <2>3. reported' = reported \/ reported' = TRUE
    BY <1>3 DEF Thread, CheckStop, EnterRead, Deliver, ReadFails, AfterReadError, Submit, PollBack,
                WaitForBuffer, CancelBuffer, Resume, Collected, WriteError
  <2>4. CASE pc' = "dead"
    <3>1. AsOwned = [phase |-> Seen(main), alive |-> TRUE, err |-> reported]
      BY <1>1, <2>1, AsOwnedIs, OwnIs
    <3>2. AsOwned' = [phase |-> Seen(main), alive |-> FALSE, err |-> reported']
      BY <1>1, <2>1, <2>3, <2>4, AsOwnedIs, OwnIs
    <3>3. reported' \in {reported, TRUE}
      BY <2>3
    <3> QED
      BY <1>1, <3>1, <3>2, <3>3, DiesAsPromised
  <2>5. CASE pc' # "dead"
    BY <2>1, <2>2, <2>5 DEF AsOwned
  <2> QED
    BY <2>4, <2>5
<1>4. CASE Start
  <2>1. main = "new" /\ main' = "running" /\ pc = "none" /\ pc' = "check" /\ reported' = reported
    BY <1>1, <1>4 DEF Start, IInv, Starting
  <2>2. Seen(main) = "new" /\ Seen(main') = "running"
    BY <2>1 DEF Seen
  <2>3. AsOwned = [phase |-> Seen(main), alive |-> FALSE, err |-> reported]
    BY <1>1, <2>1, AsOwnedIs, OwnIs
  <2>4. AsOwned' = [phase |-> Seen(main'), alive |-> TRUE, err |-> reported]
    BY <1>1, <2>1, AsOwnedIs, OwnIs
  <2> QED
    BY <2>2, <2>3, <2>4, BornAsPromised, Zenon
<1>5. CASE CloseSource \/ SetStop
  BY <1>5 DEF CloseSource, SetStop, AsOwned
<1>6. CASE Signal
  <2>1. CASE pc = "suspended"
    <3>1. main = "flagged" /\ main' = "joining" /\ pc' = "dead" /\ reported' = TRUE
      BY <1>6, <2>1 DEF Signal, WriteError
    <3>2. Seen(main) = "running" /\ Seen(main') = "running"
      BY <3>1 DEF Seen
    <3>3. AsOwned = [phase |-> Seen(main), alive |-> TRUE, err |-> reported]
      BY <1>1, <2>1, <3>1, AsOwnedIs, OwnIs
    <3>4. AsOwned' = [phase |-> Seen(main'), alive |-> FALSE, err |-> TRUE]
      BY <3>1, AsOwnedIs, OwnIs
    <3>5. TRUE \in {reported, TRUE}
      OBVIOUS
    <3> QED
      BY <1>1, <3>2, <3>3, <3>4, <3>5, DiesAsPromised
  <2>2. CASE pc # "suspended"
    BY <1>6, <2>2 DEF Signal, AsOwned
  <2> QED
    BY <2>1, <2>2
<1>7. CASE Join
  <2>1. AsOwned.phase = "running" /\ AsOwned' = Life!Stopped(AsOwned)
    BY <1>7 DEF Join, AsOwned, Life!Stopped
  <2> QED
    BY <2>1 DEF Life!Next, Life!Stop
<1>8. CASE Destroy
  <2>1. /\ AsOwned.phase \in {"new", "stopped"}
        /\ AsOwned' = [AsOwned EXCEPT !.phase = "gone"]
    BY <1>8 DEF Destroy, AsOwned
  <2> QED
    BY <2>1 DEF Life!Next, Life!Destroy
<1> QED
  BY <1>2, <1>3, <1>4, <1>5, <1>6, <1>7, <1>8 DEF Next, Step, MainLoop, Begin, Finish, vars

(* To its owner a recorder is a RecorderLife, whatever thread, kernel and  *)
(* source do: the thread that start() gave it may end once, with or without*)
(* a write error, and after stop() there is neither a thread nor an event. *)
(* That an error is followed by a stop() that returns rests on fairness.   *)
THEOREM LivesAsPromised == Spec => Life!Safety
<1>1. Init => AsOwned = Life!Fresh /\ Joined
  BY DEF Init, AsOwned, Life!Fresh, Joined
<1>2. IInv /\ Joined /\ [Next]_vars => Joined'
  BY NextJoined DEF IInv
<1> QED
  BY <1>1, <1>2, StepLives, Invariance, PTL DEF Spec, Life!Safety
===============================================================================
