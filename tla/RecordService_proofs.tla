------------------------- MODULE RecordService_proofs -------------------------
(***************************************************************************)
(* The recording service, for all sets of programs, services and faults:   *)
(* its recorder runs exactly while it believes to record, and filters the  *)
(* PIDs of the current program table.                                      *)
(*                                                                         *)
(* Every operator of RecordService stands for a function and yields the    *)
(* states that the function may leave.  The lemmas follow the calls from   *)
(* the inside out: each says what a function needs and what it guarantees  *)
(* of every state it leaves.                                               *)
(***************************************************************************)
EXTENDS RecordService, TLAPS

-----------------------------------------------------------------------------
(* The inductive invariant.                                                *)

ServiceRecord ==
  [state : {"Idle", "Prepared", "Recording"}, want : BOOLEAN, tuned : BOOLEAN,
   fd : BOOLEAN, pids : SUBSET Pids, filter : SUBSET Pids,
   rec : [phase : {"new", "running", "gone"}, alive : BOOLEAN, err : BOOLEAN],
   chan : {"none", "tuning", "ok", "failed"}, table : Program \cup {None},
   reading : BOOLEAN, have : BOOLEAN, prog : SUBSET Pids,
   res : {"ok", "failed"}, file : {"none", "empty", "data"}]

(* One recorder, which runs while the service records to a file.  A new    *)
(* one waits for its first PIDs; one that is gone left nothing behind.     *)
RecorderSound(s) ==
  /\ s.rec.phase = "running" <=> mode = "file" /\ s.state = "Recording"
  /\ s.rec.phase = "new" => s.state = "Prepared" /\ s.rec = L!Fresh
  /\ s.rec.phase = "gone" => s.rec = Gone
  /\ s.rec.phase # "gone" => s.fd /\ mode = "file"

(* A service only records once it is wanted and tuned.                     *)
RecordsOnDemand(s) == s.state = "Recording" => s.want /\ s.tuned

(* m_pids_active is what the recorder filters: its differences with a new  *)
(* program can be applied to the filter.                                   *)
FilterIsActive(s) ==
  /\ s.state = "Prepared" => s.pids = {}
  /\ s.rec.phase = "new" => s.filter = {}
  /\ s.rec.phase = "running" => s.filter = s.pids

(* A program that is remembered is the one of the table.                   *)
RemembersTable(s) ==
  /\ s.table # None => kind.usePMT
  /\ s.reading => kind.usePMT
  /\ s.have /\ s.table # None => s.prog = s.table

(* What holds in the middle of a call, when a table has arrived that the   *)
(* recorder does not know of ...                                           *)
Sound(s) ==
  /\ s \in ServiceRecord
  /\ RecorderSound(s) /\ RecordsOnDemand(s) /\ FilterIsActive(s) /\ RemembersTable(s)

Follows(s) ==
  mode = "file" /\ s.state = "Recording" /\ s.table # None => s.filter = s.table

(* ... and what every call leaves.                                         *)
Settled(s) == Sound(s) /\ Follows(s)

ServiceInv ==
  /\ kind \in Kinds /\ mode \in Modes
  /\ owner \in {"none", "prepared", "started", "ended"}
  /\ owner = "none" => svc.state = "Idle"
  /\ Settled(svc)

LEMMA Recorders ==
  /\ L!Fresh = [phase |-> "new", alive |-> FALSE, err |-> FALSE]
  /\ Gone = [phase |-> "gone", alive |-> FALSE, err |-> FALSE]
BY DEF L!Fresh, Gone

LEMMA TablePids == \A p \in Program : p \in SUBSET Pids
BY DEF Pids

-----------------------------------------------------------------------------
(* Recording.                                                              *)

(* The answer is one set of PIDs, and the table if there is one.           *)
LEMMA AnswersSound ==
  ASSUME NEW s, Sound(s)
  PROVE  /\ \A p \in Answers(s) : p \in SUBSET Pids /\ (s.table # None => p = s.table)
         /\ \A p, q \in Answers(s) : p = q
         /\ Answers(s) = {} => s.table = None
<1>1. /\ s.prog \in SUBSET Pids /\ s.table \in Program \cup {None}
      /\ s.have /\ s.table # None => s.prog = s.table
      /\ s.table # None => kind.usePMT
  BY DEF Sound, ServiceRecord, RemembersTable
<1>2. Cached \in SUBSET Pids
  BY DEF Pids
<1> QED
  BY <1>1, <1>2, TablePids DEF Answers

LEMMA OpenTargetSound ==
  ASSUME NEW s, Sound(s), s.state # "Idle", mode = "file", NEW u \in OpenTarget(s)
  PROVE  /\ Sound(u) /\ u.state = s.state /\ u.want = s.want /\ u.tuned = s.tuned
         /\ s.res = "ok" => (u.res = "ok" <=> u.rec # Gone)
         /\ u.rec = Gone => u.state = "Prepared"
<1>1. CASE s.rec # Gone /\ u = s
  BY <1>1, Recorders DEF OpenTarget, Sound, RecorderSound, ServiceRecord
<1>2. CASE s.rec = Gone /\ u = [s EXCEPT !.file = "empty", !.fd = TRUE, !.rec = L!Fresh,
                                         !.filter = {}]
  <2>1. s.state = "Prepared"
    BY <1>2, Recorders DEF Sound, RecorderSound, ServiceRecord
  <2>2. /\ u \in ServiceRecord /\ u.state = s.state /\ u.want = s.want /\ u.tuned = s.tuned
        /\ u.rec = L!Fresh /\ u.fd /\ u.filter = {} /\ u.pids = s.pids /\ u.table = s.table
        /\ u.have = s.have /\ u.prog = s.prog /\ u.reading = s.reading
    BY <1>2, Recorders DEF Sound, ServiceRecord
  <2> QED
    BY <2>1, <2>2, Recorders
       DEF Sound, RecorderSound, RecordsOnDemand, FilterIsActive, RemembersTable
<1>3. CASE s.rec = Gone /\ u = [s EXCEPT !.file = "none", !.res = "failed"]
  <2>1. s.state = "Prepared"
    BY <1>3, Recorders DEF Sound, RecorderSound, ServiceRecord
  <2>2. /\ u \in ServiceRecord /\ u.state = s.state /\ u.want = s.want /\ u.tuned = s.tuned
        /\ u.rec = s.rec /\ u.fd = s.fd /\ u.filter = s.filter /\ u.pids = s.pids
        /\ u.table = s.table /\ u.res = "failed"
        /\ u.have = s.have /\ u.prog = s.prog /\ u.reading = s.reading
    BY <1>3 DEF Sound, ServiceRecord
  <2> QED
    BY <1>3, <2>1, <2>2, Recorders
       DEF Sound, RecorderSound, RecordsOnDemand, FilterIsActive, RemembersTable
<1> QED
  BY <1>1, <1>2, <1>3 DEF OpenTarget

LEMMA RecordProgramSettles ==
  ASSUME NEW s, Sound(s), s.state # "Idle", s.want, s.tuned, mode = "file", s.rec # Gone,
         NEW t \in RecordProgram(s)
  PROVE  Settled(t) /\ t.state # "Idle" /\ t.want
<1>0. /\ s \in ServiceRecord /\ s.state \in {"Prepared", "Recording"}
      /\ RecorderSound(s) /\ FilterIsActive(s) /\ RemembersTable(s)
  BY DEF Sound, ServiceRecord
<1>1. CASE Answers(s) = {}
  <2>1. s.table = None
    BY <1>1, AnswersSound
  <2>2. t = [s EXCEPT !.have = TRUE, !.prog = {}]
    BY <1>1 DEF RecordProgram
  <2>3. /\ t \in ServiceRecord /\ t.state = s.state /\ t.want = s.want /\ t.tuned = s.tuned
        /\ t.rec = s.rec /\ t.fd = s.fd /\ t.filter = s.filter /\ t.pids = s.pids
        /\ t.table = None /\ t.reading = s.reading
    BY <1>0, <2>1, <2>2 DEF ServiceRecord
  <2> QED
    BY <1>0, <2>3 DEF Settled, Follows, Sound, RecorderSound, RecordsOnDemand, FilterIsActive,
                      RemembersTable
<1>2. CASE Answers(s) # {}
  <2> DEFINE p == CHOOSE q \in Answers(s) : TRUE
             u == [s EXCEPT !.have = TRUE, !.prog = p, !.filter = Filtered(s, p), !.pids = p]
  <2>1. p \in Answers(s)
    BY <1>2
  <2>2. p \in SUBSET Pids /\ (s.table # None => p = s.table)
    BY <2>1, AnswersSound
  <2>3. \/ s.rec.phase = "new" /\ s.state = "Prepared" /\ s.rec = L!Fresh
        \/ s.rec.phase = "running" /\ s.state = "Recording"
    BY <1>0 DEF RecorderSound, ServiceRecord
  <2>4. s.filter = s.pids
    BY <1>0, <2>3 DEF FilterIsActive
  <2>5. Filtered(s, p) = p
    BY <2>4 DEF Filtered
  <2>6. \/ s.state = "Recording" /\ t = u
        \/ s.state # "Recording" /\ \E r \in L!Started(u.rec) :
              t = [u EXCEPT !.state = "Recording", !.rec = r]
    BY <1>2 DEF RecordProgram
  <2> HIDE DEF p
  <2>7. /\ u \in ServiceRecord /\ u.want = s.want /\ u.tuned = s.tuned /\ u.rec = s.rec
        /\ u.fd = s.fd /\ u.filter = p /\ u.pids = p /\ u.table = s.table /\ u.have
        /\ u.prog = p /\ u.reading = s.reading /\ u.state = s.state
    BY <1>0, <2>2, <2>5 DEF ServiceRecord
  <2> HIDE DEF u
  <2>8. CASE s.state = "Recording" /\ t = u
    BY <1>0, <2>2, <2>3, <2>7, <2>8 DEF Settled, Follows, Sound, RecorderSound,
                      RecordsOnDemand, FilterIsActive, RemembersTable
  <2>9. ASSUME NEW r \in L!Started(u.rec), t = [u EXCEPT !.state = "Recording", !.rec = r],
               s.state # "Recording"
        PROVE  Settled(t) /\ t.state # "Idle" /\ t.want
    <3>1. /\ r \in [phase : {"new", "running", "gone"}, alive : BOOLEAN, err : BOOLEAN]
          /\ r.phase = "running"
      <4>1. u.rec \in [phase : {"new", "running", "gone"}, alive : BOOLEAN, err : BOOLEAN]
        BY <2>7 DEF ServiceRecord
      <4>2. PICK a \in BOOLEAN : r = [u.rec EXCEPT !.phase = "running", !.alive = a]
        BY <2>9 DEF L!Started
      <4> QED
        BY <4>1, <4>2
    <3>2. /\ t \in ServiceRecord /\ t.want = s.want /\ t.tuned = s.tuned /\ t.rec = r
          /\ t.fd = s.fd /\ t.filter = p /\ t.pids = p /\ t.table = s.table /\ t.have
          /\ t.prog = p /\ t.reading = s.reading /\ t.state = "Recording"
      BY <2>7, <2>9, <3>1 DEF ServiceRecord
    <3> QED
      BY <1>0, <2>2, <2>3, <3>1, <3>2 DEF Settled, Follows, Sound, RecorderSound,
                      RecordsOnDemand, FilterIsActive, RemembersTable
  <2> QED
    BY <2>6, <2>8, <2>9
<1> QED
  BY <1>1, <1>2

LEMMA RecordPreparedSettles ==
  ASSUME NEW s, Sound(s), s.state # "Idle", s.want, mode \in {"file", "stream"},
         NEW t \in RecordPrepared(s)
  PROVE  Settled(t) /\ t.state # "Idle" /\ t.want
<1> DEFINE r == [s EXCEPT !.res = "ok"]
<1>0. s \in ServiceRecord
  BY DEF Sound
<1>1. /\ r \in ServiceRecord /\ r.want = s.want /\ r.tuned = s.tuned /\ r.rec = s.rec
      /\ r.fd = s.fd /\ r.filter = s.filter /\ r.pids = s.pids /\ r.table = s.table
      /\ r.have = s.have /\ r.prog = s.prog /\ r.reading = s.reading /\ r.state = s.state
      /\ r.res = "ok"
  BY <1>0 DEF ServiceRecord
<1>2. \/ ~s.tuned /\ t = r
      \/ s.tuned /\ mode = "stream" /\ t = [r EXCEPT !.state = "Recording"]
      \/ s.tuned /\ mode = "file"
         /\ \E u \in OpenTarget(r) : IF u.res = "ok" THEN t \in RecordProgram(u) ELSE t = u
  BY DEF RecordPrepared
<1> HIDE DEF r
<1>3. Sound(r)
  BY <1>1 DEF Sound, RecorderSound, RecordsOnDemand, FilterIsActive, RemembersTable
<1>4. CASE ~s.tuned /\ t = r
  BY <1>1, <1>3, <1>4 DEF Settled, Follows, Sound, RecordsOnDemand
<1>5. CASE s.tuned /\ mode = "stream" /\ t = [r EXCEPT !.state = "Recording"]
  <2>1. /\ t \in ServiceRecord /\ t.want = s.want /\ t.tuned = s.tuned /\ t.rec = s.rec
        /\ t.fd = s.fd /\ t.filter = s.filter /\ t.pids = s.pids /\ t.table = s.table
        /\ t.have = s.have /\ t.prog = s.prog /\ t.reading = s.reading /\ t.state = "Recording"
    BY <1>1, <1>5 DEF ServiceRecord
  <2> QED
    BY <1>1, <1>3, <1>5, <2>1
       DEF Settled, Follows, Sound, RecorderSound, RecordsOnDemand, FilterIsActive, RemembersTable
<1>6. ASSUME s.tuned, mode = "file", NEW u \in OpenTarget(r),
             IF u.res = "ok" THEN t \in RecordProgram(u) ELSE t = u
      PROVE  Settled(t) /\ t.state # "Idle" /\ t.want
  <2>1. /\ Sound(u) /\ u.state = s.state /\ u.want /\ u.tuned
        /\ u.res = "ok" <=> u.rec # Gone
        /\ u.rec = Gone => u.state = "Prepared"
    BY <1>1, <1>3, <1>6, OpenTargetSound
  <2>2. CASE u.res = "ok"
    BY <1>6, <2>1, <2>2, RecordProgramSettles
  <2>3. CASE u.res # "ok"
    BY <1>6, <2>1, <2>3 DEF Settled, Follows
  <2> QED
    BY <2>2, <2>3
<1> QED
  BY <1>2, <1>4, <1>5, <1>6

-----------------------------------------------------------------------------
(* Tuning and the events of the PMT handler.                               *)

LEMMA NewsPreparedSettles ==
  ASSUME NEW s, Sound(s), s.state # "Idle", mode \in {"file", "stream"},
         NEW t \in NewsPrepared(s)
  PROVE  Settled(t) /\ t.state # "Idle" /\ t.want = s.want
<1>1. CASE s.want
  <2>1. t \in RecordPrepared(s)
    BY <1>1 DEF NewsPrepared
  <2>2. Settled(t) /\ t.state # "Idle" /\ t.want
    BY <1>1, <2>1, RecordPreparedSettles
  <2>3. s.want \in BOOLEAN /\ t.want \in BOOLEAN
    BY <2>2 DEF Settled, Sound, ServiceRecord
  <2> QED
    BY <1>1, <2>2, <2>3
<1>2. CASE ~s.want
  BY <1>2 DEF NewsPrepared, Settled, Follows, Sound, RecordsOnDemand
<1> QED
  BY <1>1, <1>2

LEMMA ReadTablesSettles ==
  ASSUME NEW s, Settled(s)
  PROVE  Settled(ReadTables(s)) /\ ReadTables(s).state = s.state /\ ReadTables(s).want = s.want
<1> DEFINE r == ReadTables(s)
<1>0. s \in ServiceRecord /\ Sound(s)
  BY DEF Settled, Sound
<1>1. CASE kind.usePMT
  <2>1. r = [s EXCEPT !.table = None, !.reading = TRUE]
    BY <1>1 DEF ReadTables
  <2> HIDE DEF r
  <2>2. /\ r \in ServiceRecord /\ r.want = s.want /\ r.tuned = s.tuned /\ r.rec = s.rec
        /\ r.fd = s.fd /\ r.filter = s.filter /\ r.pids = s.pids /\ r.table = None
        /\ r.have = s.have /\ r.prog = s.prog /\ r.state = s.state
    BY <1>0, <2>1 DEF ServiceRecord
  <2>3. Settled(r)
    BY <1>0, <1>1, <2>2 DEF Settled, Follows, Sound, RecorderSound, RecordsOnDemand,
                            FilterIsActive, RemembersTable
  <2> QED
    BY <2>2, <2>3 DEF r
<1>2. CASE ~kind.usePMT
  BY <1>2 DEF ReadTables
<1> QED
  BY <1>1, <1>2

LEMMA TunedInSettles ==
  ASSUME NEW s, Settled(s), mode \in {"file", "stream"}, NEW t \in TunedIn(s)
  PROVE  /\ Settled(t) /\ t.want = s.want
         /\ s.state # "Idle" => t.state # "Idle"
         /\ s.state = "Idle" => t.state = "Idle"
<1> DEFINE r == [s EXCEPT !.tuned = TRUE]
<1>0. s \in ServiceRecord /\ Sound(s)
  BY DEF Settled, Sound
<1>1. /\ r \in ServiceRecord /\ r.want = s.want /\ r.tuned /\ r.rec = s.rec
      /\ r.fd = s.fd /\ r.filter = s.filter /\ r.pids = s.pids /\ r.table = s.table
      /\ r.have = s.have /\ r.prog = s.prog /\ r.reading = s.reading /\ r.state = s.state
  BY <1>0 DEF ServiceRecord
<1>2. IF s.state = "Recording" /\ s.want THEN t \in RecordPrepared(r) ELSE t = r
  BY DEF TunedIn
<1> HIDE DEF r
<1>3. Settled(r)
  BY <1>0, <1>1 DEF Settled, Follows, Sound, RecorderSound, RecordsOnDemand,
                    FilterIsActive, RemembersTable
<1>4. CASE s.state = "Recording" /\ s.want
  <2>1. Settled(t) /\ t.state # "Idle" /\ t.want
    BY <1>1, <1>2, <1>3, <1>4, RecordPreparedSettles DEF Settled
  <2>2. s.want \in BOOLEAN /\ t.want \in BOOLEAN
    BY <1>0, <2>1 DEF Settled, Sound, ServiceRecord
  <2> QED
    BY <1>4, <2>1, <2>2
<1>5. CASE ~(s.state = "Recording" /\ s.want)
  BY <1>1, <1>2, <1>3, <1>5
<1> QED
  BY <1>4, <1>5

LEMMA AfterNewsSettles ==
  ASSUME NEW S, mode \in {"file", "stream"}, \A s \in S : Settled(s), NEW t \in AfterNews(S)
  PROVE  Settled(t) /\ \E s \in S : /\ t.want = s.want
                                    /\ s.state # "Idle" => t.state # "Idle"
                                    /\ s.state = "Idle" => t.state = "Idle"
<1>1. PICK s \in S : t \in TunedIn(ReadTables(s))
  BY DEF AfterNews
<1>2. Settled(ReadTables(s)) /\ ReadTables(s).state = s.state /\ ReadTables(s).want = s.want
  BY <1>1, ReadTablesSettles
<1> QED
  BY <1>1, <1>2, TunedInSettles

(* The answer that is remembered is forgotten, the channel changes its     *)
(* state, ...                                                              *)
LEMMA ForgetsAnswer ==
  ASSUME NEW s, Sound(s)
  PROVE  LET t == [s EXCEPT !.have = FALSE]
         IN  /\ Sound(t) /\ t.state = s.state /\ t.want = s.want /\ t.table = s.table
             /\ t.filter = s.filter
<1> DEFINE t == [s EXCEPT !.have = FALSE]
<1>1. /\ t \in ServiceRecord /\ t.want = s.want /\ t.tuned = s.tuned /\ t.rec = s.rec
      /\ t.fd = s.fd /\ t.filter = s.filter /\ t.pids = s.pids /\ t.table = s.table
      /\ ~t.have /\ t.prog = s.prog /\ t.reading = s.reading /\ t.state = s.state
  BY DEF Sound, ServiceRecord
<1> HIDE DEF t
<1>2. Sound(t)
  BY <1>1 DEF Sound, RecorderSound, RecordsOnDemand, FilterIsActive, RemembersTable
<1> QED
  BY <1>1, <1>2 DEF t

LEMMA ChannelSound ==
  ASSUME NEW s, Sound(s), NEW c \in {"none", "tuning", "ok", "failed"}
  PROVE  LET t == [s EXCEPT !.chan = c]
         IN  /\ Sound(t) /\ t.state = s.state /\ t.want = s.want /\ t.table = s.table
             /\ t.filter = s.filter
<1> DEFINE t == [s EXCEPT !.chan = c]
<1>1. /\ t \in ServiceRecord /\ t.want = s.want /\ t.tuned = s.tuned /\ t.rec = s.rec
      /\ t.fd = s.fd /\ t.filter = s.filter /\ t.pids = s.pids /\ t.table = s.table
      /\ t.have = s.have /\ t.prog = s.prog /\ t.reading = s.reading /\ t.state = s.state
  BY DEF Sound, ServiceRecord
<1> HIDE DEF t
<1>2. Sound(t)
  BY <1>1 DEF Sound, RecorderSound, RecordsOnDemand, FilterIsActive, RemembersTable
<1> QED
  BY <1>1, <1>2 DEF t

(* ... or a table that the recorder does not filter yet.                   *)
LEMMA TableSound ==
  ASSUME NEW s, Sound(s), kind.usePMT, NEW p \in Program
  PROVE  Sound([s EXCEPT !.table = p, !.have = FALSE])
<1> DEFINE t == [s EXCEPT !.table = p, !.have = FALSE]
<1>1. /\ t \in ServiceRecord /\ t.want = s.want /\ t.tuned = s.tuned /\ t.rec = s.rec
      /\ t.fd = s.fd /\ t.filter = s.filter /\ t.pids = s.pids
      /\ ~t.have /\ t.prog = s.prog /\ t.reading = s.reading /\ t.state = s.state
  BY DEF Sound, ServiceRecord
<1> HIDE DEF t
<1>2. Sound(t)
  BY <1>1 DEF Sound, RecorderSound, RecordsOnDemand, FilterIsActive, RemembersTable
<1> QED
  BY <1>1, <1>2 DEF t

LEMMA TuneSettles ==
  ASSUME NEW s, Sound(s), s.state = "Prepared", mode \in {"file", "stream"}, NEW t \in Tune(s)
  PROVE  Settled(t) /\ t.state # "Idle" /\ t.want = s.want
<1>0. s \in ServiceRecord
  BY DEF Sound
<1>1. ASSUME NEW x, Sound(x), x.state = "Prepared", NEW y \in StateChanged(x)
      PROVE  Settled(y) /\ y.state # "Idle" /\ y.want = x.want
  <2> DEFINE w == [x EXCEPT !.have = FALSE]
  <2>1. Sound(w) /\ w.state = "Prepared" /\ w.want = x.want
    BY <1>1, ForgetsAnswer
  <2>2. \/ y = x
        \/ y \in AfterNews(NewsPrepared(w))
        \/ y \in AfterNews({w})
    BY <1>1 DEF StateChanged
  <2> HIDE DEF w
  <2>3. CASE y = x
    BY <1>1, <2>3 DEF Settled, Follows
  <2>4. CASE y \in AfterNews(NewsPrepared(w))
    <3>1. \A q \in NewsPrepared(w) : Settled(q) /\ q.state # "Idle" /\ q.want = w.want
      BY <2>1, NewsPreparedSettles
    <3> QED
      BY <2>1, <2>4, <3>1, AfterNewsSettles
  <2>5. CASE y \in AfterNews({w})
    <3>1. Settled(w)
      BY <2>1 DEF Settled, Follows
    <3> QED
      BY <2>1, <2>5, <3>1, AfterNewsSettles
  <2> QED
    BY <2>2, <2>3, <2>4, <2>5
<1>2. ASSUME NEW y, Settled(y), y.state # "Idle", y.want = s.want, NEW r \in {"ok", "failed"},
             t = [y EXCEPT !.res = r]
      PROVE  Settled(t) /\ t.state # "Idle" /\ t.want = s.want
  <2>1. /\ t \in ServiceRecord /\ t.want = y.want /\ t.tuned = y.tuned /\ t.rec = y.rec
        /\ t.fd = y.fd /\ t.filter = y.filter /\ t.pids = y.pids /\ t.table = y.table
        /\ t.have = y.have /\ t.prog = y.prog /\ t.reading = y.reading /\ t.state = y.state
    BY <1>2 DEF Settled, Sound, ServiceRecord
  <2> QED
    BY <1>2, <2>1 DEF Settled, Follows, Sound, RecorderSound, RecordsOnDemand, FilterIsActive,
                      RemembersTable
<1>3. ASSUME NEW c \in Channels(s), NEW y \in StateChanged([s EXCEPT !.chan = c])
      PROVE  Settled(y) /\ y.state # "Idle" /\ y.want = s.want
  <2>1. c \in {"none", "tuning", "ok", "failed"}
    BY <1>0, <1>3 DEF Channels, ServiceRecord
  <2> DEFINE v == [s EXCEPT !.chan = c]
  <2>2. Sound(v) /\ v.state = "Prepared" /\ v.want = s.want
    BY <2>1, ChannelSound
  <2> HIDE DEF v
  <2>3. y \in StateChanged(v)
    BY <1>3 DEF v
  <2> QED
    BY <1>1, <2>2, <2>3
<1>4. \/ \E c \in Channels(s) : \E y \in StateChanged([s EXCEPT !.chan = c]) :
           t = [y EXCEPT !.res = "ok"]
      \/ t = [s EXCEPT !.res = "failed"]
  BY DEF Tune
<1>5. Settled(s)
  BY DEF Settled, Follows
<1> QED
  BY <1>2, <1>3, <1>4, <1>5

LEMMA DoPrepareSettles ==
  ASSUME NEW s, Sound(s), s.state = "Idle", mode \in {"file", "stream"}, NEW t \in DoPrepare(s)
  PROVE  Settled(t) /\ t.state # "Idle" /\ t.want = s.want
<1> DEFINE r == [s EXCEPT !.state = "Prepared", !.pids = {}]
<1>1. /\ r \in ServiceRecord /\ r.want = s.want /\ r.tuned = s.tuned /\ r.rec = s.rec
      /\ r.fd = s.fd /\ r.filter = s.filter /\ r.pids = {} /\ r.table = s.table
      /\ r.have = s.have /\ r.prog = s.prog /\ r.reading = s.reading /\ r.state = "Prepared"
  BY DEF Sound, ServiceRecord
<1>2. t \in Tune(r)
  BY DEF DoPrepare
<1> HIDE DEF r
<1>3. Sound(r)
  BY <1>1 DEF Sound, RecorderSound, RecordsOnDemand, FilterIsActive, RemembersTable
<1> QED
  BY <1>1, <1>2, <1>3, TuneSettles

LEMMA DoRecordSettles ==
  ASSUME NEW s, Sound(s), s.want, mode \in {"file", "stream"}, NEW t \in DoRecord(s)
  PROVE  Settled(t) /\ t.state # "Idle"
<1>1. CASE s.state # "Idle"
  BY <1>1, RecordPreparedSettles DEF DoRecord
<1>2. CASE s.state = "Idle"
  <2>1. PICK u \in DoPrepare(s) : IF u.res = "ok" THEN t \in RecordPrepared(u) ELSE t = u
    BY <1>2 DEF DoRecord
  <2>2. Settled(u) /\ u.state # "Idle" /\ u.want
    BY <1>2, <2>1, DoPrepareSettles
  <2> QED
    BY <2>1, <2>2, RecordPreparedSettles DEF Settled
<1> QED
  BY <1>1, <1>2

LEMMA NewProgramInfoSettles ==
  ASSUME NEW s, Sound(s), mode \in {"file", "stream"}, NEW t \in NewProgramInfo(s)
  PROVE  Settled(t)
BY DoPrepareSettles, NewsPreparedSettles DEF NewProgramInfo

LEMMA StoppedSettles ==
  ASSUME NEW s, Sound(s)
  PROVE  Settled(Stopped(s)) /\ Stopped(s).state = "Idle" /\ Stopped(s).rec = Gone
<1> DEFINE t == Stopped(s)
<1>1. /\ t \in ServiceRecord /\ t.want = s.want /\ t.tuned = s.tuned /\ t.rec = Gone
      /\ t.filter = s.filter /\ t.pids = s.pids /\ t.table = s.table
      /\ t.have = s.have /\ t.prog = s.prog /\ t.reading = s.reading /\ t.state = "Idle"
  BY Recorders DEF Sound, ServiceRecord, Stopped
<1> HIDE DEF t
<1>2. Settled(t)
  BY <1>1, Recorders DEF Settled, Follows, Sound, RecorderSound, RecordsOnDemand, FilterIsActive,
                         RemembersTable
<1> QED
  BY <1>1, <1>2 DEF t

-----------------------------------------------------------------------------
(* The actions.                                                            *)

LEMMA NewServiceSettled == Settled(NewService) /\ NewService.state = "Idle"
<1>1. NewService \in ServiceRecord
  BY Recorders DEF NewService, ServiceRecord
<1> QED
  BY <1>1, Recorders DEF NewService, Settled, Follows, Sound, RecorderSound, RecordsOnDemand,
                         FilterIsActive, RemembersTable

LEMMA DroppedSettled ==
  ASSUME NEW s, Sound(s)
  PROVE  Settled(Dropped(s)) /\ Dropped(s).state = "Idle"
<1> DEFINE t == Dropped(s)
<1>1. Stopped(s).file \in {"none", "empty", "data"}
  BY StoppedSettles DEF Settled, Sound, ServiceRecord
<1>2. t = [NewService EXCEPT !.file = Stopped(s).file]
  BY DEF Dropped
<1> HIDE DEF t
<1>3. /\ t \in ServiceRecord /\ t.state = "Idle" /\ t.rec = Gone /\ t.pids = {} /\ t.table = None
      /\ ~t.reading
  BY <1>1, <1>2, Recorders DEF NewService, ServiceRecord
<1>4. Settled(t)
  BY <1>3, Recorders DEF Settled, Follows, Sound, RecorderSound, RecordsOnDemand,
                         FilterIsActive, RemembersTable
<1> QED
  BY <1>3, <1>4 DEF t

(* s and t differ at most in their channel, their file, their last result, *)
(* an answer that is the table's, and the thread of a recorder that runs.  *)
Alike(s, t) ==
  /\ t \in ServiceRecord /\ t.state = s.state
  /\ (t.want <=> s.want) /\ (t.tuned <=> s.tuned) /\ (t.fd <=> s.fd)
  /\ (t.reading <=> s.reading)
  /\ t.pids = s.pids /\ t.filter = s.filter /\ t.table = s.table
  /\ t.have /\ t.table # None => t.prog = t.table
  /\ t.rec # s.rec => t.rec.phase = "running" /\ s.rec.phase = "running"

LEMMA AlikeSettled ==
  ASSUME NEW s, NEW t, Settled(s), Alike(s, t)
  PROVE  Settled(t) /\ t.state = s.state
BY DEF Alike, Settled, Follows, Sound, RecorderSound, RecordsOnDemand, FilterIsActive,
       RemembersTable

LEMMA ChannelSettles ==
  ASSUME ServiceInv, ChannelStateChanged
  PROVE  Settled(svc') /\ owner' = owner /\ owner # "none"
<1>0. /\ svc \in ServiceRecord /\ Settled(svc) /\ Sound(svc) /\ mode \in {"file", "stream"}
      /\ owner # "none" /\ owner' = owner
  BY ServiceAssumption DEF ServiceInv, Settled, Sound, ChannelStateChanged, Serving
<1>1. ASSUME NEW c \in {"tuning", "failed"}, svc' = [svc EXCEPT !.chan = c]
      PROVE  Settled(svc')
  <2>1. Alike(svc, svc')
    BY <1>0, <1>1 DEF Alike, ServiceRecord, Settled, Sound, RemembersTable
  <2> QED
    BY <1>0, <2>1, AlikeSettled
<1> DEFINE t == [svc EXCEPT !.chan = "ok", !.have = FALSE]
<1>2. Alike(svc, t)
  BY <1>0 DEF Alike, ServiceRecord
<1>3. \/ \E c \in {"tuning", "failed"} : svc' = [svc EXCEPT !.chan = c]
      \/ svc' \in AfterNews(IF kind.cache THEN NewProgramInfo(t) ELSE {t})
  BY DEF ChannelStateChanged
<1> HIDE DEF t
<1>4. Settled(t)
  BY <1>0, <1>2, AlikeSettled
<1>5. \A s \in (IF kind.cache THEN NewProgramInfo(t) ELSE {t}) : Settled(s)
  BY <1>0, <1>4, NewProgramInfoSettles DEF Settled
<1>6. svc' \in AfterNews(IF kind.cache THEN NewProgramInfo(t) ELSE {t}) => Settled(svc')
  BY <1>0, <1>5, AfterNewsSettles
<1> QED
  BY <1>0, <1>1, <1>3, <1>6

LEMMA RecorderSettles ==
  ASSUME ServiceInv, SourceStopped \/ GetStreamingData \/ ThreadWrites \/ ThreadEnds \/ WriteError
  PROVE  Settled(svc') /\ owner' = owner /\ (owner = "none" => svc'.state = "Idle")
<1>0. /\ svc \in ServiceRecord /\ Settled(svc) /\ Sound(svc)
      /\ owner = "none" => svc.state = "Idle"
      /\ owner' = owner
  BY DEF ServiceInv, Settled, Sound, SourceStopped, GetStreamingData, ThreadWrites, ThreadEnds,
         WriteError
<1>1. CASE SourceStopped \/ WriteError
  BY <1>0, <1>1, StoppedSettles DEF SourceStopped, WriteError
<1>2. CASE GetStreamingData
  <2>1. svc' = [svc EXCEPT !.have = TRUE, !.prog = UNION Answers(svc)]
    BY <1>2 DEF GetStreamingData
  <2> DEFINE u == UNION Answers(svc)
  <2>2. u \in SUBSET Pids /\ (svc.table # None => u = svc.table)
    BY <1>0, AnswersSound
  <2> HIDE DEF u
  <2>3. svc' = [svc EXCEPT !.have = TRUE, !.prog = u]
    BY <2>1 DEF u
  <2>4. Alike(svc, svc')
    BY <1>0, <2>2, <2>3 DEF Alike, ServiceRecord
  <2> QED
    BY <1>0, <2>4, AlikeSettled
<1>3. CASE ThreadWrites
  <2>1. svc' = [svc EXCEPT !.file = "data"]
    BY <1>3 DEF ThreadWrites
  <2>2. Alike(svc, svc')
    BY <1>0, <2>1 DEF Alike, ServiceRecord, Settled, Sound, RemembersTable
  <2> QED
    BY <1>0, <2>2, AlikeSettled
<1>4. CASE ThreadEnds
  <2>1. PICK r \in L!Ended(svc.rec) : svc' = [svc EXCEPT !.rec = r]
    BY <1>4 DEF ThreadEnds
  <2>2. svc.rec.alive
    BY <1>4 DEF ThreadEnds
  <2>3. svc.rec \in [phase : {"new", "running", "gone"}, alive : BOOLEAN, err : BOOLEAN]
    BY <1>0 DEF ServiceRecord
  <2>4. svc.rec.phase = "running"
    BY <1>0, <2>2, <2>3, Recorders DEF Sound, RecorderSound
  <2>5. PICK e \in {svc.rec.err, TRUE} : r = [svc.rec EXCEPT !.alive = FALSE, !.err = e]
    BY <2>1 DEF L!Ended
  <2>6. /\ r \in [phase : {"new", "running", "gone"}, alive : BOOLEAN, err : BOOLEAN]
        /\ r.phase = "running"
    BY <2>3, <2>4, <2>5
  <2>7. Alike(svc, svc')
    BY <1>0, <2>1, <2>4, <2>6 DEF Alike, ServiceRecord, Settled, Sound, RemembersTable
  <2> QED
    BY <1>0, <2>7, AlikeSettled
<1> QED
  BY <1>1, <1>2, <1>3, <1>4

LEMMA OwnerSettles ==
  ASSUME ServiceInv, TryPrepare \/ Activate \/ ExecBegin \/ StopRecordService
  PROVE  Settled(svc') /\ owner' \in {"prepared", "started", "ended"}
<1>0. /\ svc \in ServiceRecord /\ Settled(svc) /\ Sound(svc) /\ mode \in {"file", "stream"}
      /\ owner = "none" => svc.state = "Idle"
  BY ServiceAssumption DEF ServiceInv, Settled, Sound
<1>1. ASSUME NEW s, Settled(s)
      PROVE  /\ Settled([s EXCEPT !.file = "empty"])
             /\ Settled([s EXCEPT !.want = TRUE]) /\ [s EXCEPT !.want = TRUE].want
             /\ [s EXCEPT !.want = TRUE].state = s.state
  <2> DEFINE t == [s EXCEPT !.file = "empty"]
             u == [s EXCEPT !.want = TRUE]
  <2>1. Alike(s, t)
    BY <1>1 DEF Alike, ServiceRecord, Settled, Sound, RemembersTable
  <2>2. /\ u \in ServiceRecord /\ u.state = s.state /\ u.want /\ u.tuned = s.tuned
        /\ u.fd = s.fd /\ u.pids = s.pids /\ u.filter = s.filter /\ u.table = s.table
        /\ u.reading = s.reading /\ u.have = s.have /\ u.prog = s.prog /\ u.rec = s.rec
    BY <1>1 DEF Settled, Sound, ServiceRecord
  <2> HIDE DEF t, u
  <2>3. Settled(t)
    BY <1>1, <2>1, AlikeSettled
  <2>4. Settled(u)
    BY <1>1, <2>2 DEF Settled, Follows, Sound, RecorderSound, RecordsOnDemand, FilterIsActive,
                      RemembersTable
  <2> QED
    BY <2>2, <2>3, <2>4 DEF t, u
<1>2. CASE TryPrepare
  <2>1. PICK s \in DoPrepare(svc) :
          \/ owner' = "prepared" /\ svc' = [s EXCEPT !.file = "empty"]
          \/ owner' = "ended" /\ svc' = Dropped(s)
    BY <1>2 DEF TryPrepare
  <2>2. Settled(s)
    BY <1>0, <1>2, <2>1, DoPrepareSettles DEF TryPrepare
  <2> QED
    BY <1>1, <2>1, <2>2, DroppedSettled DEF Settled
<1>3. CASE Activate
  <2>1. svc' \in DoRecord([svc EXCEPT !.want = TRUE]) /\ owner' \in {"prepared", "started"}
    BY <1>3 DEF Activate
  <2>2. Sound([svc EXCEPT !.want = TRUE]) /\ [svc EXCEPT !.want = TRUE].want
    BY <1>0, <1>1 DEF Settled
  <2> QED
    BY <1>0, <2>1, <2>2, DoRecordSettles
<1>4. CASE ExecBegin
  <2>1. PICK s \in DoPrepare(svc) : svc' \in DoRecord([s EXCEPT !.want = TRUE])
    BY <1>4 DEF ExecBegin
  <2>2. Settled(s)
    BY <1>0, <1>4, <2>1, DoPrepareSettles DEF ExecBegin
  <2>3. Sound([s EXCEPT !.want = TRUE]) /\ [s EXCEPT !.want = TRUE].want
    BY <1>1, <2>2 DEF Settled
  <2>4. owner' = "started"
    BY <1>4 DEF ExecBegin
  <2> QED
    BY <1>0, <2>1, <2>3, <2>4, DoRecordSettles
<1>5. CASE StopRecordService
  BY <1>0, <1>5, DroppedSettled DEF StopRecordService
<1> QED
  BY <1>2, <1>3, <1>4, <1>5

LEMMA InitService == Init => ServiceInv
BY NewServiceSettled DEF Init, ServiceInv

LEMMA NextService == ServiceInv /\ [Next]_vars => ServiceInv'
<1> SUFFICES ASSUME ServiceInv, [Next]_vars PROVE ServiceInv'
  OBVIOUS
<1>0. /\ Settled(svc) /\ Sound(svc) /\ mode \in {"file", "stream"} /\ kind' = kind /\ mode' = mode
      /\ owner \in {"none", "prepared", "started", "ended"} /\ kind \in Kinds /\ mode \in Modes
      /\ owner = "none" => svc.state = "Idle"
  BY ServiceAssumption DEF ServiceInv, Settled, Next, vars
<1>1. ASSUME Settled(svc'), owner' \in {"none", "prepared", "started", "ended"},
             owner' = "none" => svc'.state = "Idle"
      PROVE  ServiceInv'
  BY <1>0, <1>1 DEF ServiceInv, Settled, Follows, Sound, ServiceRecord, RecorderSound,
                    RecordsOnDemand, FilterIsActive, RemembersTable, Pids, Gone, L!Fresh
<1>2. CASE UNCHANGED vars
  BY <1>0, <1>1, <1>2 DEF vars
<1>3. CASE ChannelStateChanged
  BY <1>0, <1>1, <1>3, ChannelSettles
<1>4. CASE PMTready
  <2>1. PICK p \in Program : svc' \in NewProgramInfo([svc EXCEPT !.table = p, !.have = FALSE])
    BY <1>4 DEF PMTready
  <2>2. kind.usePMT /\ owner # "none" /\ owner' = owner
    BY <1>0, <1>4 DEF PMTready, Serving, Sound, RemembersTable
  <2>3. Sound([svc EXCEPT !.table = p, !.have = FALSE])
    BY <1>0, <2>2, TableSound
  <2>4. Settled(svc')
    BY <1>0, <2>1, <2>3, NewProgramInfoSettles
  <2> QED
    BY <1>0, <1>1, <2>2, <2>4
<1>5. CASE SourceStopped \/ GetStreamingData \/ ThreadWrites \/ ThreadEnds \/ WriteError
  BY <1>0, <1>1, <1>5, RecorderSettles
<1>6. CASE TryPrepare \/ Activate \/ ExecBegin \/ StopRecordService
  BY <1>0, <1>1, <1>6, OwnerSettles
<1> QED
  BY <1>2, <1>3, <1>4, <1>5, <1>6 DEF Next

LEMMA ServiceAlways == Spec => []ServiceInv
BY InitService, NextService, PTL DEF Spec

-----------------------------------------------------------------------------
(* What follows.                                                           *)

(* The service, its PMT handler and its recorder stay in the states that   *)
(* their fields are meant for.                                             *)
THEOREM TypeCorrect == Spec => []TypeOK
<1>1. ServiceInv => TypeOK
  BY DEF ServiceInv, Settled, Sound, ServiceRecord, TypeOK
<1> QED
  BY <1>1, ServiceAlways, PTL

(* However often it is stopped, restarted and told of its tuner inside its *)
(* own calls, a service records to a file exactly while one recorder of    *)
(* its own runs, on an open descriptor.                                    *)
THEOREM RecorderAlwaysMatches == Spec => []RecorderMatches
<1>1. ServiceInv => RecorderMatches
  BY DEF ServiceInv, Settled, Sound, RecorderSound, RecorderMatches
<1> QED
  BY <1>1, ServiceAlways, PTL

(* The recorder filters exactly the PIDs of the program table that is      *)
(* known, whatever differences were applied to its filter.                 *)
THEOREM FiltersAlwaysFollow == Spec => []FiltersFollowPMT
<1>1. ServiceInv => FiltersFollowPMT
  BY DEF ServiceInv, Settled, Follows, FiltersFollowPMT
<1> QED
  BY <1>1, ServiceAlways, PTL
=============================================================================
