---------------------------- MODULE RecordService ----------------------------
(***************************************************************************)
(* One recording service: eDVBServiceRecord (lib/service/                  *)
(* servicedvbrecord.cpp) with the PMT handler that feeds it (lib/dvb/      *)
(* pmt.cpp), the recorder it owns, seen through the promise of             *)
(* RecorderLife, and the recording timer or stream page that owns it.      *)
(*                                                                         *)
(* All of it runs on the main loop, but every call may call back: start()  *)
(* may tune, tuning tells the handler the state of a shared channel, the   *)
(* handler tells the service of a cached program, and that starts the      *)
(* recorder inside the start() that has not tuned yet.  The operators      *)
(* below follow these calls: each yields the set of states, one for every  *)
(* way the outside can answer, that its function may leave.                *)
(***************************************************************************)
EXTENDS FiniteSets

CONSTANTS
  Program,    (* the programs a PMT may announce: sets of PIDs             *)
  Cached,     (* the PIDs of the service cache (eDVBService)               *)
  Kinds,      (* services: whether they read a PMT (usePMT), whether the   *)
              (* cache knows PIDs of them, and whether their source is a   *)
              (* stream or a file (a PVR channel) that may end             *)
  Modes,      (* "file": prepare(); "stream": prepareStreaming()           *)
  Faults,     (* what may fail: "tune", "open", "thread", "write"          *)
  None        (* no program table                                          *)

ASSUME ServiceAssumption ==
  /\ Kinds \subseteq [usePMT : BOOLEAN, cache : BOOLEAN, pvr : BOOLEAN]
  /\ Modes \subseteq {"file", "stream"} /\ Faults \subseteq {"tune", "open", "thread", "write"}
  /\ None \notin Program

VARIABLES
  kind,       (* the service that is recorded                              *)
  mode,       (* to a file, or streamed by others                          *)
  owner,      (* how far the timer or the stream page is                   *)
  svc         (* the service, its PMT handler, its recorder and its file   *)

vars == <<kind, mode, owner, svc>>

L == INSTANCE RecorderLife WITH life <- svc.rec

Gone == [phase |-> "gone", alive |-> FALSE, err |-> FALSE]

(* state, want, tuned, fd, pids: m_state, m_want_record, m_tuned, whether  *)
(* m_target_fd is open, m_pids_active; rec, filter: m_record and its       *)
(* m_pids; chan, table, reading: the state of m_channel, the current table *)
(* of m_PMT and whether it waits for a next one; have, prog:               *)
(* m_have_cached_program, m_cached_program; res: how the last call ended;  *)
(* file: what the recording holds.                                         *)
NewService ==
  [state |-> "Idle", want |-> FALSE, tuned |-> FALSE, fd |-> FALSE, pids |-> {},
   rec |-> Gone, filter |-> {}, chan |-> "none", table |-> None, reading |-> FALSE,
   have |-> FALSE, prog |-> {}, res |-> "ok", file |-> "none"]

Pids == (UNION Program) \cup Cached

TypeOK ==
  /\ kind \in Kinds /\ mode \in Modes
  /\ owner \in {"none", "prepared", "started", "ended"}
  /\ svc \in [state : {"Idle", "Prepared", "Recording"}, want : BOOLEAN, tuned : BOOLEAN,
              fd : BOOLEAN, pids : SUBSET Pids, filter : SUBSET Pids,
              rec : [phase : {"new", "running", "gone"}, alive : BOOLEAN, err : BOOLEAN],
              chan : {"none", "tuning", "ok", "failed"}, table : Program \cup {None},
              reading : BOOLEAN, have : BOOLEAN, prog : SUBSET Pids,
              res : {"ok", "failed"}, file : {"none", "empty", "data"}]

Init ==
  /\ kind \in Kinds /\ mode \in Modes
  /\ owner = "none"
  /\ svc = NewService

-----------------------------------------------------------------------------
(* eDVBServiceRecord::doRecord once the service is prepared.               *)

(* The file of an earlier attempt is removed, and the descriptor goes to a *)
(* new recorder; or the file cannot be opened.                             *)
OpenTarget_Again(s) == {[s EXCEPT !.file = "empty", !.fd = TRUE, !.rec = L!Fresh, !.filter = {}]}

OpenTarget(s) ==
  IF s.rec # Gone THEN {s}
  ELSE {[s EXCEPT !.file = "empty", !.fd = TRUE, !.rec = L!Fresh, !.filter = {}]}
       \cup IF "open" \in Faults THEN {[s EXCEPT !.file = "none", !.res = "failed"]} ELSE {}

(* eDVBServicePMTHandler::getProgramInfo: what was answered before, the    *)
(* PMT, or the service cache; none of them is a failure, but one that is   *)
(* taken for an answer the next time.                                      *)
Answers(s) ==
  IF s.have THEN {s.prog}
  ELSE IF kind.usePMT /\ s.table # None THEN {s.table}
  ELSE IF kind.cache THEN {Cached} ELSE {}

Filtered(s, p) == (s.filter \cup (p \ s.pids)) \ (s.pids \ p)

(* The PIDs of the program go to the recorder, which starts with the first *)
(* of them.                                                                *)
RecordProgram(s) ==
  IF Answers(s) = {} THEN {[s EXCEPT !.have = TRUE, !.prog = {}]}
  ELSE LET p == CHOOSE q \in Answers(s) : TRUE
           t == [s EXCEPT !.have = TRUE, !.prog = p, !.filter = Filtered(s, p), !.pids = p]
       IN  IF s.state = "Recording" THEN {t}
           ELSE {[t EXCEPT !.state = "Recording", !.rec = r] :
                   r \in {q \in L!Started(t.rec) : q.alive \/ "thread" \in Faults}}

(* Without a tuner the service stays prepared.                             *)
RecordPrepared(s) ==
  LET t == [s EXCEPT !.res = "ok"] IN
  IF ~s.tuned THEN {t}
  ELSE IF mode = "stream" THEN {[t EXCEPT !.state = "Recording"]}
  ELSE UNION {IF u.res = "ok" THEN RecordProgram(u) ELSE {u} : u \in OpenTarget(t)}

-----------------------------------------------------------------------------
(* Tuning, and what the PMT handler tells the service.                     *)

(* eventNewProgramInfo when the service is not idle.                       *)
NewsPrepared_Recording(s) == IF s.want /\ s.state = "Recording" THEN RecordPrepared(s) ELSE {s}
NewsPrepared(s) == IF s.want THEN RecordPrepared(s) ELSE {s}

(* eventTuned.                                                             *)
TunedIn(s) ==
  LET t == [s EXCEPT !.tuned = TRUE] IN
  IF s.state = "Recording" /\ s.want THEN RecordPrepared(t) ELSE {t}

(* m_PMT.begin.                                                            *)
ReadTables(s) == IF kind.usePMT THEN [s EXCEPT !.table = None, !.reading = TRUE] ELSE s

(* channelStateChanged: m_last_channel_state is not kept, so that every    *)
(* state_ok tells the cached program, starts the tables afresh and tells   *)
(* of the tuner; here of a service that is not idle.                       *)
AfterNews(S) == UNION {TunedIn(ReadTables(s)) : s \in S}

StateChanged(s) ==
  LET t == [s EXCEPT !.have = FALSE] IN
  IF s.chan # "ok" THEN {s}
  ELSE AfterNews(IF kind.cache THEN NewsPrepared(t) ELSE {t})

(* tuneExt: a handler that has its channel finds it again; the channel of  *)
(* a stream or a file is new and runs at once, unless its source is not    *)
(* valid; any other may be shared in whatever state it is.                 *)
Channels(s) ==
  IF kind.pvr THEN {"ok", "tuning"}
  ELSE IF s.chan # "none" THEN {s.chan}
  ELSE {"tuning", "ok", "failed"}

Tune(s) ==
  {[t EXCEPT !.res = "ok"] :
     t \in UNION {StateChanged([s EXCEPT !.chan = c]) : c \in Channels(s)}}
  \cup IF s.chan = "none" /\ "tune" \in Faults THEN {[s EXCEPT !.res = "failed"]} ELSE {}

(* doPrepare of an idle service: it is prepared even if it cannot be tuned.*)
DoPrepare_KeepsPids(s) == Tune([s EXCEPT !.state = "Prepared"])
DoPrepare(s) == Tune([s EXCEPT !.state = "Prepared", !.pids = {}])

DoRecord(s) ==
  IF s.state # "Idle" THEN RecordPrepared(s)
  ELSE UNION {IF t.res = "ok" THEN RecordPrepared(t) ELSE {t} : t \in DoPrepare(s)}

NewProgramInfo(s) == IF s.state = "Idle" THEN DoPrepare(s) ELSE NewsPrepared(s)

(* eDVBServiceRecord::stop.                                                *)
Stopped_KeepsRecorder(s) ==
  [s EXCEPT !.fd = s.fd /\ s.state # "Recording", !.rec = L!Stopped(@), !.state = "Idle"]
Stopped(s) ==
  [s EXCEPT !.fd = s.fd /\ s.state # "Recording", !.rec = Gone, !.state = "Idle"]

-----------------------------------------------------------------------------
(* What happens to the service on the main loop.                           *)

Serving == owner \notin {"none", "ended"}

(* The channel locks, fails, or loses its transponder.                     *)
ChannelStateChanged ==
  /\ Serving /\ ~kind.pvr /\ svc.chan # "none"
  /\ \/ \E c \in {"tuning", "failed"} \ {svc.chan} : svc' = [svc EXCEPT !.chan = c]
     \/ LET t == [svc EXCEPT !.chan = "ok", !.have = FALSE]
        IN  /\ svc.chan # "ok"
            /\ svc' \in AfterNews(IF kind.cache THEN NewProgramInfo(t) ELSE {t})
  /\ UNCHANGED owner

(* A program table arrives, the first one or a new version.                *)
PMTready ==
  /\ Serving /\ svc.reading /\ svc.chan = "ok"
  /\ \E p \in Program \ {svc.table} :
       svc' \in NewProgramInfo([svc EXCEPT !.table = p, !.have = FALSE])
  /\ UNCHANGED owner

(* eventStopped: the source of a PVR channel has ended.                    *)
SourceStopped ==
  /\ Serving /\ kind.pvr /\ svc.chan = "ok"
  /\ svc' = Stopped(svc)
  /\ UNCHANGED owner

(* getStreamingData of a page that looks at the service.                   *)
GetStreamingData ==
  /\ Serving /\ svc.tuned
  /\ svc' = [svc EXCEPT !.have = TRUE, !.prog = UNION Answers(svc)]
  /\ UNCHANGED owner

(* The recording thread writes to the file.                                *)
ThreadWrites ==
  /\ svc.rec.alive /\ svc.fd
  /\ svc' = [svc EXCEPT !.file = "data"]
  /\ UNCHANGED owner

(* It ends by itself: nobody forwards a read error.                        *)
ThreadEnds ==
  /\ svc.rec.alive
  /\ \E r \in L!Ended(svc.rec) : (r.err => "write" \in Faults) /\ svc' = [svc EXCEPT !.rec = r]
  /\ UNCHANGED owner

(* recordEvent: the service stops itself.                                  *)
WriteError ==
  /\ svc.rec.err
  /\ svc' = Stopped(svc)
  /\ UNCHANGED owner

-----------------------------------------------------------------------------
(* The owner.                                                              *)

(* stopRecordService and the end of the last reference, which frees the    *)
(* PMT handler.                                                            *)
Dropped(s) == [NewService EXCEPT !.file = Stopped(s).file]

(* RecordTimer.tryPrepare: prepare(), which may fail to write the meta     *)
(* file, and the empty file that reserves the name.                        *)
TryPrepare ==
  /\ owner = "none" /\ mode = "file"
  /\ \E s \in DoPrepare(svc), meta \in BOOLEAN :
       IF s.res = "ok" /\ (meta \/ "open" \notin Faults)
       THEN owner' = "prepared" /\ svc' = [s EXCEPT !.file = "empty"]
       ELSE owner' = "ended" /\ svc' = Dropped(s)

(* RecordTimer.activate: start(), which is tried again when it fails.      *)
Activate ==
  /\ owner = "prepared"
  /\ \E s \in DoRecord([svc EXCEPT !.want = TRUE]) :
       svc' = s /\ owner' = IF s.res = "ok" THEN "started" ELSE "prepared"

(* StreamService.execBegin: prepareStreaming() and start(), whose results  *)
(* are not looked at.                                                      *)
ExecBegin ==
  /\ owner = "none" /\ mode = "stream"
  /\ svc' \in UNION {DoRecord([s EXCEPT !.want = TRUE]) : s \in DoPrepare(svc)}
  /\ owner' = "started"

(* The end of the timer, its removal, or execEnd.                          *)
StopRecordService ==
  /\ Serving
  /\ svc' = Dropped(svc)
  /\ owner' = "ended"

Next ==
  /\ \/ ChannelStateChanged \/ PMTready \/ SourceStopped \/ GetStreamingData
     \/ ThreadWrites \/ ThreadEnds \/ WriteError
     \/ TryPrepare \/ Activate \/ ExecBegin \/ StopRecordService
  /\ UNCHANGED <<kind, mode>>

Spec == Init /\ [][Next]_vars

(* A tuned transponder sends a first PMT; a second version may never come. *)
FairSpec == Spec /\ WF_vars(svc.table = None /\ PMTready /\ UNCHANGED <<kind, mode>>)

-----------------------------------------------------------------------------
(* Properties.                                                             *)

(* However often the service is stopped by itself, restarted by a table    *)
(* and told of its tuner inside its own calls, it believes it records      *)
(* exactly while one recorder of its own runs, and that one's descriptor   *)
(* is open.                                                                *)
RecorderMatches ==
  /\ svc.rec.phase = "running" <=> mode = "file" /\ svc.state = "Recording"
  /\ svc.rec.phase = "running" => svc.fd

(* While a recording runs and its PMT is known, the recorder filters       *)
(* exactly the PIDs of the program: the differences of the sets that are   *)
(* applied one after another never lose or keep a PID, also when a new     *)
(* recorder takes over.                                                    *)
FiltersFollowPMT ==
  mode = "file" /\ svc.state = "Recording" /\ svc.table # None => svc.filter = svc.table

(* A started service that is tuned and has a PMT does not stay prepared:   *)
(* in whatever order start(), the lock and the table come, one of them     *)
(* starts the recording, or the file could not be opened.                  *)
Waits ==
  owner = "started" /\ kind.usePMT /\ svc.chan = "ok" /\ svc.state = "Prepared" /\ svc.res = "ok"
RecordingBegins == Waits ~> ~Waits

-----------------------------------------------------------------------------
(* What a comment promises and the code does not keep.                     *)

(* RecordTimer.py: after a write error "the recording has been stopped":   *)
(* what was recorded stays.                                                *)
RecordedIsKept == [][svc.file = "data" => svc'.file = "data"]_vars
=============================================================================
