--------------------------- MODULE ResourceManager ---------------------------
(***************************************************************************)
(* The tuner and channel sharing core of enigma2: eDVBResourceManager with *)
(* its eDVBChannel objects (lib/dvb/dvb.cpp), the use-counted registered   *)
(* frontends (lib/dvb/dvb.h) and its clients, the PMT handlers of playing  *)
(* and recording services (lib/dvb/pmt.cpp) and the raw channels of        *)
(* service scans (lib/components/scan.cpp).                                *)
(*                                                                         *)
(* Everything runs on the single main loop, so one action is one main loop *)
(* callback or one call from the user interface, with every signal it      *)
(* emits.  A channel dies when its last reference goes; the references are *)
(* the use-counted ones (eUsePtr) and the plain one that the eConnection   *)
(* of a PMT handler keeps until the handler itself is destroyed.           *)
(***************************************************************************)
EXTENDS Integers, FiniteSets

CONSTANTS
  Frontend,   (* registered (real) frontends                               *)
  ChannelId,  (* transponders                                              *)
  Channel,    (* addresses for eDVBChannel objects: the bound on live ones *)
  Handler,    (* addresses for PMT handlers                                *)
  Scanner,    (* service scans, which use raw channels                     *)
  Score,      (* Score[f][i]: isCompatibleWith, 0 for "not compatible"     *)
  Listed,     (* the ids m_list->getChannelFrontendData knows              *)
  StreamId,   (* the ids a stream client passes to allocatePVRChannel      *)
  NoFrontend, NoId, NoChannel

ASSUME ConstantsAssumption ==
  /\ IsFiniteSet(Frontend) /\ IsFiniteSet(Handler) /\ IsFiniteSet(Scanner)
  /\ Score \in [Frontend -> [ChannelId -> Nat]]
  /\ Listed \subseteq ChannelId /\ StreamId \subseteq ChannelId
  /\ NoFrontend \notin Frontend /\ NoId \notin ChannelId /\ NoChannel \notin Channel

VARIABLES
  inuse,      (* eDVBRegisteredFrontend::m_inuse                           *)
  disable,    (* its 3 s timer towards closeFrontend runs                  *)
  festate,    (* eDVBFrontend::m_state                                     *)
  tuning,     (* eDVBFrontend::m_tuning # 0                                *)
  chan,       (* the eDVBChannel objects                                   *)
  active,     (* m_active_channels: raw pointers, no reference             *)
  cache,      (* m_cached_channel                                          *)
  conn,       (* the channel m_cached_channel_state_changed_conn refers to *)
  listening,  (* channels whose m_stateChanged calls the manager           *)
  timer,      (* m_releaseCachedChannelTimer runs                          *)
  hchan,      (* m_channel of a PMT handler (with its scan or PVR pointer) *)
  hconn,      (* the owner held by m_channelStateChanged_connection        *)
  want,       (* the live transponder the handler was asked for            *)
  evt,        (* the last tune event the handler passed to its service     *)
  rchan       (* the raw channel of a scan                                 *)

feVars     == <<inuse, disable, festate, tuning>>
cacheVars  == <<cache, conn, listening, timer>>
clientVars == <<hchan, hconn, want, evt, rchan>>
vars       == <<feVars, chan, active, cacheVars, clientVars>>

FeState == {"closed", "idle", "tuning", "lock", "lostLock", "failed"}
ChState == {"idle", "tuning", "failed", "unavailable", "ok", "last_instance", "release"}
Event   == {"none", "tuned", "tuneFailed", "noResources", "misconfigured"}

(* m_current_frontend_parameters is set on the channels that have both an  *)
(* id and a frontend ("managed").                                          *)
ChannelRecord == [live: BOOLEAN, id: ChannelId \cup {NoId}, fe: Frontend \cup {NoFrontend},
                  state: ChState, use: Int]
Dead == [live |-> FALSE, id |-> NoId, fe |-> NoFrontend,
         state |-> "idle", use |-> 0]

Live          == {c \in Channel : chan[c].live}
Managed(c)    == chan[c].id # NoId /\ chan[c].fe # NoFrontend
ChannelsOn(f) == {c \in Live : chan[c].fe = f}
Holders(c)    == {h \in Handler : hchan[h] = c}
Scanners(c)   == {r \in Scanner : rchan[r] = c}
Connected(c)  == {h \in Handler : hconn[h] = c}

TypeOK ==
  /\ inuse \in [Frontend -> Int]
  /\ disable \in [Frontend -> BOOLEAN]
  /\ festate \in [Frontend -> FeState]
  /\ tuning \in [Frontend -> BOOLEAN]
  /\ chan \in [Channel -> ChannelRecord]
  /\ active \subseteq Channel
  /\ cache \in Channel \cup {NoChannel}
  /\ conn \in Channel \cup {NoChannel}
  /\ listening \subseteq Channel
  /\ timer \in BOOLEAN
  /\ hchan \in [Handler -> Channel \cup {NoChannel}]
  /\ hconn \in [Handler -> Channel \cup {NoChannel}]
  /\ want \in [Handler -> ChannelId \cup {NoId}]
  /\ evt \in [Handler -> Event]
  /\ rchan \in [Scanner -> Channel \cup {NoChannel}]

Init ==
  /\ inuse = [f \in Frontend |-> 0]
  /\ disable = [f \in Frontend |-> FALSE]
  /\ festate = [f \in Frontend |-> "closed"]
  /\ tuning = [f \in Frontend |-> FALSE]
  /\ chan = [c \in Channel |-> Dead]
  /\ active = {} /\ listening = {}
  /\ cache = NoChannel /\ conn = NoChannel
  /\ timer = FALSE
  /\ hchan = [h \in Handler |-> NoChannel]
  /\ hconn = [h \in Handler |-> NoChannel]
  /\ want = [h \in Handler |-> NoId]
  /\ evt = [h \in Handler |-> "none"]
  /\ rchan = [r \in Scanner |-> NoChannel]

-----------------------------------------------------------------------------
(* Use counts and lifetime.                                                *)

(* Faulty variants of an operator, named ..._...: the plausible bug that    *)
(* each property is shown to catch stands before the definition it alters. *)
AddUse_Once(c, n) ==
  [chan[c] EXCEPT !.use = @ + 1, !.state = IF @ = "last_instance" THEN "ok" ELSE @]

(* AddUse, n times on a used channel: leaving last_instance means "ok",    *)
(* whatever the frontend says.                                             *)
AddUse(c, n) ==
  [chan[c] EXCEPT !.use = @ + n,
                  !.state = IF @ = "last_instance" THEN "ok" ELSE @]

ReleaseUse_NoRelease(c, n) ==
  [chan[c] EXCEPT !.use = @ - n, !.state = IF chan[c].use - n <= 1 THEN "last_instance" ELSE @]

(* ReleaseUse, n times.                                                    *)
ReleaseUse(c, n) ==
  [chan[c] EXCEPT !.use = @ - n,
                  !.state = CASE chan[c].use - n = 0 -> "release"
                              [] chan[c].use - n = 1 -> "last_instance"
                              [] OTHER -> @]

Dying_Forced(S, n, H) == S

(* Channels among S that die when they lose n uses: nobody uses them and   *)
(* no PMT handler other than those in H keeps a connection to them.        *)
Dying(S, n, H) == {c \in S : chan[c].use = n /\ Connected(c) \subseteq H}

(* The frontends that the destruction of the channels D gives back.        *)
FrontendsOf(D)     == {chan[c].fe : c \in D} \ {NoFrontend}
InUseWithout(D)    == [f \in Frontend |-> IF f \in FrontendsOf(D) THEN inuse[f] - 1 ELSE inuse[f]]
DisableWithout(D)  == [f \in Frontend |-> disable[f] \/ (f \in FrontendsOf(D) /\ inuse[f] = 1)]

Destroy_StillListed(D) ==
  inuse' = InUseWithout(D) /\ disable' = DisableWithout(D) /\ active' = active

(* ~eDVBChannel of the channels D and nothing else that changes frontends. *)
Destroy(D) ==
  /\ inuse' = InUseWithout(D)
  /\ disable' = DisableWithout(D)
  /\ active' = active \ D

(* What DVBChannelStateChanged does to the release timer when a channel it *)
(* listens to goes to state st.                                            *)
TimerAfter(c, st) ==
  IF c \in listening
  THEN CASE st = "last_instance" -> TRUE
         [] st \in {"ok", "release"} -> FALSE
         [] OTHER -> timer
  ELSE timer

(* The event a PMT handler derives from the state of its channel.          *)
EventOf(st, old) ==
  CASE st = "ok" -> "tuned" [] st = "failed" -> "tuneFailed" [] OTHER -> old

-----------------------------------------------------------------------------
(* allocateFrontend and the cache.                                         *)

Candidates_Busy(i, used) == {f \in Frontend : i \in Listed /\ Score[f][i] > 0}

(* The best scores among the frontends with use count 0 in "used"; an id   *)
(* that is not in the channel list has no parameters to score.             *)
Candidates(i, used) ==
  {f \in Frontend : i \in Listed /\ used[f] = 0 /\ Score[f][i] > 0}
Best(i, used) ==
  {f \in Candidates(i, used) : \A g \in Candidates(i, used) : Score[g][i] <= Score[f][i]}

CachedChannel == {cache} \ {NoChannel}
(* The cached channel, when allocateChannel has to give it up first.       *)
Dropped(i) == {c \in CachedChannel : chan[c].id # i}

(* After the cached channel D (or nothing, D = {}) was given up: the       *)
(* connection is cut, the timer stops and the cache is empty.              *)
ConnAfterDrop(D)      == IF D = {} THEN conn ELSE NoChannel
ListeningAfterDrop(D) == IF D = {} THEN listening ELSE listening \ ({conn} \cup Dying(D, 1, {}))
ChanAfterDrop(D) ==
  [c \in Channel |-> IF c \in Dying(D, 1, {}) THEN Dead
                     ELSE IF c \in D THEN ReleaseUse(c, 1) ELSE chan[c]]

Sharable_CacheOnly(i, D) == IF cache # NoChannel /\ D = {} THEN {cache} ELSE {}
Sharable_AnyCached(i, D) ==
  IF cache # NoChannel THEN {cache}
  ELSE {c \in active \ Dying(D, 1, {}) : chan[c].id = i}

(* The channel of i that is left once D is given up: the cached one, or the *)
(* oldest registered one.  A tuner channel is only made for an id without  *)
(* registered channel, so it is older than the PVR channels of its id.     *)
Sharable(i, D) ==
  LET registered == {c \in active \ Dying(D, 1, {}) : chan[c].id = i}
      tuned      == {c \in registered : chan[c].fe # NoFrontend}
  IN IF cache # NoChannel /\ D = {} THEN {cache}
     ELSE IF tuned # {} THEN tuned ELSE registered

(* open and tune frontend f for a new user.                                *)
OpenAndTune(f, D) ==
  /\ inuse' = [InUseWithout(D) EXCEPT ![f] = @ + 1]
  /\ disable' = DisableWithout(D)
  /\ festate' = [festate EXCEPT ![f] = "tuning"]
  /\ tuning' = [tuning EXCEPT ![f] = TRUE]

Idle(h) == hchan[h] = NoChannel /\ hconn[h] = NoChannel /\ evt[h] = "none"

Attach_Silent(h, c, i, st) ==
  /\ hchan' = [hchan EXCEPT ![h] = c]
  /\ hconn' = [hconn EXCEPT ![h] = c]
  /\ want' = [want EXCEPT ![h] = i]
  /\ UNCHANGED <<evt, rchan>>

(* tuneExt of handler h ended up with channel c in state st: pointer,      *)
(* connection, scan and the first channelStateChanged.                     *)
Attach(h, c, i, st) ==
  /\ hchan' = [hchan EXCEPT ![h] = c]
  /\ hconn' = [hconn EXCEPT ![h] = c]
  /\ want' = [want EXCEPT ![h] = i]
  /\ evt' = [evt EXCEPT ![h] = EventOf(st, "none")]
  /\ UNCHANGED rchan

-----------------------------------------------------------------------------
(* Live services.                                                          *)

(* tuneExt of a live service: the transponder is already tuned, so its     *)
(* channel is shared.                                                      *)
TuneShared(h, i) ==
  LET D == Dropped(i) IN
  /\ Idle(h)
  /\ \E c \in Sharable(i, D) :
       LET shared == AddUse(c, 2) IN
       /\ chan' = [ChanAfterDrop(D) EXCEPT ![c] = shared]
       /\ Attach(h, c, i, shared.state)
       /\ timer' = IF D # {} \/ (chan[c].state = "last_instance" /\ c \in listening)
                   THEN FALSE ELSE timer
       /\ cache' = IF D = {} THEN cache ELSE NoChannel
       /\ conn' = ConnAfterDrop(D)
       /\ listening' = ListeningAfterDrop(D)
       /\ Destroy(Dying(D, 1, {}))
  /\ UNCHANGED <<festate, tuning>>

(* tuneExt of a live service on a transponder nobody uses: a new channel   *)
(* on the best free frontend.  The handler, its scan and the cache use it. *)
TuneNew(h, i) ==
  LET D == Dropped(i)  Gone == Dying(D, 1, {}) IN
  /\ Idle(h)
  /\ Sharable(i, D) = {}
  /\ \E f \in Best(i, InUseWithout(Gone)), c \in Channel \ Live :
       /\ chan' = [ChanAfterDrop(D) EXCEPT ![c] =
                     [live |-> TRUE, id |-> i, fe |-> f, state |-> "tuning",
                      use |-> 3]]
       /\ active' = (active \ Gone) \cup {c}
       /\ cache' = c /\ conn' = c
       /\ listening' = ListeningAfterDrop(D) \cup {c}
       /\ timer' = IF D = {} THEN timer ELSE FALSE
       /\ OpenAndTune(f, Gone)
       /\ Attach(h, c, i, "tuning")

(* tuneExt of a live service that gets no channel: no frontend is free, the *)
(* id is unknown, or tune() fails on the frontend that was chosen (which    *)
(* was opened and is given back).  The cached channel is gone all the same. *)
TuneFails(h, i) ==
  LET D == Dropped(i)  Gone == Dying(D, 1, {})  left == InUseWithout(Gone) IN
  /\ Idle(h)
  /\ Sharable(i, D) = {}
  /\ chan' = ChanAfterDrop(D)
  /\ active' = active \ Gone
  /\ cache' = NoChannel
  /\ conn' = ConnAfterDrop(D)
  /\ listening' = ListeningAfterDrop(D)
  /\ timer' = IF D = {} THEN timer ELSE FALSE
  /\ inuse' = left
  /\ \/ /\ Best(i, left) = {}
        /\ disable' = DisableWithout(Gone)
        /\ evt' = [evt EXCEPT ![h] =
             IF i \in Listed /\ \E f \in Frontend : Score[f][i] > 0
             THEN "noResources" ELSE "misconfigured"]
        /\ UNCHANGED <<festate, tuning>>
     \/ \E f \in Best(i, left) :
          /\ disable' = [DisableWithout(Gone) EXCEPT ![f] = TRUE]
          /\ festate' = [festate EXCEPT ![f] = IF @ = "closed" THEN "idle" ELSE @]
          /\ tuning' = [tuning EXCEPT ![f] = @ /\ festate[f] # "closed"]
          /\ evt' = [evt EXCEPT ![h] = "misconfigured"]
  /\ UNCHANGED <<hchan, hconn, want, rchan>>

(* switchToLive: start() tunes the handler again without free(), to the    *)
(* channel it already has.  The new pointers replace the old ones.         *)
Retune(h) ==
  LET i == want[h]  c == hchan[h]  D == Dropped(i) IN
  /\ c # NoChannel /\ i # NoId
  /\ c \in Sharable(i, D)
  /\ chan' = ChanAfterDrop(D)
  /\ evt' = [evt EXCEPT ![h] = EventOf(chan[c].state, @)]
  /\ cache' = IF D = {} THEN cache ELSE NoChannel
  /\ conn' = ConnAfterDrop(D)
  /\ listening' = ListeningAfterDrop(D)
  /\ timer' = IF D = {} THEN timer ELSE FALSE
  /\ Destroy(Dying(D, 1, {}))
  /\ UNCHANGED <<festate, tuning, hchan, hconn, want, rchan>>

-----------------------------------------------------------------------------
(* Playback and stream clients.                                            *)

(* tuneExt of a service with a path: a channel without frontend, which is  *)
(* registered when a stream client names its transponder.  playSource may  *)
(* fail to open the source.                                                *)
TunePVR(h, i) ==
  LET D == IF timer THEN CachedChannel ELSE {}  Gone == Dying(D, 1, {}) IN
  /\ Idle(h)
  /\ \E c \in Channel \ Live, st \in {"ok", "idle"} :
       /\ chan' = [ChanAfterDrop(D) EXCEPT ![c] =
                     [live |-> TRUE, id |-> i, fe |-> NoFrontend, state |-> st,
                      use |-> 2]]
       /\ active' = (active \ Gone) \cup (IF i = NoId THEN {} ELSE {c})
       /\ Attach(h, c, NoId, st)
  /\ cache' = IF D = {} THEN cache ELSE NoChannel
  /\ conn' = ConnAfterDrop(D)
  /\ listening' = ListeningAfterDrop(D)
  /\ timer' = IF D = {} THEN timer ELSE FALSE
  /\ inuse' = InUseWithout(Gone)
  /\ disable' = DisableWithout(Gone)
  /\ UNCHANGED <<festate, tuning>>

-----------------------------------------------------------------------------
(* The end of a service.                                                   *)

(* free(): the scan (or the PVR pointer) and the channel pointer go, with  *)
(* the signals of both; the connection stays.                              *)
Free(h) ==
  LET c == hchan[h] IN
  /\ c # NoChannel
  /\ chan' = [chan EXCEPT ![c] = ReleaseUse(c, 2)]
  /\ timer' = IF chan[c].use - 2 \in {0, 1}
              THEN TimerAfter(c, ReleaseUse(c, 2).state) ELSE timer
  /\ hchan' = [hchan EXCEPT ![h] = NoChannel]
  /\ want' = [want EXCEPT ![h] = NoId]
  /\ UNCHANGED <<feVars, active, cache, conn, listening, hconn, evt, rchan>>

(* The handler is destroyed, and its connection with it.                   *)
Drop(h) ==
  LET Gone == Dying(Live \cap {hconn[h]}, 0, {h}) IN
  /\ hchan[h] = NoChannel
  /\ hconn[h] # NoChannel \/ evt[h] # "none"
  /\ hconn' = [hconn EXCEPT ![h] = NoChannel]
  /\ evt' = [evt EXCEPT ![h] = "none"]
  /\ chan' = [c \in Channel |-> IF c \in Gone THEN Dead ELSE chan[c]]
  /\ listening' = listening \ Gone
  /\ conn' = IF conn \in Gone THEN NoChannel ELSE conn
  /\ Destroy(Gone)
  /\ UNCHANGED <<festate, tuning, cache, timer, hchan, want, rchan>>

(* The release timer: the cached channel loses the use of the cache.  The  *)
(* connection is not cut, so a surviving channel still calls the manager.  *)
ReleaseTimeout ==
  LET Gone == Dying(CachedChannel, 1, {}) IN
  /\ timer
  /\ cache' = NoChannel
  /\ chan' = [c \in Channel |-> IF c \in Gone THEN Dead
                                ELSE IF c = cache THEN ReleaseUse(c, 1) ELSE chan[c]]
  /\ timer' = (cache # NoChannel /\ cache \in listening /\ chan[cache].use = 2)
  /\ listening' = listening \ Gone
  /\ conn' = IF conn \in Gone THEN NoChannel ELSE conn
  /\ Destroy(Gone)
  /\ UNCHANGED <<festate, tuning, clientVars>>

-----------------------------------------------------------------------------
(* Service scans on raw channels.                                          *)

(* eComponentScan::start: allocateRawChannel drops the cache whatever it   *)
(* holds; the scan keeps the channel and tunes it, and when start returns  *)
(* its own use of the channel ends.  The frontend may be busy.             *)
ScanStart(r, f) ==
  LET D == CachedChannel  Gone == Dying(D, 1, {})  free == InUseWithout(Gone)[f] = 0 IN
  /\ rchan[r] = NoChannel
  /\ cache' = NoChannel
  /\ conn' = ConnAfterDrop(D)
  /\ listening' = ListeningAfterDrop(D)
  /\ timer' = IF D = {} THEN timer ELSE FALSE
  /\ active' = active \ Gone
  /\ \/ /\ free
        /\ OpenAndTune(f, Gone)
        /\ \E c \in Channel \ Live :
             /\ chan' = [ChanAfterDrop(D) EXCEPT ![c] =
                           [live |-> TRUE, id |-> NoId, fe |-> f, state |-> "last_instance",
                            use |-> 1]]
             /\ rchan' = [rchan EXCEPT ![r] = c]
     \/ /\ ~free /\ D # {}
        /\ chan' = ChanAfterDrop(D)
        /\ inuse' = InUseWithout(Gone)
        /\ disable' = DisableWithout(Gone)
        /\ UNCHANGED <<festate, tuning, rchan>>
  /\ UNCHANGED <<hchan, hconn, want, evt>>

(* nextChannel: the scan tunes its frontend to the next transponder.       *)
ScanNext(r) ==
  LET c == rchan[r]  f == chan[c].fe IN
  /\ c # NoChannel
  /\ festate[f] # "tuning"
  /\ festate' = [festate EXCEPT ![f] = "tuning"]
  /\ tuning' = [tuning EXCEPT ![f] = TRUE]
  /\ chan' = [chan EXCEPT ![c].state = "tuning"]
  /\ UNCHANGED <<inuse, disable, active, cacheVars, clientVars>>

(* The scan ends and its channel with it.                                  *)
ScanEnd(r) ==
  LET Gone == {rchan[r]} IN
  /\ rchan[r] # NoChannel
  /\ rchan' = [rchan EXCEPT ![r] = NoChannel]
  /\ chan' = [c \in Channel |-> IF c \in Gone THEN Dead ELSE chan[c]]
  /\ Destroy(Gone)
  /\ UNCHANGED <<festate, tuning, cacheVars, hchan, hconn, want, evt>>

-----------------------------------------------------------------------------
(* Frontend events.  Those of a frontend nobody uses reach no channel and  *)
(* are overwritten by the next tune(), so they are left out.               *)

(* frontendStateChanged: the channel on f goes to state st (channels that  *)
(* are shutting down do not), which is signalled to the manager and to the *)
(* PMT handlers connected to it; one that was freed has no demux to start  *)
(* on but still reports a failure.                                         *)
ChannelOn(f) == CHOOSE c \in Channel : c \in ChannelsOn(f)
Signal(f, st) ==
  LET c == ChannelOn(f) IN
  IF chan[c].state \in {"release", st}
  THEN UNCHANGED <<chan, timer, evt>>
  ELSE /\ chan' = [chan EXCEPT ![c].state = st]
       /\ timer' = TimerAfter(c, st)
       /\ evt' = [h \in Handler |-> IF hconn[h] = c /\ (hchan[h] = c \/ st = "failed")
                                    THEN EventOf(st, evt[h]) ELSE evt[h]]

(* tune() again from inside the event, when the channel is managed and not *)
(* shutting down; otherwise the frontend stays in state st.                *)
RetuneOr(f, st) ==
  LET c == ChannelOn(f)  again == Managed(c) /\ chan[c].state # "release" IN
  /\ festate' = [festate EXCEPT ![f] = IF again THEN "tuning" ELSE st]
  /\ tuning' = [tuning EXCEPT ![f] = again]

FrontendUnchanged == UNCHANGED <<inuse, disable, active, cache, conn, listening,
                                 hchan, hconn, want, rchan>>

(* feEvent: the hardware reports a lock.                                   *)
Lock(f) ==
  /\ inuse[f] > 0 /\ festate[f] \in {"tuning", "lostLock", "failed"}
  /\ festate' = [festate EXCEPT ![f] = "lock"]
  /\ Signal(f, "ok")
  /\ UNCHANGED tuning
  /\ FrontendUnchanged

(* feEvent: the lock is gone.  While the tune timeout of the last tune is  *)
(* still pending this counts as tuning; after it the channel is retuned.   *)
LoseLock(f) ==
  /\ inuse[f] > 0
  /\ \/ /\ festate[f] = "lock" /\ tuning[f]
        /\ festate' = [festate EXCEPT ![f] = "tuning"]
        /\ Signal(f, "tuning")
        /\ UNCHANGED tuning
     \/ /\ festate[f] \in {"lock", "failed"} /\ ~tuning[f]
        /\ Signal(f, IF Managed(ChannelOn(f)) THEN "tuning" ELSE "unavailable")
        /\ RetuneOr(f, "lostLock")
  /\ FrontendUnchanged

(* timeout(): the tune timeout of the last tune() runs out.  A managed     *)
(* channel is reported as failed and tuned again; a scan that has more     *)
(* transponders tunes the next one from inside the signal.                 *)
TuneTimeout(f) ==
  /\ inuse[f] > 0 /\ tuning[f]
  /\ \/ /\ festate[f] # "tuning"
        /\ tuning' = [tuning EXCEPT ![f] = FALSE]
        /\ UNCHANGED <<festate, chan, timer, evt>>
     \/ /\ festate[f] = "tuning"
        /\ Signal(f, "failed")
        /\ RetuneOr(f, "failed")
     \/ /\ festate[f] = "tuning" /\ chan[ChannelOn(f)].id = NoId
        /\ chan' = [chan EXCEPT ![ChannelOn(f)].state = "tuning"]
        /\ UNCHANGED <<festate, tuning, timer, evt>>
  /\ FrontendUnchanged

DisableTimeout_Unchecked(f) ==
  /\ disable[f]
  /\ disable' = [disable EXCEPT ![f] = FALSE]
  /\ festate' = [festate EXCEPT ![f] = "closed"]
  /\ tuning' = [tuning EXCEPT ![f] = FALSE]
  /\ UNCHANGED <<inuse, chan, active, cacheVars, clientVars>>

(* closeFrontend from the disable timer.                                   *)
DisableTimeout(f) ==
  /\ disable[f]
  /\ disable' = [disable EXCEPT ![f] = FALSE]
  /\ IF inuse[f] = 0
     THEN /\ festate' = [festate EXCEPT ![f] = "closed"]
          /\ tuning' = [tuning EXCEPT ![f] = FALSE]
     ELSE UNCHANGED <<festate, tuning>>
  /\ UNCHANGED <<inuse, chan, active, cacheVars, clientVars>>

-----------------------------------------------------------------------------
Next ==
  \/ \E h \in Handler, i \in ChannelId : TuneShared(h, i) \/ TuneNew(h, i) \/ TuneFails(h, i)
  \/ \E h \in Handler, i \in StreamId \cup {NoId} : TunePVR(h, i)
  \/ \E h \in Handler : Retune(h) \/ Free(h) \/ Drop(h)
  \/ ReleaseTimeout
  \/ \E r \in Scanner, f \in Frontend : ScanStart(r, f)
  \/ \E r \in Scanner : ScanNext(r) \/ ScanEnd(r)
  \/ \E f \in Frontend : Lock(f) \/ LoseLock(f) \/ TuneTimeout(f) \/ DisableTimeout(f)

Spec == Init /\ [][Next]_vars

(* Timers that run fire (the main loop keeps polling); the user, the       *)
(* hardware and the clients owe nothing.                                   *)
FairSpec == Spec /\ WF_vars(ReleaseTimeout) /\ \A f \in Frontend : WF_vars(DisableTimeout(f))

-----------------------------------------------------------------------------
(* What the manager answers before a service is started.                   *)

(* canAllocateChannel: the use counts it subtracts are those of a channel  *)
(* with one PMT handler (pointer and scan), with the cache or without it.  *)
SoleUse_NoCache(c) == chan[c].use = 2
SoleUse(c) == chan[c].use = IF c = cache THEN 3 ELSE 2
Ignored(g) == {c \in active : chan[c].id = g /\ SoleUse(c)}
IgnoredUse(g) ==
  LET spare == IF cache # NoChannel /\ cache \notin Ignored(g) /\ chan[cache].use = 1
               THEN {cache} ELSE {}
  IN InUseWithout(Ignored(g) \cup spare)
canAllocateChannel(i, g) ==
  IF i \in {chan[c].id : c \in active \cup CachedChannel}
  THEN i \in Listed ELSE Candidates(i, IgnoredUse(g)) # {}

-----------------------------------------------------------------------------
(* Properties.                                                             *)

(* The use count of every channel is exactly what the cache, its PMT       *)
(* handlers (two each) and its scan hold: no eUsePtr is lost or counted    *)
(* twice, which canAllocateChannel's constants 3, 2 and 1 rely on.         *)
UseCountExact ==
  \A c \in Live : chan[c].use = (IF cache = c THEN 1 ELSE 0)
                                + 2 * Cardinality(Holders(c)) + Cardinality(Scanners(c))

(* A tuner is allocated to at most one channel object at a time, and its   *)
(* use count says whether it is.                                           *)
FrontendExclusive ==
  \A f \in Frontend :
    \/ inuse[f] = 0 /\ ChannelsOn(f) = {}
    \/ inuse[f] = 1 /\ \E c \in Live : ChannelsOn(f) = {c}

(* m_active_channels, which holds plain pointers, lists exactly the living *)
(* channels that have an id: it never dangles.                             *)
ActiveSound == active = {c \in Live : chan[c].id # NoId}

(* No client, no connection and no signal of the manager points to a       *)
(* channel that was destroyed.                                             *)
NoDangling ==
  /\ {cache, conn} \ {NoChannel} \subseteq Live
  /\ listening \subseteq Live
  /\ \A h \in Handler : {hchan[h], hconn[h]} \ {NoChannel} \subseteq Live
  /\ \A r \in Scanner : rchan[r] # NoChannel => rchan[r] \in Live

(* Every plain or counted pointer to a channel leads to one that lives,    *)
(* whichever of the many release paths destroyed the others.               *)
PointersSound == ActiveSound /\ NoDangling

(* A channel object (and the tuner it owns) only outlives its last user    *)
(* while a PMT handler is still connected to it, and is then in release.   *)
NoLeak ==
  \A c \in Live : chan[c].use = 0 => Connected(c) # {} /\ chan[c].state = "release"

(* A transponder never occupies two tuners: tuning to it shares.           *)
OneTunerPerId ==
  \A c, d \in Live : Managed(c) /\ Managed(d) /\ chan[c].id = chan[d].id => c = d

(* A tuner that is in use is open: the 3 s timer towards closeFrontend,    *)
(* which runs on after a new allocation, never closes it under its user.   *)
OpenWhileInUse == \A f \in Frontend : inuse[f] > 0 => festate[f] # "closed"

(* A tuner that is open and unused will be closed: its timer runs.         *)
ClosePending == \A f \in Frontend : inuse[f] = 0 /\ festate[f] # "closed" => disable[f]

(* A tuner is open while it is in use, and never stays open for nobody     *)
(* without the timer that closes it.                                       *)
OpenExactly == OpenWhileInUse /\ ClosePending

(* A PMT handler knows how its channel fares: whoever shares a channel and *)
(* whatever it was before, its last event is the one of the state that     *)
(* the channel is in.                                                      *)
EventMatches ==
  \A h \in Handler : hchan[h] # NoChannel =>
    /\ chan[hchan[h]].state = "ok" => evt[h] = "tuned"
    /\ chan[hchan[h]].state = "failed" => evt[h] = "tuneFailed"

(* state_last_instance is only announced for a channel with one reference. *)
LastInstanceIsSole ==
  \A c \in Live : chan[c].state = "last_instance" => chan[c].use = 1

(* What the clients of a channel were last told is true of it now.         *)
ClientsAreTold == EventMatches /\ LastInstanceIsSole

(* Going back from timeshift to live TV starts the PMT handler again: the  *)
(* channel it is handed is the one it never gave up.                       *)
RetuneFindsItsChannel ==
  \A h \in Handler : want[h] # NoId /\ hchan[h] # NoChannel =>
    hchan[h] \in Sharable(want[h], Dropped(want[h]))

(* The tuners that are free once the last service on g has stopped, and    *)
(* with it the cached channel if nothing else uses it.                     *)
FreeWithout(g) ==
  {f \in Frontend : \A c \in ChannelsOn(f) :
     /\ Scanners(c) = {}
     /\ Cardinality(Holders(c)) <= IF chan[c].id = g THEN 1 ELSE 0}

(* canAllocateChannel(i, g) says yes exactly when allocateChannel(i) would *)
(* find a channel to share or a tuner once the service on g is stopped,    *)
(* provided no stopped handler keeps a channel alive.                      *)
CanAllocateHonest ==
  (\A h \in Handler : hconn[h] = hchan[h]) =>
    \A i \in Listed, g \in ChannelId \cup {NoId} :
      canAllocateChannel(i, g) <=>
        \/ i \in {chan[c].id : c \in Live}
        \/ \E f \in FreeWithout(g) : Score[f][i] > 0

(* While a service keeps its channel, no other service, scan, cache        *)
(* decision or timeout takes its tuner or transponder away.                *)
NoStealing ==
  [][\A h \in Handler : hchan[h] # NoChannel /\ hchan'[h] = hchan[h] =>
       LET c == hchan[h] IN
       chan'[c].live /\ chan'[c].id = chan[c].id /\ chan'[c].fe = chan[c].fe]_vars

(* A cached channel that announced last_instance is given up, or changes   *)
(* its state: the release timer is not forgotten.                          *)
LastInstanceEnds ==
  \A c \in Channel :
    (cache = c /\ chan[c].state = "last_instance")
      ~> (cache # c \/ chan[c].state # "last_instance")
=============================================================================
