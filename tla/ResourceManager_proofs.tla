------------------------ MODULE ResourceManager_proofs ------------------------
(***************************************************************************)
(* Proofs about ResourceManager, for any number of tuners, transponders,   *)
(* services, scans and channel objects.                                    *)
(***************************************************************************)
EXTENDS ResourceManager, FiniteSetTheorems, TLAPS

-----------------------------------------------------------------------------
(* The operators the actions are built from keep the types.                *)

LEMMA DeadType == Dead \in ChannelRecord
BY DEF Dead, ChannelRecord, ChState

LEMMA UseType ==
  ASSUME TypeOK, NEW c \in Channel, NEW n \in Int
  PROVE  AddUse(c, n) \in ChannelRecord /\ ReleaseUse(c, n) \in ChannelRecord
<1>1. chan[c] \in ChannelRecord
  BY DEF TypeOK
<1>2. /\ chan[c].use + n \in Int /\ chan[c].use - n \in Int
      /\ chan[c].state \in ChState
  BY <1>1 DEF ChannelRecord
<1>3. ASSUME NEW u \in Int, NEW st \in ChState
      PROVE  [chan[c] EXCEPT !.use = u, !.state = st] \in ChannelRecord
  BY <1>1 DEF ChannelRecord
<1>4. (IF chan[c].state = "last_instance" THEN "ok" ELSE chan[c].state) \in ChState
  BY <1>2 DEF ChState
<1>5. (CASE chan[c].use - n = 0 -> "release"
         [] chan[c].use - n = 1 -> "last_instance"
         [] OTHER -> chan[c].state) \in ChState
  BY <1>2 DEF ChState
<1>6. AddUse(c, n) \in ChannelRecord
  BY <1>2, <1>3, <1>4 DEF AddUse
<1>7. ReleaseUse(c, n) \in ChannelRecord
  BY <1>2, <1>3, <1>5 DEF ReleaseUse
<1> QED
  BY <1>6, <1>7

LEMMA DropType ==
  ASSUME TypeOK, NEW D
  PROVE  /\ ChanAfterDrop(D) \in [Channel -> ChannelRecord]
         /\ ConnAfterDrop(D) \in Channel \cup {NoChannel}
         /\ ListeningAfterDrop(D) \subseteq Channel
<1>1. \A c \in Channel : ReleaseUse(c, 1) \in ChannelRecord /\ chan[c] \in ChannelRecord
  BY UseType DEF TypeOK
<1>2. ChanAfterDrop(D) \in [Channel -> ChannelRecord]
  BY <1>1, DeadType DEF ChanAfterDrop
<1> QED
  BY <1>2 DEF ConnAfterDrop, ListeningAfterDrop, TypeOK

LEMMA DestroyType ==
  ASSUME TypeOK, NEW D
  PROVE  /\ InUseWithout(D) \in [Frontend -> Int]
         /\ DisableWithout(D) \in [Frontend -> BOOLEAN]
<1>1. \A f \in Frontend : inuse[f] \in Int /\ inuse[f] - 1 \in Int
  BY DEF TypeOK
<1>2. InUseWithout(D) \in [Frontend -> Int]
  BY <1>1 DEF InUseWithout
<1>3. DisableWithout(D) \in [Frontend -> BOOLEAN]
  BY DEF DisableWithout, TypeOK
<1> QED
  BY <1>2, <1>3

LEMMA TimerType ==
  ASSUME TypeOK, NEW c, NEW st
  PROVE  TimerAfter(c, st) \in BOOLEAN
BY DEF TimerAfter, TypeOK

LEMMA EventType ==
  ASSUME NEW st, NEW e \in Event
  PROVE  EventOf(st, e) \in Event
BY DEF EventOf, Event

(* A signal that reaches the clients keeps the types.                      *)
LEMMA SignalType ==
  ASSUME TypeOK, NEW f \in Frontend, NEW st \in ChState, Signal(f, st)
  PROVE  /\ chan' \in [Channel -> ChannelRecord]
         /\ timer' \in BOOLEAN
         /\ evt' \in [Handler -> Event]
<1> DEFINE c == ChannelOn(f)
<1>1. CASE chan[c].state \in {"release", st}
  <2>1. UNCHANGED <<chan, timer, evt>>
    BY <1>1 DEF Signal
  <2>2. \A d \in Channel : chan'[d] \in ChannelRecord
    BY <2>1 DEF TypeOK, ChannelRecord
  <2> QED
    BY <2>1, <2>2 DEF TypeOK
<1>2. CASE chan[c].state \notin {"release", st}
  <2>1. /\ chan' = [chan EXCEPT ![c].state = st]
        /\ timer' = TimerAfter(c, st)
        /\ evt' = [h \in Handler |-> IF hconn[h] = c /\ (hchan[h] = c \/ st = "failed")
                                     THEN EventOf(st, evt[h]) ELSE evt[h]]
    BY <1>2 DEF Signal
  <2>2. \A d \in Channel : chan'[d] \in ChannelRecord
    BY <2>1 DEF TypeOK, ChannelRecord
  <2>3. \A h \in Handler : evt[h] \in Event /\ EventOf(st, evt[h]) \in Event
    BY EventType DEF TypeOK
  <2> QED
    BY <2>1, <2>2, <2>3, TimerType DEF TypeOK
<1> QED
  BY <1>1, <1>2

LEMMA AttachType ==
  ASSUME TypeOK, NEW h \in Handler, NEW c \in Channel, NEW i \in ChannelId \cup {NoId}, NEW st,
         Attach(h, c, i, st)
  PROVE  /\ hchan' \in [Handler -> Channel \cup {NoChannel}]
         /\ hconn' \in [Handler -> Channel \cup {NoChannel}]
         /\ want' \in [Handler -> ChannelId \cup {NoId}]
         /\ evt' \in [Handler -> Event]
         /\ rchan' \in [Scanner -> Channel \cup {NoChannel}]
<1>1. EventOf(st, "none") \in Event
  BY EventType DEF Event
<1> QED
  BY <1>1 DEF Attach, TypeOK

LEMMA OpenType ==
  ASSUME TypeOK, NEW f \in Frontend, NEW D, OpenAndTune(f, D)
  PROVE  /\ inuse' \in [Frontend -> Int] /\ disable' \in [Frontend -> BOOLEAN]
         /\ festate' \in [Frontend -> FeState] /\ tuning' \in [Frontend -> BOOLEAN]
<1>1. /\ InUseWithout(D) \in [Frontend -> Int]
      /\ DisableWithout(D) \in [Frontend -> BOOLEAN]
  BY DestroyType
<1> HIDE DEF InUseWithout, DisableWithout
<1>2. InUseWithout(D)[f] + 1 \in Int
  BY <1>1
<1>3. [InUseWithout(D) EXCEPT ![f] = @ + 1] \in [Frontend -> Int]
  BY <1>1, <1>2
<1> QED
  BY <1>1, <1>3 DEF OpenAndTune, TypeOK, FeState

(* Every record a channel is created with.                                 *)
LEMMA NewChannelType ==
  ASSUME NEW i \in ChannelId \cup {NoId}, NEW f \in Frontend \cup {NoFrontend},
         NEW st \in ChState, NEW n \in Int
  PROVE  [live |-> TRUE, id |-> i, fe |-> f, state |-> st, use |-> n]
           \in ChannelRecord
BY DEF ChannelRecord

-----------------------------------------------------------------------------
(* Type correctness, one lemma per group of actions.                       *)

LEMMA TuneTypes ==
  ASSUME TypeOK, NEW h \in Handler, NEW i \in ChannelId,
         TuneShared(h, i) \/ TuneNew(h, i) \/ TuneFails(h, i)
  PROVE  TypeOK'
<1> DEFINE D == Dropped(i)
           Gone == Dying(D, 1, {})
<1>1. /\ ChanAfterDrop(D) \in [Channel -> ChannelRecord]
      /\ ConnAfterDrop(D) \in Channel \cup {NoChannel}
      /\ ListeningAfterDrop(D) \subseteq Channel
      /\ InUseWithout(Gone) \in [Frontend -> Int]
      /\ DisableWithout(Gone) \in [Frontend -> BOOLEAN]
  BY DropType, DestroyType
<1>2. CASE TuneShared(h, i)
  <2>1. PICK c \in Sharable(i, D) :
          /\ chan' = [ChanAfterDrop(D) EXCEPT ![c] = AddUse(c, 2)]
          /\ Attach(h, c, i, AddUse(c, 2).state)
          /\ timer' = IF D # {} \/ (chan[c].state = "last_instance" /\ c \in listening)
                      THEN FALSE ELSE timer
          /\ cache' = IF D = {} THEN cache ELSE NoChannel
          /\ conn' = ConnAfterDrop(D)
          /\ listening' = ListeningAfterDrop(D)
          /\ Destroy(Gone)
    BY <1>2 DEF TuneShared
  <2>2. c \in Channel
    BY DEF Sharable, TypeOK
  <2>3. AddUse(c, 2) \in ChannelRecord
    BY <2>2, UseType
  <2>4. /\ hchan' \in [Handler -> Channel \cup {NoChannel}]
        /\ hconn' \in [Handler -> Channel \cup {NoChannel}]
        /\ want' \in [Handler -> ChannelId \cup {NoId}]
        /\ evt' \in [Handler -> Event]
        /\ rchan' \in [Scanner -> Channel \cup {NoChannel}]
    BY <2>1, <2>2, AttachType
  <2>5. chan' \in [Channel -> ChannelRecord]
    BY <1>1, <2>1, <2>2, <2>3
  <2>6. UNCHANGED <<festate, tuning>>
    BY <1>2 DEF TuneShared
  <2> QED
    BY <1>1, <2>1, <2>4, <2>5, <2>6 DEF TypeOK, Destroy
<1>3. CASE TuneNew(h, i)
  <2>1. PICK f \in Best(i, InUseWithout(Gone)), c \in Channel \ Live :
          /\ chan' = [ChanAfterDrop(D) EXCEPT ![c] =
                        [live |-> TRUE, id |-> i, fe |-> f, state |-> "tuning",
                         use |-> 3]]
          /\ active' = (active \ Gone) \cup {c}
          /\ cache' = c /\ conn' = c
          /\ listening' = ListeningAfterDrop(D) \cup {c}
          /\ timer' = IF D = {} THEN timer ELSE FALSE
          /\ OpenAndTune(f, Gone)
          /\ Attach(h, c, i, "tuning")
    BY <1>3 DEF TuneNew
  <2>2. f \in Frontend
    BY DEF Best, Candidates
  <2>3. /\ hchan' \in [Handler -> Channel \cup {NoChannel}]
        /\ hconn' \in [Handler -> Channel \cup {NoChannel}]
        /\ want' \in [Handler -> ChannelId \cup {NoId}]
        /\ evt' \in [Handler -> Event]
        /\ rchan' \in [Scanner -> Channel \cup {NoChannel}]
    BY <2>1, AttachType
  <2>4. /\ inuse' \in [Frontend -> Int] /\ disable' \in [Frontend -> BOOLEAN]
        /\ festate' \in [Frontend -> FeState] /\ tuning' \in [Frontend -> BOOLEAN]
    BY <2>1, <2>2, OpenType
  <2>5. chan' \in [Channel -> ChannelRecord]
    <3>1. [live |-> TRUE, id |-> i, fe |-> f, state |-> "tuning", use |-> 3]
            \in ChannelRecord
      BY <2>2, NewChannelType DEF ChState
    <3> QED
      BY <1>1, <2>1, <3>1
  <2> QED
    BY <1>1, <2>1, <2>3, <2>4, <2>5 DEF TypeOK
<1>4. CASE TuneFails(h, i)
  <2>1. /\ chan' = ChanAfterDrop(D)
        /\ active' = active \ Gone
        /\ cache' = NoChannel
        /\ conn' = ConnAfterDrop(D)
        /\ listening' = ListeningAfterDrop(D)
        /\ timer' = IF D = {} THEN timer ELSE FALSE
        /\ inuse' = InUseWithout(Gone)
        /\ UNCHANGED <<hchan, hconn, want, rchan>>
    BY <1>4 DEF TuneFails
  <2>2. CASE Best(i, InUseWithout(Gone)) = {}
    <3>1. /\ disable' = DisableWithout(Gone)
          /\ evt' = [evt EXCEPT ![h] =
               IF i \in Listed /\ \E f \in Frontend : Score[f][i] > 0
               THEN "noResources" ELSE "misconfigured"]
          /\ UNCHANGED <<festate, tuning>>
      BY <1>4, <2>2 DEF TuneFails
    <3> QED
      BY <1>1, <2>1, <3>1 DEF TypeOK, Event
  <2>3. CASE Best(i, InUseWithout(Gone)) # {}
    <3>1. PICK f \in Best(i, InUseWithout(Gone)) :
          /\ disable' = [DisableWithout(Gone) EXCEPT ![f] = TRUE]
          /\ festate' = [festate EXCEPT ![f] = IF @ = "closed" THEN "idle" ELSE @]
          /\ tuning' = [tuning EXCEPT ![f] = @ /\ festate[f] # "closed"]
          /\ evt' = [evt EXCEPT ![h] = "misconfigured"]
      BY <1>4, <2>3 DEF TuneFails
    <3>2. /\ festate' \in [Frontend -> FeState]
          /\ tuning' \in [Frontend -> BOOLEAN]
          /\ evt' \in [Handler -> Event]
      BY <3>1 DEF TypeOK, FeState, Event
    <3> QED
      BY <1>1, <2>1, <3>1, <3>2 DEF TypeOK
  <2> QED
    BY <2>2, <2>3
<1> QED
  BY <1>2, <1>3, <1>4

LEMMA ServiceTypes ==
  ASSUME TypeOK, NEW h \in Handler,
         Retune(h) \/ Free(h) \/ Drop(h) \/ \E i \in StreamId \cup {NoId} : TunePVR(h, i)
  PROVE  TypeOK'
<1>1. CASE Retune(h)
  <2> DEFINE D == Dropped(want[h])
  <2>1. /\ ChanAfterDrop(D) \in [Channel -> ChannelRecord]
        /\ ConnAfterDrop(D) \in Channel \cup {NoChannel}
        /\ ListeningAfterDrop(D) \subseteq Channel
        /\ InUseWithout(Dying(D, 1, {})) \in [Frontend -> Int]
        /\ DisableWithout(Dying(D, 1, {})) \in [Frontend -> BOOLEAN]
    BY DropType, DestroyType
  <2>2. EventOf(chan[hchan[h]].state, evt[h]) \in Event
    BY EventType DEF TypeOK
  <2>3. evt' \in [Handler -> Event]
    BY <1>1, <2>2 DEF Retune, TypeOK
  <2> QED
    BY <1>1, <2>1, <2>3 DEF Retune, Destroy, TypeOK
<1>2. CASE Free(h)
  <2>1. hchan[h] \in Channel
    BY <1>2 DEF Free, TypeOK
  <2>2. ReleaseUse(hchan[h], 2) \in ChannelRecord
    BY <2>1, UseType
  <2> QED
    BY <1>2, <2>2, TimerType DEF Free, TypeOK, feVars
<1>3. CASE Drop(h)
  <2> DEFINE Gone == Dying(Live \cap {hconn[h]}, 0, {h})
  <2>1. /\ InUseWithout(Gone) \in [Frontend -> Int]
        /\ DisableWithout(Gone) \in [Frontend -> BOOLEAN]
    BY DestroyType
  <2>2. chan' \in [Channel -> ChannelRecord]
    BY <1>3, DeadType DEF Drop, TypeOK
  <2> QED
    BY <1>3, <2>1, <2>2 DEF Drop, Destroy, TypeOK, Event
<1>4. ASSUME NEW i \in StreamId \cup {NoId}, TunePVR(h, i)
      PROVE  TypeOK'
  <2> DEFINE D == IF timer THEN CachedChannel ELSE {}
             Gone == Dying(D, 1, {})
  <2>1. /\ ChanAfterDrop(D) \in [Channel -> ChannelRecord]
        /\ ConnAfterDrop(D) \in Channel \cup {NoChannel}
        /\ ListeningAfterDrop(D) \subseteq Channel
        /\ InUseWithout(Gone) \in [Frontend -> Int]
        /\ DisableWithout(Gone) \in [Frontend -> BOOLEAN]
    BY DropType, DestroyType
  <2>2. PICK c \in Channel \ Live, st \in {"ok", "idle"} :
          /\ chan' = [ChanAfterDrop(D) EXCEPT ![c] =
                        [live |-> TRUE, id |-> i, fe |-> NoFrontend, state |-> st,
                         use |-> 2]]
          /\ active' = (active \ Gone) \cup (IF i = NoId THEN {} ELSE {c})
          /\ Attach(h, c, NoId, st)
    BY <1>4 DEF TunePVR
  <2>3. i \in ChannelId \cup {NoId}
    BY ConstantsAssumption
  <2>4. [live |-> TRUE, id |-> i, fe |-> NoFrontend, state |-> st, use |-> 2]
          \in ChannelRecord
    BY <2>3, NewChannelType DEF ChState
  <2>5. chan' \in [Channel -> ChannelRecord]
    BY <2>1, <2>2, <2>4
  <2>6. /\ hchan' \in [Handler -> Channel \cup {NoChannel}]
        /\ hconn' \in [Handler -> Channel \cup {NoChannel}]
        /\ want' \in [Handler -> ChannelId \cup {NoId}]
        /\ evt' \in [Handler -> Event]
        /\ rchan' \in [Scanner -> Channel \cup {NoChannel}]
    BY <2>2, AttachType
  <2>7. /\ cache' = IF D = {} THEN cache ELSE NoChannel
        /\ conn' = ConnAfterDrop(D)
        /\ listening' = ListeningAfterDrop(D)
        /\ timer' = IF D = {} THEN timer ELSE FALSE
        /\ inuse' = InUseWithout(Gone)
        /\ disable' = DisableWithout(Gone)
        /\ UNCHANGED <<festate, tuning>>
    BY <1>4 DEF TunePVR
  <2>8. active' \subseteq Channel
    BY <2>2 DEF TypeOK
  <2> QED
    BY <2>1, <2>5, <2>6, <2>7, <2>8 DEF TypeOK
<1> QED
  BY <1>1, <1>2, <1>3, <1>4

LEMMA ReleaseTypes ==
  ASSUME TypeOK, ReleaseTimeout
  PROVE  TypeOK'
<1> DEFINE Gone == Dying(CachedChannel, 1, {})
<1>1. /\ InUseWithout(Gone) \in [Frontend -> Int]
      /\ DisableWithout(Gone) \in [Frontend -> BOOLEAN]
  BY DestroyType
<1>2. \A c \in Channel : ReleaseUse(c, 1) \in ChannelRecord
  BY UseType
<1>3. chan' \in [Channel -> ChannelRecord]
  BY <1>2, DeadType DEF ReleaseTimeout, TypeOK
<1> QED
  BY <1>1, <1>3 DEF ReleaseTimeout, Destroy, TypeOK, clientVars

LEMMA ScanTypes ==
  ASSUME TypeOK, NEW r \in Scanner,
         ScanNext(r) \/ ScanEnd(r) \/ \E f \in Frontend : ScanStart(r, f)
  PROVE  TypeOK'
<1>1. CASE ScanNext(r)
  <2>1. \A c \in Channel : chan'[c] \in ChannelRecord
    BY <1>1 DEF ScanNext, TypeOK, ChannelRecord, ChState
  <2>2. chan' \in [Channel -> ChannelRecord]
    BY <1>1, <2>1 DEF ScanNext, TypeOK
  <2> QED
    BY <1>1, <2>2 DEF ScanNext, TypeOK, FeState, cacheVars, clientVars
<1>2. CASE ScanEnd(r)
  <2>1. /\ InUseWithout({rchan[r]}) \in [Frontend -> Int]
        /\ DisableWithout({rchan[r]}) \in [Frontend -> BOOLEAN]
    BY DestroyType
  <2>2. chan' \in [Channel -> ChannelRecord]
    BY <1>2, DeadType DEF ScanEnd, TypeOK
  <2> QED
    BY <1>2, <2>1, <2>2 DEF ScanEnd, Destroy, TypeOK, cacheVars
<1>3. ASSUME NEW f \in Frontend, ScanStart(r, f)
      PROVE  TypeOK'
  <2> DEFINE D == CachedChannel
             Gone == Dying(D, 1, {})
  <2>1. /\ ChanAfterDrop(D) \in [Channel -> ChannelRecord]
        /\ ConnAfterDrop(D) \in Channel \cup {NoChannel}
        /\ ListeningAfterDrop(D) \subseteq Channel
        /\ InUseWithout(Gone) \in [Frontend -> Int]
        /\ DisableWithout(Gone) \in [Frontend -> BOOLEAN]
    BY DropType, DestroyType
  <2>2. /\ cache' = NoChannel
        /\ conn' = ConnAfterDrop(D)
        /\ listening' = ListeningAfterDrop(D)
        /\ timer' = IF D = {} THEN timer ELSE FALSE
        /\ active' = active \ Gone
        /\ UNCHANGED <<hchan, hconn, want, evt>>
    BY <1>3 DEF ScanStart
  <2>3. CASE OpenAndTune(f, Gone) /\ \E c \in Channel \ Live :
             /\ chan' = [ChanAfterDrop(D) EXCEPT ![c] =
                           [live |-> TRUE, id |-> NoId, fe |-> f, state |-> "last_instance",
                            use |-> 1]]
             /\ rchan' = [rchan EXCEPT ![r] = c]
    <3>1. [live |-> TRUE, id |-> NoId, fe |-> f, state |-> "last_instance",
           use |-> 1] \in ChannelRecord
      BY NewChannelType DEF ChState
    <3>2. chan' \in [Channel -> ChannelRecord] /\ rchan' \in [Scanner -> Channel \cup {NoChannel}]
      BY <2>1, <2>3, <3>1 DEF TypeOK
    <3>3. /\ inuse' \in [Frontend -> Int] /\ disable' \in [Frontend -> BOOLEAN]
          /\ festate' \in [Frontend -> FeState] /\ tuning' \in [Frontend -> BOOLEAN]
      BY <2>3, OpenType
    <3> QED
      BY <2>1, <2>2, <3>2, <3>3 DEF TypeOK
  <2>4. CASE /\ chan' = ChanAfterDrop(D)
             /\ inuse' = InUseWithout(Gone)
             /\ disable' = DisableWithout(Gone)
             /\ UNCHANGED <<festate, tuning, rchan>>
    BY <2>1, <2>2, <2>4 DEF TypeOK
  <2> QED
    BY <1>3, <2>3, <2>4 DEF ScanStart
<1> QED
  BY <1>1, <1>2, <1>3

LEMMA FrontendTypes ==
  ASSUME TypeOK, NEW f \in Frontend,
         Lock(f) \/ LoseLock(f) \/ TuneTimeout(f) \/ DisableTimeout(f)
  PROVE  TypeOK'
<1>1. CASE Lock(f)
  <2>1. Signal(f, "ok")
    BY <1>1 DEF Lock
  <2> QED
    BY <1>1, <2>1, SignalType DEF Lock, FrontendUnchanged, TypeOK, FeState, ChState
<1>2. CASE LoseLock(f)
  <2>1. \E st \in {"tuning", "unavailable"} : Signal(f, st)
    BY <1>2 DEF LoseLock
  <2>2. festate' \in [Frontend -> FeState] /\ tuning' \in [Frontend -> BOOLEAN]
    BY <1>2 DEF LoseLock, RetuneOr, TypeOK, FeState, Managed
  <2> QED
    BY <1>2, <2>1, <2>2, SignalType DEF LoseLock, FrontendUnchanged, TypeOK, ChState
<1>3. CASE TuneTimeout(f)
  <2>1. festate' \in [Frontend -> FeState] /\ tuning' \in [Frontend -> BOOLEAN]
    BY <1>3 DEF TuneTimeout, RetuneOr, TypeOK, FeState, Managed
  <2>2. /\ chan' \in [Channel -> ChannelRecord] /\ timer' \in BOOLEAN
        /\ evt' \in [Handler -> Event]
    <3>1. CASE UNCHANGED <<chan, timer, evt>>
      BY <3>1 DEF TypeOK
    <3>2. CASE Signal(f, "failed")
      BY <3>2, SignalType DEF ChState
    <3>3. CASE chan' = [chan EXCEPT ![ChannelOn(f)].state = "tuning"] /\ UNCHANGED <<timer, evt>>
      <4>1. \A c \in Channel : chan'[c] \in ChannelRecord
        BY <3>3 DEF TypeOK, ChannelRecord, ChState
      <4> QED
        BY <3>3, <4>1 DEF TypeOK
    <3> QED
      BY <1>3, <3>1, <3>2, <3>3 DEF TuneTimeout
  <2> QED
    BY <1>3, <2>1, <2>2 DEF TuneTimeout, FrontendUnchanged, TypeOK
<1>4. CASE DisableTimeout(f)
  BY <1>4 DEF DisableTimeout, TypeOK, FeState, cacheVars, clientVars
<1> QED
  BY <1>1, <1>2, <1>3, <1>4

LEMMA InitTypes == Init => TypeOK
<1> SUFFICES ASSUME Init PROVE TypeOK
  OBVIOUS
<1>1. /\ inuse \in [Frontend -> Int] /\ disable \in [Frontend -> BOOLEAN]
      /\ festate \in [Frontend -> FeState] /\ tuning \in [Frontend -> BOOLEAN]
  BY DEF Init, FeState
<1>2. chan \in [Channel -> ChannelRecord]
  BY DeadType DEF Init
<1>3. /\ hchan \in [Handler -> Channel \cup {NoChannel}]
      /\ hconn \in [Handler -> Channel \cup {NoChannel}]
      /\ want \in [Handler -> ChannelId \cup {NoId}]
      /\ evt \in [Handler -> Event]
      /\ rchan \in [Scanner -> Channel \cup {NoChannel}]
  BY DEF Init, Event
<1> QED
  BY <1>1, <1>2, <1>3 DEF Init, TypeOK

LEMMA NextTypes == TypeOK /\ [Next]_vars => TypeOK'
<1> SUFFICES ASSUME TypeOK, [Next]_vars PROVE TypeOK'
  OBVIOUS
<1>1. CASE UNCHANGED vars
  BY <1>1 DEF TypeOK, vars, feVars, cacheVars, clientVars
<1>2. CASE Next
  BY <1>2, TuneTypes, ServiceTypes, ReleaseTypes, ScanTypes, FrontendTypes DEF Next
<1> QED
  BY <1>1, <1>2

(* The model is type correct: in particular a frontend, a scan and a PMT   *)
(* handler never refer to anything but a channel object or nothing.        *)
THEOREM TypeCorrect == Spec => []TypeOK
BY InitTypes, NextTypes, PTL DEF Spec

-----------------------------------------------------------------------------
(* Tuner ownership.  FrontendExclusive is not inductive by itself: it says *)
(* nothing of the record of a dead channel, which a later allocation       *)
(* reuses.  The strengthening is that only a living channel owns a tuner.  *)

(* Channels ch and use counts used agree on who owns which tuner.          *)
Owned(ch, used) ==
  \A f \in Frontend :
    \/ used[f] = 0 /\ \A c \in Channel : ch[c].fe # f
    \/ used[f] = 1 /\ \E c \in Channel : \A d \in Channel : ch[d].fe = f <=> d = c

LivingOwn(ch) == \A c \in Channel : ~ch[c].live => ch[c].fe = NoFrontend

Ownership == TypeOK /\ Owned(chan, inuse) /\ LivingOwn(chan)

(* ch is chan, but for the channels in D, which are dead.                  *)
Killed(ch, D) ==
  /\ D \subseteq Channel
  /\ \A c \in Channel : IF c \in D THEN ch[c] = Dead
                        ELSE ch[c].fe = chan[c].fe /\ ch[c].live = chan[c].live

LEMMA OwnershipImplies == Ownership => FrontendExclusive
<1> SUFFICES ASSUME Ownership, NEW f \in Frontend
             PROVE  \/ inuse[f] = 0 /\ ChannelsOn(f) = {}
                    \/ inuse[f] = 1 /\ \E c \in Live : ChannelsOn(f) = {c}
  BY DEF FrontendExclusive
<1>1. CASE inuse[f] = 0 /\ \A c \in Channel : chan[c].fe # f
  BY <1>1 DEF ChannelsOn, Live
<1>2. CASE inuse[f] = 1 /\ \E c \in Channel : \A d \in Channel : chan[d].fe = f <=> d = c
  <2>1. PICK c \in Channel : \A d \in Channel : chan[d].fe = f <=> d = c
    BY <1>2
  <2>2. c \in Live
    BY <2>1, ConstantsAssumption DEF Ownership, LivingOwn, Live
  <2>3. ChannelsOn(f) = {c}
    BY <2>1, <2>2 DEF ChannelsOn, Live
  <2> QED
    BY <1>2, <2>2, <2>3
<1> QED
  BY <1>1, <1>2 DEF Ownership, Owned

(* Destroying channels gives exactly their tuners back.                    *)
LEMMA KillOwned ==
  ASSUME Ownership, NEW ch, NEW D, Killed(ch, D)
  PROVE  Owned(ch, InUseWithout(D)) /\ LivingOwn(ch)
<1>1. LivingOwn(ch)
  BY DEF Ownership, LivingOwn, Killed, Dead
<1>2. ASSUME NEW f \in Frontend
      PROVE  \/ InUseWithout(D)[f] = 0 /\ \A c \in Channel : ch[c].fe # f
             \/ InUseWithout(D)[f] = 1 /\ \E c \in Channel : \A d \in Channel : ch[d].fe = f <=> d = c
  <2>0. f # NoFrontend /\ inuse[f] \in Int
    BY ConstantsAssumption DEF Ownership, TypeOK
  <2>1. CASE inuse[f] = 0 /\ \A c \in Channel : chan[c].fe # f
    <3>1. f \notin FrontendsOf(D)
      BY <2>1 DEF FrontendsOf, Killed
    <3>2. \A c \in Channel : ch[c].fe # f
      BY <2>0, <2>1 DEF Killed, Dead
    <3> QED
      BY <2>1, <3>1, <3>2 DEF InUseWithout
  <2>2. CASE inuse[f] = 1 /\ \E c \in Channel : \A d \in Channel : chan[d].fe = f <=> d = c
    <3>1. PICK c \in Channel : \A d \in Channel : chan[d].fe = f <=> d = c
      BY <2>2
    <3>2. CASE c \in D
      <4>1. f \in FrontendsOf(D)
        BY <2>0, <3>1, <3>2 DEF FrontendsOf
      <4>2. \A d \in Channel : ch[d].fe # f
        BY <2>0, <3>1, <3>2 DEF Killed, Dead
      <4> QED
        BY <2>2, <4>1, <4>2 DEF InUseWithout
    <3>3. CASE c \notin D
      <4>1. f \notin FrontendsOf(D)
        BY <3>1, <3>3 DEF FrontendsOf, Killed
      <4>2. \A d \in Channel : ch[d].fe = f <=> d = c
        BY <2>0, <3>1, <3>3 DEF Killed, Dead
      <4> QED
        BY <2>2, <4>1, <4>2 DEF InUseWithout
    <3> QED
      BY <3>2, <3>3
  <2> QED
    BY <2>1, <2>2 DEF Ownership, Owned
<1> QED
  BY <1>1, <1>2 DEF Owned

(* A new channel on an unused tuner owns it, and any other new channel     *)
(* none.                                                                   *)
LEMMA AddOwned ==
  ASSUME NEW ch \in [Channel -> ChannelRecord], NEW used \in [Frontend -> Int],
         Owned(ch, used), LivingOwn(ch),
         NEW c \in Channel, ~ch[c].live,
         NEW f \in Frontend, used[f] = 0,
         NEW rec \in ChannelRecord, rec.live, rec.fe = f
  PROVE  /\ Owned([ch EXCEPT ![c] = rec], [used EXCEPT ![f] = @ + 1])
         /\ LivingOwn([ch EXCEPT ![c] = rec])
<1> DEFINE ch2 == [ch EXCEPT ![c] = rec]
           used2 == [used EXCEPT ![f] = @ + 1]
<1>1. \A d \in Channel : ch2[d] = IF d = c THEN rec ELSE ch[d]
  OBVIOUS
<1>2. \A g \in Frontend : used2[g] = IF g = f THEN 1 ELSE used[g]
  OBVIOUS
<1>3. ch[c].fe = NoFrontend
  BY DEF LivingOwn
<1> HIDE DEF ch2, used2
<1>4. LivingOwn(ch2)
  BY <1>1 DEF LivingOwn
<1>5. ASSUME NEW g \in Frontend
      PROVE  \/ used2[g] = 0 /\ \A d \in Channel : ch2[d].fe # g
             \/ used2[g] = 1 /\ \E d \in Channel : \A e \in Channel : ch2[e].fe = g <=> e = d
  <2>0. g # NoFrontend
    BY ConstantsAssumption
  <2>1. CASE g = f
    <3>1. \A d \in Channel : ch[d].fe # f
      BY DEF Owned
    <3>2. \A e \in Channel : ch2[e].fe = g <=> e = c
      BY <1>1, <2>1, <3>1
    <3> QED
      BY <1>2, <2>1, <3>2
  <2>2. CASE g # f
    <3>1. \A d \in Channel : ch2[d].fe = g <=> ch[d].fe = g
      BY <1>1, <1>3, <2>0, <2>2
    <3> QED
      BY <1>2, <2>2, <3>1 DEF Owned
  <2> QED
    BY <2>1, <2>2
<1> QED
  BY <1>4, <1>5 DEF Owned, ch2, used2

LEMMA AddUnowned ==
  ASSUME NEW ch \in [Channel -> ChannelRecord], NEW used, Owned(ch, used), LivingOwn(ch),
         NEW c \in Channel, ~ch[c].live,
         NEW rec \in ChannelRecord, rec.live, rec.fe = NoFrontend
  PROVE  Owned([ch EXCEPT ![c] = rec], used) /\ LivingOwn([ch EXCEPT ![c] = rec])
<1> DEFINE ch2 == [ch EXCEPT ![c] = rec]
<1>1. \A d \in Channel : ch2[d].fe = ch[d].fe /\ (~ch2[d].live => ~ch[d].live)
  BY DEF LivingOwn
<1> HIDE DEF ch2
<1> QED
  BY <1>1 DEF Owned, LivingOwn, ch2

LEMMA KeepOwned ==
  ASSUME Ownership, \A c \in Channel : chan'[c].fe = chan[c].fe /\ chan'[c].live = chan[c].live,
         inuse' = inuse
  PROVE  Owned(chan', inuse') /\ LivingOwn(chan')
BY DEF Ownership, Owned, LivingOwn

(* Giving up the cached channel destroys what dies with it, nothing else.  *)
LEMMA DropKilled ==
  ASSUME TypeOK, NEW D \in SUBSET Channel
  PROVE  Killed(ChanAfterDrop(D), Dying(D, 1, {}))
<1>1. Dying(D, 1, {}) \subseteq Channel
  BY DEF Dying
<1>2. \A c \in Channel : /\ ReleaseUse(c, 1).fe = chan[c].fe
                         /\ ReleaseUse(c, 1).live = chan[c].live
  BY DEF ReleaseUse, TypeOK, ChannelRecord
<1> QED
  BY <1>1, <1>2 DEF Killed, ChanAfterDrop

LEMMA CacheType ==
  ASSUME TypeOK
  PROVE  CachedChannel \in SUBSET Channel /\ \A i : Dropped(i) \in SUBSET Channel
BY DEF CachedChannel, Dropped, TypeOK

(* What dropping D leaves is owned as the use counts say.                  *)
LEMMA DropOwned ==
  ASSUME Ownership, NEW D \in SUBSET Channel
  PROVE  /\ Owned(ChanAfterDrop(D), InUseWithout(Dying(D, 1, {})))
         /\ LivingOwn(ChanAfterDrop(D))
         /\ \A c \in Channel \ Live : ~ChanAfterDrop(D)[c].live
<1>1. Killed(ChanAfterDrop(D), Dying(D, 1, {}))
  BY DropKilled DEF Ownership
<1>2. \A c \in Channel \ Live : ~ChanAfterDrop(D)[c].live
  BY <1>1 DEF Killed, Dead, Live
<1> QED
  BY <1>1, <1>2, KillOwned

LEMMA TuneOwned ==
  ASSUME Ownership, NEW h \in Handler, NEW i \in ChannelId,
         TuneShared(h, i) \/ TuneNew(h, i) \/ TuneFails(h, i)
  PROVE  Owned(chan', inuse') /\ LivingOwn(chan')
<1> DEFINE D == Dropped(i)
           Gone == Dying(D, 1, {})
<1>0. D \in SUBSET Channel /\ TypeOK
  BY CacheType DEF Ownership
<1>1. /\ Owned(ChanAfterDrop(D), InUseWithout(Gone)) /\ LivingOwn(ChanAfterDrop(D))
      /\ \A c \in Channel \ Live : ~ChanAfterDrop(D)[c].live
  BY <1>0, DropOwned
<1>2. ChanAfterDrop(D) \in [Channel -> ChannelRecord] /\ InUseWithout(Gone) \in [Frontend -> Int]
  BY <1>0, DropType, DestroyType
<1>3. CASE TuneShared(h, i)
  <2>1. PICK c \in Sharable(i, D) :
          chan' = [ChanAfterDrop(D) EXCEPT ![c] = AddUse(c, 2)] /\ Destroy(Gone)
    BY <1>3 DEF TuneShared
  <2>2. c \in Channel /\ c \notin Gone
    BY <1>0 DEF Sharable, Dying, TypeOK
  <2>3. AddUse(c, 2).fe = chan[c].fe /\ AddUse(c, 2).live = chan[c].live
    BY <1>0, <2>2 DEF AddUse, TypeOK, ChannelRecord
  <2>4. Killed(ChanAfterDrop(D), Gone)
    BY <1>0, DropKilled
  <2> HIDE DEF D, Gone
  <2>5. \A d \in Channel : chan'[d] = IF d = c THEN AddUse(c, 2) ELSE ChanAfterDrop(D)[d]
    BY <1>2, <2>1
  <2>6. Killed(chan', Gone)
    BY <2>2, <2>3, <2>4, <2>5 DEF Killed
  <2>7. inuse' = InUseWithout(Gone)
    BY <2>1 DEF Destroy
  <2> QED
    BY <2>6, <2>7, KillOwned
<1>4. CASE TuneNew(h, i)
  <2>1. PICK f \in Best(i, InUseWithout(Gone)), c \in Channel \ Live :
          /\ chan' = [ChanAfterDrop(D) EXCEPT ![c] =
                        [live |-> TRUE, id |-> i, fe |-> f, state |-> "tuning",
                         use |-> 3]]
          /\ OpenAndTune(f, Gone)
    BY <1>4 DEF TuneNew
  <2>2. f \in Frontend /\ InUseWithout(Gone)[f] = 0
    BY DEF Best, Candidates
  <2>3. inuse' = [InUseWithout(Gone) EXCEPT ![f] = @ + 1]
    BY <2>1 DEF OpenAndTune
  <2>4. [live |-> TRUE, id |-> i, fe |-> f, state |-> "tuning", use |-> 3]
          \in ChannelRecord
    BY <2>2, NewChannelType DEF ChState
  <2> HIDE DEF D, Gone
  <2> QED
    BY <1>1, <1>2, <2>1, <2>2, <2>3, <2>4, AddOwned
<1>5. CASE TuneFails(h, i)
  BY <1>1, <1>5 DEF TuneFails
<1> QED
  BY <1>3, <1>4, <1>5

LEMMA ServiceOwned ==
  ASSUME Ownership, NEW h \in Handler,
         Retune(h) \/ Free(h) \/ Drop(h) \/ \E i \in StreamId \cup {NoId} : TunePVR(h, i)
  PROVE  Owned(chan', inuse') /\ LivingOwn(chan')
<1>0. TypeOK
  BY DEF Ownership
<1>1. CASE Retune(h)
  <2>1. chan' = ChanAfterDrop(Dropped(want[h]))
    BY <1>1 DEF Retune
  <2>2. inuse' = InUseWithout(Dying(Dropped(want[h]), 1, {}))
    BY <1>1 DEF Retune, Destroy
  <2> QED
    BY <1>0, <2>1, <2>2, CacheType, DropOwned
<1>2. CASE Free(h)
  <2>1. hchan[h] \in Channel
    BY <1>0, <1>2 DEF Free, TypeOK
  <2>2. /\ ReleaseUse(hchan[h], 2).fe = chan[hchan[h]].fe
        /\ ReleaseUse(hchan[h], 2).live = chan[hchan[h]].live
    BY <1>0, <2>1 DEF ReleaseUse, TypeOK, ChannelRecord
  <2>3. chan' = [chan EXCEPT ![hchan[h]] = ReleaseUse(hchan[h], 2)] /\ inuse' = inuse
    BY <1>2 DEF Free, feVars
  <2>4. \A c \in Channel : chan'[c].fe = chan[c].fe /\ chan'[c].live = chan[c].live
    BY <1>0, <2>2, <2>3 DEF TypeOK
  <2> QED
    BY <2>3, <2>4, KeepOwned
<1>3. CASE Drop(h)
  <2> DEFINE Gone == Dying(Live \cap {hconn[h]}, 0, {h})
  <2>1. Killed(chan', Gone)
    BY <1>3 DEF Drop, Killed, Dying, Live
  <2>2. inuse' = InUseWithout(Gone)
    BY <1>3 DEF Drop, Destroy
  <2> QED
    BY <2>1, <2>2, KillOwned
<1>4. ASSUME NEW i \in StreamId \cup {NoId}, TunePVR(h, i)
      PROVE  Owned(chan', inuse') /\ LivingOwn(chan')
  <2> DEFINE D == IF timer THEN CachedChannel ELSE {}
             Gone == Dying(D, 1, {})
  <2>1. D \in SUBSET Channel
    BY <1>0, CacheType
  <2>2. /\ Owned(ChanAfterDrop(D), InUseWithout(Gone)) /\ LivingOwn(ChanAfterDrop(D))
        /\ \A c \in Channel \ Live : ~ChanAfterDrop(D)[c].live
    BY <2>1, DropOwned
  <2>3. ChanAfterDrop(D) \in [Channel -> ChannelRecord]
    BY <1>0, DropType
  <2>4. PICK c \in Channel \ Live, st \in {"ok", "idle"} :
          chan' = [ChanAfterDrop(D) EXCEPT ![c] =
                     [live |-> TRUE, id |-> i, fe |-> NoFrontend, state |-> st,
                      use |-> 2]]
    BY <1>4 DEF TunePVR
  <2>5. inuse' = InUseWithout(Gone)
    BY <1>4 DEF TunePVR
  <2>6. i \in ChannelId \cup {NoId}
    BY ConstantsAssumption
  <2>7. [live |-> TRUE, id |-> i, fe |-> NoFrontend, state |-> st, use |-> 2]
          \in ChannelRecord
    BY <2>6, NewChannelType DEF ChState
  <2> HIDE DEF D, Gone
  <2> QED
    BY <2>2, <2>3, <2>4, <2>5, <2>7, AddUnowned
<1> QED
  BY <1>1, <1>2, <1>3, <1>4

LEMMA ReleaseOwned ==
  ASSUME Ownership, ReleaseTimeout
  PROVE  Owned(chan', inuse') /\ LivingOwn(chan')
<1> DEFINE Gone == Dying(CachedChannel, 1, {})
<1>0. TypeOK /\ Gone \subseteq Channel
  BY CacheType DEF Ownership, Dying
<1>1. \A c \in Channel : /\ ReleaseUse(c, 1).fe = chan[c].fe
                         /\ ReleaseUse(c, 1).live = chan[c].live
  BY <1>0 DEF ReleaseUse, TypeOK, ChannelRecord
<1>2. Killed(chan', Gone)
  BY <1>0, <1>1 DEF ReleaseTimeout, Killed
<1>3. inuse' = InUseWithout(Gone)
  BY DEF ReleaseTimeout, Destroy
<1> QED
  BY <1>2, <1>3, KillOwned

LEMMA ScanOwned ==
  ASSUME Ownership, NEW r \in Scanner,
         ScanNext(r) \/ ScanEnd(r) \/ \E f \in Frontend : ScanStart(r, f)
  PROVE  Owned(chan', inuse') /\ LivingOwn(chan')
<1>0. TypeOK
  BY DEF Ownership
<1>1. CASE ScanNext(r)
  <2>1. \A c \in Channel : chan'[c].fe = chan[c].fe /\ chan'[c].live = chan[c].live
    BY <1>0, <1>1 DEF ScanNext, TypeOK, ChannelRecord
  <2> QED
    BY <1>1, <2>1, KeepOwned DEF ScanNext
<1>2. CASE ScanEnd(r)
  <2>1. Killed(chan', {rchan[r]})
    BY <1>0, <1>2 DEF ScanEnd, Killed, TypeOK
  <2>2. inuse' = InUseWithout({rchan[r]})
    BY <1>2 DEF ScanEnd, Destroy
  <2> QED
    BY <2>1, <2>2, KillOwned
<1>3. ASSUME NEW f \in Frontend, ScanStart(r, f)
      PROVE  Owned(chan', inuse') /\ LivingOwn(chan')
  <2> DEFINE D == CachedChannel
             Gone == Dying(D, 1, {})
  <2>1. D \in SUBSET Channel
    BY <1>0, CacheType
  <2>2. /\ Owned(ChanAfterDrop(D), InUseWithout(Gone)) /\ LivingOwn(ChanAfterDrop(D))
        /\ \A c \in Channel \ Live : ~ChanAfterDrop(D)[c].live
    BY <2>1, DropOwned
  <2>3. ChanAfterDrop(D) \in [Channel -> ChannelRecord] /\ InUseWithout(Gone) \in [Frontend -> Int]
    BY <1>0, DropType, DestroyType
  <2>4. CASE /\ InUseWithout(Gone)[f] = 0
             /\ OpenAndTune(f, Gone)
             /\ \E c \in Channel \ Live :
                  chan' = [ChanAfterDrop(D) EXCEPT ![c] =
                             [live |-> TRUE, id |-> NoId, fe |-> f, state |-> "last_instance",
                              use |-> 1]]
    <3>1. [live |-> TRUE, id |-> NoId, fe |-> f, state |-> "last_instance",
           use |-> 1] \in ChannelRecord
      BY NewChannelType DEF ChState
    <3>2. inuse' = [InUseWithout(Gone) EXCEPT ![f] = @ + 1]
      BY <2>4 DEF OpenAndTune
    <3>3. PICK c \in Channel \ Live :
            chan' = [ChanAfterDrop(D) EXCEPT ![c] =
                       [live |-> TRUE, id |-> NoId, fe |-> f, state |-> "last_instance",
                        use |-> 1]]
      BY <2>4
    <3>4. InUseWithout(Gone)[f] = 0 /\ ~ChanAfterDrop(D)[c].live
      BY <2>2, <2>4
    <3> HIDE DEF D, Gone
    <3> QED
      BY <2>2, <2>3, <3>1, <3>2, <3>3, <3>4, AddOwned
  <2>5. CASE chan' = ChanAfterDrop(D) /\ inuse' = InUseWithout(Gone)
    BY <2>2, <2>5
  <2> QED
    BY <1>3, <2>4, <2>5 DEF ScanStart
<1> QED
  BY <1>1, <1>2, <1>3

(* No frontend event changes who owns which tuner.                         *)
LEMMA FrontendOwned ==
  ASSUME Ownership, NEW f \in Frontend,
         Lock(f) \/ LoseLock(f) \/ TuneTimeout(f) \/ DisableTimeout(f)
  PROVE  Owned(chan', inuse') /\ LivingOwn(chan')
<1>1. inuse' = inuse
  BY DEF Lock, LoseLock, TuneTimeout, DisableTimeout, FrontendUnchanged
<1>2. \A c \in Channel : chan'[c].fe = chan[c].fe /\ chan'[c].live = chan[c].live
  <2>1. ASSUME NEW st, Signal(f, st)
        PROVE  \A c \in Channel : chan'[c].fe = chan[c].fe /\ chan'[c].live = chan[c].live
    BY <2>1 DEF Signal, Ownership, TypeOK, ChannelRecord
  <2>2. CASE chan' = [chan EXCEPT ![ChannelOn(f)].state = "tuning"]
    BY <2>2 DEF Ownership, TypeOK, ChannelRecord
  <2>3. chan' = chan \/ (\E st : Signal(f, st))
          \/ chan' = [chan EXCEPT ![ChannelOn(f)].state = "tuning"]
    BY DEF Lock, LoseLock, TuneTimeout, DisableTimeout
  <2> QED
    BY <2>1, <2>2, <2>3
<1> QED
  BY <1>1, <1>2, KeepOwned

LEMMA InitOwned == Init => Ownership
<1> SUFFICES ASSUME Init PROVE Ownership
  OBVIOUS
<1>1. Owned(chan, inuse) /\ LivingOwn(chan)
  BY ConstantsAssumption DEF Init, Owned, LivingOwn, Dead
<1> QED
  BY <1>1, InitTypes DEF Ownership

LEMMA NextOwned == Ownership /\ [Next]_vars => Ownership'
<1> SUFFICES ASSUME Ownership, [Next]_vars PROVE Ownership'
  OBVIOUS
<1>1. TypeOK'
  BY NextTypes DEF Ownership
<1>2. CASE UNCHANGED vars
  BY <1>1, <1>2, KeepOwned DEF vars, feVars, Ownership
<1>3. CASE Next
  BY <1>1, <1>3, TuneOwned, ServiceOwned, ReleaseOwned, ScanOwned, FrontendOwned
     DEF Next, Ownership
<1> QED
  BY <1>2, <1>3

(* The central safety result: whatever services, scans, timers and the     *)
(* hardware do, no tuner is ever owned by two channel objects, and the use *)
(* count that allocateFrontend looks at is right.                          *)
THEOREM TunersExclusive == Spec => []FrontendExclusive
BY InitOwned, NextOwned, OwnershipImplies, PTL DEF Spec
-----------------------------------------------------------------------------
(* Open tuners.  OpenExactly is inductive on top of Ownership.             *)

(* The open tuners, for use counts used and closing timers dis.            *)
Open(used, dis, st) ==
  \A f \in Frontend : /\ used[f] > 0 => st[f] # "closed"
                      /\ used[f] = 0 /\ st[f] # "closed" => dis[f]

LEMMA OpenIs == OpenExactly <=> Open(inuse, disable, festate)
BY DEF OpenExactly, OpenWhileInUse, ClosePending, Open

(* A tuner that is given back gets its closing timer.                      *)
LEMMA KillOpen ==
  ASSUME TypeOK, OpenExactly, NEW D
  PROVE  Open(InUseWithout(D), DisableWithout(D), festate)
<1> SUFFICES ASSUME NEW f \in Frontend
             PROVE  /\ InUseWithout(D)[f] > 0 => festate[f] # "closed"
                    /\ InUseWithout(D)[f] = 0 /\ festate[f] # "closed" => DisableWithout(D)[f]
  BY DEF Open
<1>1. /\ inuse[f] \in Int
      /\ InUseWithout(D)[f] = IF f \in FrontendsOf(D) THEN inuse[f] - 1 ELSE inuse[f]
      /\ DisableWithout(D)[f] <=> disable[f] \/ (f \in FrontendsOf(D) /\ inuse[f] = 1)
  BY DEF TypeOK, InUseWithout, DisableWithout
<1> QED
  BY <1>1 DEF OpenExactly, OpenWhileInUse, ClosePending

LEMMA OpenAndTuneOpen ==
  ASSUME TypeOK, OpenExactly, NEW f \in Frontend, NEW D, InUseWithout(D)[f] = 0, OpenAndTune(f, D)
  PROVE  OpenExactly'
<1>1. Open(InUseWithout(D), DisableWithout(D), festate)
  BY KillOpen
<1>2. InUseWithout(D) \in [Frontend -> Int]
  BY DestroyType
<1>3. /\ inuse' = [InUseWithout(D) EXCEPT ![f] = @ + 1]
      /\ disable' = DisableWithout(D)
      /\ festate' = [festate EXCEPT ![f] = "tuning"]
  BY DEF OpenAndTune
<1> HIDE DEF InUseWithout, DisableWithout
<1>4. \A g \in Frontend : inuse'[g] = IF g = f THEN 1 ELSE InUseWithout(D)[g]
  BY <1>2, <1>3
<1>5. \A g \in Frontend : festate'[g] = IF g = f THEN "tuning" ELSE festate[g]
  BY <1>3 DEF TypeOK
<1>6. Open(inuse', disable', festate')
  BY <1>1, <1>3, <1>4, <1>5 DEF Open
<1> QED
  BY <1>6 DEF Open, OpenExactly, OpenWhileInUse, ClosePending

(* Destroying channels, and nothing else that concerns tuners.             *)
LEMMA DestroyOpen ==
  ASSUME TypeOK, OpenExactly, NEW D,
         inuse' = InUseWithout(D), disable' = DisableWithout(D), festate' = festate
  PROVE  OpenExactly'
<1>1. Open(inuse', disable', festate')
  BY KillOpen
<1> QED
  BY <1>1 DEF Open, OpenExactly, OpenWhileInUse, ClosePending

LEMMA ServiceOpen ==
  ASSUME TypeOK, OpenExactly, NEW h \in Handler,
         \/ \E i \in ChannelId : TuneShared(h, i) \/ TuneNew(h, i) \/ TuneFails(h, i)
         \/ \E i \in StreamId \cup {NoId} : TunePVR(h, i)
         \/ Retune(h) \/ Free(h) \/ Drop(h)
  PROVE  OpenExactly'
<1>1. ASSUME NEW i \in ChannelId, TuneShared(h, i)
      PROVE  OpenExactly'
  <2>1. Destroy(Dying(Dropped(i), 1, {})) /\ festate' = festate
    BY <1>1 DEF TuneShared
  <2> QED
    BY <2>1, DestroyOpen DEF Destroy
<1>2. ASSUME NEW i \in ChannelId, TuneNew(h, i)
      PROVE  OpenExactly'
  <2> DEFINE Gone == Dying(Dropped(i), 1, {})
  <2>1. PICK f \in Best(i, InUseWithout(Gone)) : OpenAndTune(f, Gone)
    BY <1>2 DEF TuneNew
  <2>2. f \in Frontend /\ InUseWithout(Gone)[f] = 0
    BY DEF Best, Candidates
  <2> QED
    BY <2>1, <2>2, OpenAndTuneOpen
<1>3. ASSUME NEW i \in ChannelId, TuneFails(h, i)
      PROVE  OpenExactly'
  <2> DEFINE Gone == Dying(Dropped(i), 1, {})
             left == InUseWithout(Gone)
  <2>1. inuse' = left
    BY <1>3 DEF TuneFails
  <2>2. CASE disable' = DisableWithout(Gone) /\ festate' = festate
    BY <2>1, <2>2, DestroyOpen
  <2>3. ASSUME NEW f \in Best(i, left),
               disable' = [DisableWithout(Gone) EXCEPT ![f] = TRUE],
               festate' = [festate EXCEPT ![f] = IF @ = "closed" THEN "idle" ELSE @]
        PROVE  OpenExactly'
    <3>1. f \in Frontend /\ left[f] = 0
      BY DEF Best, Candidates
    <3>2. Open(left, DisableWithout(Gone), festate)
      BY KillOpen
    <3>3. DisableWithout(Gone) \in [Frontend -> BOOLEAN]
      BY DestroyType
    <3> HIDE DEF left, Gone
    <3>4. /\ \A g \in Frontend : disable'[g] <=> g = f \/ DisableWithout(Gone)[g]
          /\ \A g \in Frontend : g # f => festate'[g] = festate[g]
      BY <2>3, <3>3 DEF TypeOK
    <3>5. Open(inuse', disable', festate')
      BY <2>1, <3>1, <3>2, <3>4 DEF Open
    <3> QED
      BY <3>5 DEF Open, OpenExactly, OpenWhileInUse, ClosePending
  <2> QED
    BY <1>3, <2>2, <2>3 DEF TuneFails
<1>4. ASSUME NEW i \in StreamId \cup {NoId}, TunePVR(h, i)
      PROVE  OpenExactly'
  <2> DEFINE Gone == Dying(IF timer THEN CachedChannel ELSE {}, 1, {})
  <2>1. inuse' = InUseWithout(Gone) /\ disable' = DisableWithout(Gone) /\ festate' = festate
    BY <1>4 DEF TunePVR
  <2> QED
    BY <2>1, DestroyOpen
<1>5. CASE Retune(h)
  <2>1. Destroy(Dying(Dropped(want[h]), 1, {})) /\ festate' = festate
    BY <1>5 DEF Retune
  <2> QED
    BY <2>1, DestroyOpen DEF Destroy
<1>6. CASE Free(h)
  BY <1>6 DEF Free, feVars, OpenExactly, OpenWhileInUse, ClosePending
<1>7. CASE Drop(h)
  <2>1. Destroy(Dying(Live \cap {hconn[h]}, 0, {h})) /\ festate' = festate
    BY <1>7 DEF Drop
  <2> QED
    BY <2>1, DestroyOpen DEF Destroy
<1> QED
  BY <1>1, <1>2, <1>3, <1>4, <1>5, <1>6, <1>7

LEMMA ScanOpen ==
  ASSUME Ownership, OpenExactly, NEW r \in Scanner,
         ScanNext(r) \/ ScanEnd(r) \/ \E f \in Frontend : ScanStart(r, f)
  PROVE  OpenExactly'
<1>0. TypeOK
  BY DEF Ownership
<1>1. CASE ScanNext(r)
  <2> DEFINE f == chan[rchan[r]].fe
  <2>1. /\ rchan[r] \in Channel /\ festate' = [festate EXCEPT ![f] = "tuning"]
        /\ inuse' = inuse /\ disable' = disable
    BY <1>0, <1>1 DEF ScanNext, TypeOK
  <2>2. f \in Frontend => inuse[f] = 1
    BY <2>1 DEF Ownership, Owned
  <2> HIDE DEF f
  <2>3. \A g \in Frontend : festate'[g] = IF g = f THEN "tuning" ELSE festate[g]
    BY <1>0, <2>1 DEF TypeOK
  <2> QED
    BY <2>1, <2>2, <2>3 DEF OpenExactly, OpenWhileInUse, ClosePending
<1>2. CASE ScanEnd(r)
  <2>1. Destroy({rchan[r]}) /\ festate' = festate
    BY <1>2 DEF ScanEnd
  <2> QED
    BY <1>0, <2>1, DestroyOpen DEF Destroy
<1>3. ASSUME NEW f \in Frontend, ScanStart(r, f)
      PROVE  OpenExactly'
  <2> DEFINE Gone == Dying(CachedChannel, 1, {})
  <2>1. \/ InUseWithout(Gone)[f] = 0 /\ OpenAndTune(f, Gone)
        \/ inuse' = InUseWithout(Gone) /\ disable' = DisableWithout(Gone) /\ festate' = festate
    BY <1>3 DEF ScanStart
  <2> QED
    BY <1>0, <2>1, OpenAndTuneOpen, DestroyOpen
<1> QED
  BY <1>1, <1>2, <1>3

LEMMA FrontendOpen ==
  ASSUME TypeOK, OpenExactly, NEW f \in Frontend,
         Lock(f) \/ LoseLock(f) \/ TuneTimeout(f) \/ DisableTimeout(f)
  PROVE  OpenExactly'
<1>1. CASE Lock(f) \/ LoseLock(f) \/ TuneTimeout(f)
  <2>1. /\ inuse[f] > 0 /\ inuse' = inuse /\ disable' = disable
        /\ festate' = festate \/ \E st \in FeState \ {"closed"} : festate' = [festate EXCEPT ![f] = st]
    BY <1>1 DEF Lock, LoseLock, TuneTimeout, FrontendUnchanged, RetuneOr, FeState
  <2> QED
    BY <2>1 DEF OpenExactly, OpenWhileInUse, ClosePending, TypeOK
<1>2. CASE DisableTimeout(f)
  BY <1>2 DEF DisableTimeout, OpenExactly, OpenWhileInUse, ClosePending, TypeOK
<1> QED
  BY <1>1, <1>2

(* A tuner is open while it is in use, although the timer that closes it   *)
(* runs on after a new allocation; and a tuner that is open for nobody has *)
(* that timer running.                                                     *)
THEOREM TunersOpenExactly == Spec => []OpenExactly
<1> DEFINE Opened == Ownership /\ OpenExactly
<1>1. Init => Opened
  BY InitOwned DEF Init, OpenExactly, OpenWhileInUse, ClosePending
<1>2. Opened /\ [Next]_vars => Opened'
  <2> SUFFICES ASSUME Ownership, OpenExactly, [Next]_vars
               PROVE  Opened'
    OBVIOUS
  <2>1. TypeOK /\ Ownership'
    BY NextOwned DEF Ownership
  <2>2. CASE UNCHANGED vars
    BY <2>1, <2>2 DEF vars, feVars, OpenExactly, OpenWhileInUse, ClosePending
  <2>3. CASE ReleaseTimeout
    <3>1. Destroy(Dying(CachedChannel, 1, {})) /\ festate' = festate
      BY <2>3 DEF ReleaseTimeout
    <3> QED
      BY <2>1, <3>1, DestroyOpen DEF Destroy
  <2>4. CASE Next /\ ~ReleaseTimeout
    BY <2>1, <2>4, ServiceOpen, ScanOpen, FrontendOpen DEF Next
  <2> QED
    BY <2>1, <2>2, <2>3, <2>4
<1> QED
  BY <1>1, <1>2, PTL DEF Spec

-----------------------------------------------------------------------------
(***************************************************************************)
(* Who refers to which channel: the use counts, the plain pointers and the *)
(* lifetime of eDVBChannel objects, for any number of tuners,              *)
(* transponders, services, scans and channel objects.                      *)
(*                                                                         *)
(* An action of ResourceManager often first gives the cached channel up    *)
(* and then makes or shares another one.  The parts of the invariant       *)
(* therefore take the components of a state as parameters: they are        *)
(* established for what giving up the cache leaves (DropRefs), and from    *)
(* there for what the action makes of it.                                  *)
(***************************************************************************)

(* The inductive invariant.                                                *)

(* The clients whose pointer p leads to channel d.                         *)
Pointing(p, d) == {x \in DOMAIN p : p[x] = d}

(* What the cache, the PMT handlers and the scans hold of d.               *)
Uses(d, ca, hch, rch) ==
  (IF ca = d THEN 1 ELSE 0) + 2 * Cardinality(Pointing(hch, d)) + Cardinality(Pointing(rch, d))

Counted(ch, ca, hch, rch) == \A d \in Channel : ch[d].use = Uses(d, ca, hch, rch)

(* Nothing is left in the record of a destroyed channel.                   *)
Blank(ch) == \A d \in Channel : ~ch[d].live => ch[d] = Dead

(* Only tuner channels are cached.                                         *)
CacheSound(ch, ca) ==
  ca # NoChannel => ch[ca].live /\ ch[ca].id # NoId /\ ch[ca].fe # NoFrontend

(* Connections lead to living channels, and a PMT handler is connected to  *)
(* the channel it uses.                                                    *)
Linked(ch, cn, lst, hch, hcn) ==
  /\ cn # NoChannel => ch[cn].live
  /\ \A d \in lst : ch[d].live
  /\ \A h \in Handler : hcn[h] # NoChannel => ch[hcn[h]].live
  /\ \A h \in Handler : hch[h] # NoChannel => hcn[h] = hch[h]

(* A raw channel belongs to one scan, and to nobody else.                  *)
ScansApart(ch, cn, lst, hcn, rch) ==
  /\ \A r \in Scanner : rch[r] # NoChannel =>
       /\ ch[rch[r]].live /\ ch[rch[r]].id = NoId /\ ch[rch[r]].fe # NoFrontend
       /\ rch[r] # cn /\ rch[r] \notin lst
       /\ \A h \in Handler : hcn[h] # rch[r]
       /\ \A q \in Scanner : rch[q] = rch[r] => q = r
  /\ \A d \in Channel : ch[d].live /\ ch[d].id = NoId /\ ch[d].fe # NoFrontend =>
       \E r \in Scanner : rch[r] = d

Registered(ch, act) == act = {d \in Channel : ch[d].live /\ ch[d].id # NoId}

(* Unused channels that still live are in release, and somebody is still   *)
(* connected to them.                                                      *)
Leakless(ch, hcn) ==
  \A d \in Channel : ch[d].live /\ ch[d].use = 0 =>
    (\E h \in Handler : hcn[h] = d) /\ ch[d].state = "release"

Refs(ch, act, ca, cn, lst, hch, hcn, rch) ==
  /\ Counted(ch, ca, hch, rch)
  /\ Blank(ch)
  /\ CacheSound(ch, ca)
  /\ Linked(ch, cn, lst, hch, hcn)
  /\ ScansApart(ch, cn, lst, hcn, rch)
  /\ Registered(ch, act)
  /\ Leakless(ch, hcn)

References == Ownership /\ Refs(chan, active, cache, conn, listening, hchan, hconn, rchan)

-----------------------------------------------------------------------------
(* Counting the clients of a channel.                                      *)

LEMMA PointingFinite ==
  ASSUME NEW S, IsFiniteSet(S), NEW p \in [S -> Channel \cup {NoChannel}], NEW d
  PROVE  IsFiniteSet(Pointing(p, d)) /\ Cardinality(Pointing(p, d)) \in Nat
<1>1. Pointing(p, d) \subseteq S
  BY DEF Pointing
<1> QED
  BY <1>1, FS_Subset, FS_CardinalityType

(* Moving the pointer of x from b to c adds one to c and takes one from b. *)
LEMMA PointingMove ==
  ASSUME NEW S, IsFiniteSet(S), NEW p \in [S -> Channel \cup {NoChannel}],
         NEW q \in [S -> Channel \cup {NoChannel}],
         NEW x \in S, \A y \in S \ {x} : q[y] = p[y], p[x] # q[x], NEW d
  PROVE  Cardinality(Pointing(q, d)) =
           IF d = q[x] THEN Cardinality(Pointing(p, d)) + 1
           ELSE IF d = p[x] THEN Cardinality(Pointing(p, d)) - 1
           ELSE Cardinality(Pointing(p, d))
<1>1. IsFiniteSet(Pointing(p, d)) /\ Cardinality(Pointing(p, d)) \in Nat
  BY PointingFinite
<1>2. CASE d = q[x]
  <2>1. Pointing(q, d) = Pointing(p, d) \cup {x} /\ x \notin Pointing(p, d)
    BY <1>2 DEF Pointing
  <2> QED
    BY <1>1, <1>2, <2>1, FS_AddElement
<1>3. CASE d # q[x] /\ d = p[x]
  <2>1. Pointing(q, d) = Pointing(p, d) \ {x} /\ x \in Pointing(p, d)
    BY <1>3 DEF Pointing
  <2>2. Cardinality(Pointing(p, d) \ {x}) = Cardinality(Pointing(p, d)) - 1
    BY <1>1, <2>1, FS_RemoveElement
  <2> QED
    BY <1>3, <2>1, <2>2
<1>4. CASE d # q[x] /\ d # p[x]
  <2>1. Pointing(q, d) = Pointing(p, d)
    BY <1>4 DEF Pointing
  <2> QED
    BY <1>4, <2>1
<1> QED
  BY <1>2, <1>3, <1>4

(* Pointers of handlers and scans, as the lemmas below take them.          *)
HandlerPointers == [Handler -> Channel \cup {NoChannel}]
ScannerPointers == [Scanner -> Channel \cup {NoChannel}]

LEMMA UsesNat ==
  ASSUME NEW d, NEW ca, NEW hch \in HandlerPointers, NEW rch \in ScannerPointers
  PROVE  /\ Cardinality(Pointing(hch, d)) \in Nat
         /\ Cardinality(Pointing(rch, d)) \in Nat
         /\ Uses(d, ca, hch, rch) \in Nat
<1>1. Cardinality(Pointing(hch, d)) \in Nat /\ Cardinality(Pointing(rch, d)) \in Nat
  BY ConstantsAssumption, PointingFinite DEF HandlerPointers, ScannerPointers
<1> QED
  BY <1>1 DEF Uses

(* A channel that somebody points to counts him.                           *)
LEMMA PointingSome ==
  ASSUME NEW S, IsFiniteSet(S), NEW p \in [S -> Channel \cup {NoChannel}], NEW d
  PROVE  Cardinality(Pointing(p, d)) = 0 <=> \A x \in S : p[x] # d
<1>1. IsFiniteSet(Pointing(p, d))
  BY PointingFinite
<1>2. Cardinality(Pointing(p, d)) = 0 <=> Pointing(p, d) = {}
  BY <1>1, FS_EmptySet
<1> QED
  BY <1>2 DEF Pointing

LEMMA UsesSome ==
  ASSUME NEW d, NEW ca, NEW hch \in HandlerPointers, NEW rch \in ScannerPointers
  PROVE  /\ Uses(d, ca, hch, rch) = 0
              => ca # d /\ (\A h \in Handler : hch[h] # d) /\ (\A r \in Scanner : rch[r] # d)
         /\ ca # d /\ (\A h \in Handler : hch[h] # d) /\ (\A r \in Scanner : rch[r] # d)
              => Uses(d, ca, hch, rch) = 0
         /\ ca = d /\ Uses(d, ca, hch, rch) = 1
              => (\A h \in Handler : hch[h] # d) /\ (\A r \in Scanner : rch[r] # d)
         /\ \A h \in Handler : hch[h] = d => Uses(d, ca, hch, rch) >= 2
<1> DEFINE n == Cardinality(Pointing(hch, d))
           m == Cardinality(Pointing(rch, d))
<1>1. n \in Nat /\ m \in Nat
  BY UsesNat
<1>2. n = 0 <=> \A h \in Handler : hch[h] # d
  BY ConstantsAssumption, PointingSome DEF HandlerPointers
<1>3. m = 0 <=> \A r \in Scanner : rch[r] # d
  BY ConstantsAssumption, PointingSome DEF ScannerPointers
<1>4. Uses(d, ca, hch, rch) = (IF ca = d THEN 1 ELSE 0) + 2 * n + m
  BY DEF Uses
<1> HIDE DEF n, m
<1> QED
  BY <1>1, <1>2, <1>3, <1>4

(* A handler that had no channel gets c, or one that had c gives it up:    *)
(* its pointer and its scan are two uses.                                  *)
LEMMA UsesHandler ==
  ASSUME NEW ca, NEW hch \in HandlerPointers, NEW rch \in ScannerPointers,
         NEW hch2 \in HandlerPointers, NEW h \in Handler, \A y \in Handler \ {h} : hch2[y] = hch[y],
         NEW c \in Channel, NEW d \in Channel
  PROVE  /\ hch[h] = NoChannel /\ hch2[h] = c =>
              Uses(d, ca, hch2, rch) = Uses(d, ca, hch, rch) + IF d = c THEN 2 ELSE 0
         /\ hch[h] = c /\ hch2[h] = NoChannel =>
              Uses(d, ca, hch2, rch) = Uses(d, ca, hch, rch) - IF d = c THEN 2 ELSE 0
<1>0. IsFiniteSet(Handler) /\ NoChannel \notin Channel
  BY ConstantsAssumption
<1>1. Cardinality(Pointing(hch, d)) \in Nat /\ Cardinality(Pointing(rch, d)) \in Nat
  BY UsesNat
<1>2. hch[h] # hch2[h] =>
        Cardinality(Pointing(hch2, d)) =
          IF d = hch2[h] THEN Cardinality(Pointing(hch, d)) + 1
          ELSE IF d = hch[h] THEN Cardinality(Pointing(hch, d)) - 1
          ELSE Cardinality(Pointing(hch, d))
  BY <1>0, PointingMove DEF HandlerPointers
<1>3. hch[h] = NoChannel /\ hch2[h] = c =>
        Cardinality(Pointing(hch2, d)) = Cardinality(Pointing(hch, d)) + IF d = c THEN 1 ELSE 0
  BY <1>0, <1>1, <1>2
<1>4. hch[h] = c /\ hch2[h] = NoChannel =>
        Cardinality(Pointing(hch2, d)) = Cardinality(Pointing(hch, d)) - IF d = c THEN 1 ELSE 0
  BY <1>0, <1>1, <1>2
<1> QED
  BY <1>1, <1>3, <1>4 DEF Uses

(* A scan that had no channel gets c, or gives it up.                      *)
LEMMA UsesScanner ==
  ASSUME NEW ca, NEW hch \in HandlerPointers, NEW rch \in ScannerPointers,
         NEW rch2 \in ScannerPointers, NEW r \in Scanner, \A y \in Scanner \ {r} : rch2[y] = rch[y],
         NEW c \in Channel, NEW d \in Channel
  PROVE  /\ rch[r] = NoChannel /\ rch2[r] = c =>
              Uses(d, ca, hch, rch2) = Uses(d, ca, hch, rch) + IF d = c THEN 1 ELSE 0
         /\ rch[r] = c /\ rch2[r] = NoChannel =>
              Uses(d, ca, hch, rch2) = Uses(d, ca, hch, rch) - IF d = c THEN 1 ELSE 0
<1>0. IsFiniteSet(Scanner) /\ NoChannel \notin Channel
  BY ConstantsAssumption
<1>1. Cardinality(Pointing(hch, d)) \in Nat /\ Cardinality(Pointing(rch, d)) \in Nat
  BY UsesNat
<1>2. rch[r] # rch2[r] =>
        Cardinality(Pointing(rch2, d)) =
          IF d = rch2[r] THEN Cardinality(Pointing(rch, d)) + 1
          ELSE IF d = rch[r] THEN Cardinality(Pointing(rch, d)) - 1
          ELSE Cardinality(Pointing(rch, d))
  BY <1>0, PointingMove DEF ScannerPointers
<1>3. rch[r] = NoChannel /\ rch2[r] = c =>
        Cardinality(Pointing(rch2, d)) = Cardinality(Pointing(rch, d)) + IF d = c THEN 1 ELSE 0
  BY <1>0, <1>1, <1>2
<1>4. rch[r] = c /\ rch2[r] = NoChannel =>
        Cardinality(Pointing(rch2, d)) = Cardinality(Pointing(rch, d)) - IF d = c THEN 1 ELSE 0
  BY <1>0, <1>1, <1>2
<1> QED
  BY <1>1, <1>3, <1>4 DEF Uses

-----------------------------------------------------------------------------
(* Giving up the cached channel.                                           *)

LEMMA ReleaseFields ==
  ASSUME TypeOK, NEW c \in Channel, NEW n \in Int
  PROVE  /\ ReleaseUse(c, n).live = chan[c].live
         /\ ReleaseUse(c, n).id = chan[c].id
         /\ ReleaseUse(c, n).fe = chan[c].fe
         /\ ReleaseUse(c, n).use = chan[c].use - n
         /\ ReleaseUse(c, n).state = CASE chan[c].use - n = 0 -> "release"
                                       [] chan[c].use - n = 1 -> "last_instance"
                                       [] OTHER -> chan[c].state
BY DEF ReleaseUse, TypeOK, ChannelRecord

LEMMA AddFields ==
  ASSUME TypeOK, NEW c \in Channel, NEW n \in Int
  PROVE  /\ AddUse(c, n).live = chan[c].live
         /\ AddUse(c, n).id = chan[c].id
         /\ AddUse(c, n).fe = chan[c].fe
         /\ AddUse(c, n).use = chan[c].use + n
         /\ AddUse(c, n).state = IF chan[c].state = "last_instance" THEN "ok" ELSE chan[c].state
BY DEF AddUse, TypeOK, ChannelRecord

LEMMA PointerTypes ==
  ASSUME TypeOK
  PROVE  hchan \in HandlerPointers /\ rchan \in ScannerPointers
BY DEF TypeOK, HandlerPointers, ScannerPointers

(* What dies with the cache was used by nothing else.                      *)
LEMMA GoneUnused ==
  ASSUME References, NEW D \in SUBSET CachedChannel, NEW d \in Dying(D, 1, {})
  PROVE  /\ d \in Channel /\ d = cache /\ D = {cache} /\ chan[d].live
         /\ \A h \in Handler : hchan[h] # d /\ hconn[h] # d
         /\ \A r \in Scanner : rchan[r] # d
<1>1. d = cache /\ d \in D /\ chan[d].use = 1 /\ Connected(d) = {}
  BY DEF Dying, CachedChannel
<1>2. d \in Channel /\ D = {cache} /\ d # NoChannel
  BY <1>1 DEF CachedChannel, References, Ownership, TypeOK
<1>3. Uses(d, cache, hchan, rchan) = 1 /\ chan[d].live
  BY <1>1, <1>2 DEF References, Refs, Counted, CacheSound
<1>4. (\A h \in Handler : hchan[h] # d) /\ (\A r \in Scanner : rchan[r] # d)
  BY <1>1, <1>3, PointerTypes, UsesSome DEF References, Ownership
<1> QED
  BY <1>1, <1>2, <1>3, <1>4 DEF Connected

LEMMA DropRefs ==
  ASSUME References, NEW D \in SUBSET CachedChannel
  PROVE  Refs(ChanAfterDrop(D), active \ Dying(D, 1, {}), IF D = {} THEN cache ELSE NoChannel,
              ConnAfterDrop(D), ListeningAfterDrop(D), hchan, hconn, rchan)
<1> DEFINE Gone == Dying(D, 1, {})
           ch == ChanAfterDrop(D)
<1>0. /\ TypeOK /\ NoChannel \notin Channel
      /\ Refs(chan, active, cache, conn, listening, hchan, hconn, rchan)
  BY ConstantsAssumption DEF References, Ownership
<1>1. CASE D = {}
  <2>1. Gone = {}
    BY <1>1 DEF Dying
  <2>2. ch = chan
    BY <1>0, <1>1, <2>1 DEF ChanAfterDrop, TypeOK
  <2> QED
    BY <1>0, <1>1, <2>1, <2>2 DEF ConnAfterDrop, ListeningAfterDrop
<1>2. CASE D # {}
  <2>1. D = {cache} /\ cache \in Channel /\ cache # NoChannel
    BY <1>0, <1>2 DEF CachedChannel, TypeOK
  <2>2. \A d \in Channel : ch[d] = IF d \in Gone THEN Dead
                                   ELSE IF d = cache THEN ReleaseUse(d, 1) ELSE chan[d]
    BY <2>1 DEF ChanAfterDrop
  <2>3. \A d \in Gone : /\ d = cache
                        /\ \A h \in Handler : hchan[h] # d /\ hconn[h] # d
                        /\ \A r \in Scanner : rchan[r] # d
    BY GoneUnused
  <2>4. cache \in Gone <=> chan[cache].use = 1 /\ \A h \in Handler : hconn[h] # cache
    BY <2>1 DEF Dying, Connected
  <2>5. /\ ReleaseUse(cache, 1).live /\ ReleaseUse(cache, 1).id = chan[cache].id
        /\ ReleaseUse(cache, 1).fe = chan[cache].fe
        /\ ReleaseUse(cache, 1).use = chan[cache].use - 1
        /\ chan[cache].use = 1 => ReleaseUse(cache, 1).state = "release"
        /\ chan[cache].live /\ chan[cache].id # NoId /\ chan[cache].fe # NoFrontend
        /\ chan[cache].use \in Int
    BY <1>0, <2>1, ReleaseFields DEF Refs, CacheSound, TypeOK, ChannelRecord
  <2>6. /\ ConnAfterDrop(D) = NoChannel
        /\ ListeningAfterDrop(D) = listening \ ({conn} \cup Gone)
    BY <1>2 DEF ConnAfterDrop, ListeningAfterDrop
  <2>7. Gone \subseteq {cache}
    BY <2>3
  <2> HIDE DEF Gone, ch
  <2>8. /\ ~Dead.live /\ Dead.use = 0
        /\ \A d \in Channel : ch[d].live <=> chan[d].live /\ d \notin Gone
        /\ \A d \in Channel : d \notin Gone => ch[d].id = chan[d].id /\ ch[d].fe = chan[d].fe
    BY <2>2, <2>5 DEF Dead
  <2>9. Counted(ch, NoChannel, hchan, rchan)
    <3> SUFFICES ASSUME NEW d \in Channel
                 PROVE  ch[d].use = Uses(d, NoChannel, hchan, rchan)
      BY DEF Counted
    <3>1. /\ chan[d].use = Uses(d, cache, hchan, rchan)
          /\ Cardinality(Pointing(hchan, d)) \in Nat /\ Cardinality(Pointing(rchan, d)) \in Nat
      BY <1>0, PointerTypes, UsesNat DEF Refs, Counted
    <3>2. CASE d # cache
      BY <1>0, <2>2, <2>7, <3>1, <3>2 DEF Uses
    <3>3. CASE d = cache
      <4>1. Uses(d, NoChannel, hchan, rchan) = chan[d].use - 1
        BY <2>1, <3>1, <3>3 DEF Uses
      <4>2. ch[d].use = chan[d].use - 1
        BY <2>2, <2>4, <2>5, <2>8, <3>3
      <4> QED
        BY <4>1, <4>2
    <3> QED
      BY <3>2, <3>3
  <2>10. Blank(ch)
    BY <1>0, <2>2, <2>5, <2>8 DEF Refs, Blank
  <2>11. CacheSound(ch, NoChannel)
    BY DEF CacheSound
  <2>12. Linked(ch, NoChannel, listening \ ({conn} \cup Gone), hchan, hconn)
    BY <1>0, <2>3, <2>8 DEF Refs, Linked, TypeOK
  <2>13. ScansApart(ch, NoChannel, listening \ ({conn} \cup Gone), hconn, rchan)
    BY <1>0, <2>3, <2>8 DEF Refs, ScansApart, TypeOK
  <2>14. Registered(ch, active \ Gone)
    BY <1>0, <2>8 DEF Refs, Registered
  <2>15. Leakless(ch, hconn)
    BY <1>0, <2>1, <2>2, <2>4, <2>5, <2>8 DEF Refs, Leakless
  <2> QED
    BY <1>2, <2>6, <2>9, <2>10, <2>11, <2>12, <2>13, <2>14, <2>15 DEF Refs, ch, Gone
<1> QED
  BY <1>1, <1>2

-----------------------------------------------------------------------------
(* What the actions do to a state that satisfies Refs: it is the current   *)
(* one, or the one that giving up the cache leaves.                        *)

RefTypes(ch, ca, cn, lst, hch, hcn, rch) ==
  /\ ch \in [Channel -> ChannelRecord]
  /\ ca \in Channel \cup {NoChannel} /\ cn \in Channel \cup {NoChannel} /\ lst \subseteq Channel
  /\ hch \in HandlerPointers /\ hcn \in HandlerPointers /\ rch \in ScannerPointers

(* ch2 is ch with the record rec at c; q is p, but that x points to c.     *)
Replaced(ch, ch2, c, rec) == \A d \in Channel : ch2[d] = IF d = c THEN rec ELSE ch[d]
Moved(S, p, q, x, c) == \A y \in S : q[y] = IF y = x THEN c ELSE p[y]

(* Nobody refers to an address without channel.                            *)
LEMMA FreeAddress ==
  ASSUME NEW ch, NEW act, NEW ca, NEW cn, NEW lst, NEW hch, NEW hcn, NEW rch,
         RefTypes(ch, ca, cn, lst, hch, hcn, rch), Refs(ch, act, ca, cn, lst, hch, hcn, rch),
         NEW c \in Channel, ~ch[c].live
  PROVE  /\ c # ca /\ c # cn /\ c \notin lst /\ c \notin act
         /\ \A k \in Handler : hch[k] # c /\ hcn[k] # c
         /\ \A r \in Scanner : rch[r] # c
         /\ Uses(c, ca, hch, rch) = 0
<1>0. c # NoChannel
  BY ConstantsAssumption
<1>1. /\ c # ca /\ c # cn /\ c \notin lst /\ c \notin act
      /\ \A k \in Handler : hch[k] # c /\ hcn[k] # c
      /\ \A r \in Scanner : rch[r] # c
  BY <1>0 DEF Refs, CacheSound, Linked, ScansApart, Registered
<1> QED
  BY <1>1, UsesSome DEF RefTypes

(* A PMT handler gets a new channel, cached (with a tuner) or not.         *)
LEMMA AttachNewRefs ==
  ASSUME NEW ch, NEW act, NEW ca, NEW cn, NEW lst, NEW hch, NEW hcn, NEW rch,
         RefTypes(ch, ca, cn, lst, hch, hcn, rch), Refs(ch, act, ca, cn, lst, hch, hcn, rch),
         NEW c \in Channel, ~ch[c].live,
         NEW h \in Handler, hch[h] = NoChannel, hcn[h] = NoChannel,
         NEW rec \in ChannelRecord, rec.live,
         NEW ca2, NEW cn2, NEW lst2,
         \/ /\ ca2 = ca /\ cn2 = cn /\ lst2 = lst
            /\ rec.use = 2 /\ rec.fe = NoFrontend
         \/ /\ ca = NoChannel /\ ca2 = c /\ cn2 = c /\ lst2 = lst \cup {c}
            /\ rec.use = 3 /\ rec.fe # NoFrontend /\ rec.id # NoId,
         NEW ch2, Replaced(ch, ch2, c, rec),
         NEW hch2 \in HandlerPointers, Moved(Handler, hch, hch2, h, c),
         NEW hcn2 \in HandlerPointers, Moved(Handler, hcn, hcn2, h, c)
  PROVE  Refs(ch2, act \cup (IF rec.id = NoId THEN {} ELSE {c}), ca2, cn2, lst2, hch2, hcn2, rch)
<1> USE DEF Replaced, Moved
<1>0. NoChannel \notin Channel
  BY ConstantsAssumption
<1>1. /\ c # ca /\ c # cn /\ c \notin lst /\ c \notin act
      /\ \A k \in Handler : hch[k] # c /\ hcn[k] # c
      /\ \A r \in Scanner : rch[r] # c
      /\ Uses(c, ca, hch, rch) = 0
  BY FreeAddress
<1>2. Counted(ch2, ca2, hch2, rch)
  <2> SUFFICES ASSUME NEW d \in Channel
               PROVE  ch2[d].use = Uses(d, ca2, hch2, rch)
    BY DEF Counted
  <2>1. Uses(d, ca, hch2, rch) = Uses(d, ca, hch, rch) + IF d = c THEN 2 ELSE 0
    BY UsesHandler DEF RefTypes
  <2>2. Uses(d, ca, hch, rch) \in Nat /\ Cardinality(Pointing(hch2, d)) \in Nat
        /\ Cardinality(Pointing(rch, d)) \in Nat
    BY UsesNat DEF RefTypes
  <2>3. Uses(d, ca2, hch2, rch) = Uses(d, ca, hch2, rch) + IF ca2 # ca /\ d = c THEN 1 ELSE 0
    BY <1>0, <1>1, <2>2, ConstantsAssumption DEF Uses
  <2>4. ch2[d].use = IF d = c THEN rec.use ELSE Uses(d, ca, hch, rch)
    BY DEF Refs, Counted
  <2> QED
    BY <1>0, <1>1, <2>1, <2>2, <2>3, <2>4
<1>3. Blank(ch2)
  BY DEF Refs, Blank
<1>4. CacheSound(ch2, ca2)
  BY <1>1 DEF Refs, CacheSound, RefTypes
<1>5. Linked(ch2, cn2, lst2, hch2, hcn2)
  BY <1>0, <1>1 DEF Refs, Linked, RefTypes, HandlerPointers
<1>6. ScansApart(ch2, cn2, lst2, hcn2, rch)
  BY <1>0, <1>1 DEF Refs, ScansApart, RefTypes, HandlerPointers, ScannerPointers
<1>7. Registered(ch2, act \cup (IF rec.id = NoId THEN {} ELSE {c}))
  BY <1>1 DEF Refs, Registered
<1>8. Leakless(ch2, hcn2)
  BY <1>0 DEF Refs, Leakless
<1> QED
  BY <1>2, <1>3, <1>4, <1>5, <1>6, <1>7, <1>8 DEF Refs

(* A PMT handler gets a registered channel that lives already.             *)
LEMMA ShareRefs ==
  ASSUME NEW ch, NEW act, NEW ca, NEW cn, NEW lst, NEW hch, NEW hcn, NEW rch,
         RefTypes(ch, ca, cn, lst, hch, hcn, rch), Refs(ch, act, ca, cn, lst, hch, hcn, rch),
         NEW c \in Channel, ch[c].live, ch[c].id # NoId,
         NEW h \in Handler, hch[h] = NoChannel, hcn[h] = NoChannel,
         NEW rec, rec.live, rec.id = ch[c].id, rec.fe = ch[c].fe, rec.use = ch[c].use + 2,
         NEW ch2, Replaced(ch, ch2, c, rec),
         NEW hch2 \in HandlerPointers, Moved(Handler, hch, hch2, h, c),
         NEW hcn2 \in HandlerPointers, Moved(Handler, hcn, hcn2, h, c)
  PROVE  Refs(ch2, act, ca, cn, lst, hch2, hcn2, rch)
<1> USE DEF Replaced, Moved
<1>0. NoChannel \notin Channel
  BY ConstantsAssumption
<1>1. /\ \A d \in Channel : /\ ch2[d].live <=> ch[d].live
                              /\ ch2[d].id = ch[d].id /\ ch2[d].fe = ch[d].fe
      /\ \A r \in Scanner : rch[r] # c
  <2>1. \A r \in Scanner : rch[r] # c
    BY <1>0 DEF Refs, ScansApart
  <2> QED
    BY <2>1
<1>2. Counted(ch2, ca, hch2, rch)
  <2> SUFFICES ASSUME NEW d \in Channel
               PROVE  ch2[d].use = Uses(d, ca, hch2, rch)
    BY DEF Counted
  <2>1. Uses(d, ca, hch2, rch) = Uses(d, ca, hch, rch) + IF d = c THEN 2 ELSE 0
    BY UsesHandler DEF RefTypes
  <2>2. Uses(d, ca, hch, rch) \in Nat /\ ch[d].use = Uses(d, ca, hch, rch)
    BY UsesNat DEF RefTypes, Refs, Counted
  <2> QED
    BY <2>1, <2>2
<1>3. Blank(ch2)
  BY DEF Refs, Blank
<1>4. CacheSound(ch2, ca)
  BY <1>1 DEF Refs, CacheSound, RefTypes
<1>5. Linked(ch2, cn, lst, hch2, hcn2)
  BY <1>0, <1>1 DEF Refs, Linked, RefTypes, HandlerPointers
<1>6. ScansApart(ch2, cn, lst, hcn2, rch)
  BY <1>0, <1>1 DEF Refs, ScansApart, RefTypes, HandlerPointers, ScannerPointers
<1>7. Registered(ch2, act)
  BY <1>1 DEF Refs, Registered
<1>8. Leakless(ch2, hcn2)
  <2>1. ch[c].use \in Nat
    BY UsesNat DEF RefTypes, Refs, Counted
  <2> QED
    BY <1>0, <1>1, <2>1 DEF Refs, Leakless
<1> QED
  BY <1>2, <1>3, <1>4, <1>5, <1>6, <1>7, <1>8 DEF Refs

(* A scan gets a raw channel.                                              *)
LEMMA NewRawRefs ==
  ASSUME NEW ch, NEW act, NEW ca, NEW cn, NEW lst, NEW hch, NEW hcn, NEW rch,
         RefTypes(ch, ca, cn, lst, hch, hcn, rch), Refs(ch, act, ca, cn, lst, hch, hcn, rch),
         NEW c \in Channel, ~ch[c].live, NEW r \in Scanner, rch[r] = NoChannel,
         NEW rec, rec.live, rec.id = NoId, rec.fe # NoFrontend, rec.use = 1,
         NEW ch2, Replaced(ch, ch2, c, rec),
         NEW rch2 \in ScannerPointers, Moved(Scanner, rch, rch2, r, c)
  PROVE  Refs(ch2, act, ca, cn, lst, hch, hcn, rch2)
<1> USE DEF Replaced, Moved
<1>0. NoChannel \notin Channel
  BY ConstantsAssumption
<1>1. /\ c # ca /\ c # cn /\ c \notin lst /\ c \notin act
      /\ \A k \in Handler : hch[k] # c /\ hcn[k] # c
      /\ \A q \in Scanner : rch[q] # c
      /\ Uses(c, ca, hch, rch) = 0
  BY FreeAddress
<1>2. Counted(ch2, ca, hch, rch2)
  <2> SUFFICES ASSUME NEW d \in Channel
               PROVE  ch2[d].use = Uses(d, ca, hch, rch2)
    BY DEF Counted
  <2>1. Uses(d, ca, hch, rch2) = Uses(d, ca, hch, rch) + IF d = c THEN 1 ELSE 0
    BY UsesScanner DEF RefTypes
  <2>2. Uses(d, ca, hch, rch) \in Nat /\ ch[d].use = Uses(d, ca, hch, rch)
    BY UsesNat DEF RefTypes, Refs, Counted
  <2> QED
    BY <1>1, <2>1, <2>2
<1>3. Blank(ch2)
  BY DEF Refs, Blank
<1>4. CacheSound(ch2, ca)
  BY <1>1 DEF Refs, CacheSound, RefTypes
<1>5. Linked(ch2, cn, lst, hch, hcn)
  BY <1>0, <1>1 DEF Refs, Linked, RefTypes, HandlerPointers
<1>6. ScansApart(ch2, cn, lst, hcn, rch2)
  <2>1. ASSUME NEW q \in Scanner, rch2[q] # NoChannel
        PROVE  /\ ch2[rch2[q]].live /\ ch2[rch2[q]].id = NoId /\ ch2[rch2[q]].fe # NoFrontend
               /\ rch2[q] # cn /\ rch2[q] \notin lst
               /\ \A h \in Handler : hcn[h] # rch2[q]
               /\ \A p \in Scanner : rch2[p] = rch2[q] => p = q
    <3>1. CASE q = r
      BY <1>1, <3>1
    <3>2. CASE q # r
      BY <1>1, <2>1, <3>2 DEF Refs, ScansApart, RefTypes, ScannerPointers
    <3> QED
      BY <3>1, <3>2
  <2>2. ASSUME NEW d \in Channel, ch2[d].live, ch2[d].id = NoId, ch2[d].fe # NoFrontend
        PROVE  \E q \in Scanner : rch2[q] = d
    <3>1. CASE d = c
      BY <3>1
    <3>2. CASE d # c
      BY <1>0, <2>2, <3>2 DEF Refs, ScansApart
    <3> QED
      BY <3>1, <3>2
  <2> QED
    BY <2>1, <2>2 DEF ScansApart
<1>7. Registered(ch2, act)
  BY <1>1 DEF Refs, Registered
<1>8. Leakless(ch2, hcn)
  BY <1>0 DEF Refs, Leakless
<1> QED
  BY <1>2, <1>3, <1>4, <1>5, <1>6, <1>7, <1>8 DEF Refs

-----------------------------------------------------------------------------
(* Every action keeps the references sound.                                *)

LEMMA DropRefTypes ==
  ASSUME TypeOK, NEW D \in SUBSET CachedChannel
  PROVE  RefTypes(ChanAfterDrop(D), IF D = {} THEN cache ELSE NoChannel,
                  ConnAfterDrop(D), ListeningAfterDrop(D), hchan, hconn, rchan)
BY DropType DEF RefTypes, TypeOK, HandlerPointers, ScannerPointers

(* A channel that tuning to i finds is a living one of i, and giving up the *)
(* cache does not touch it.                                                *)
LEMMA SharableLive ==
  ASSUME References, NEW i \in ChannelId, NEW c \in Sharable(i, Dropped(i))
  PROVE  /\ c \in Channel /\ chan[c].live /\ chan[c].id = i
         /\ c \notin Dropped(i)
         /\ ChanAfterDrop(Dropped(i))[c] = chan[c]
<1> DEFINE D == Dropped(i)
<1>0. TypeOK /\ CacheSound(chan, cache) /\ Registered(chan, active)
  BY DEF References, Refs, Ownership
<1>1. /\ c \in Channel /\ chan[c].live /\ chan[c].id = i
      /\ c \notin D
  <2>1. CASE cache # NoChannel /\ D = {}
    <3>1. c = cache
      BY <2>1 DEF Sharable
    <3>2. chan[cache].id = i
      BY <2>1 DEF Dropped, CachedChannel
    <3> QED
      BY <1>0, <2>1, <3>1, <3>2 DEF CacheSound, TypeOK
  <2>2. CASE ~(cache # NoChannel /\ D = {})
    <3>1. c \in active /\ chan[c].id = i
      BY <2>2 DEF Sharable
    <3> QED
      BY <1>0, <3>1 DEF Registered, Dropped
  <2> QED
    BY <2>1, <2>2
<1>2. c \notin Dying(D, 1, {})
  BY <1>1 DEF Dying
<1> QED
  BY <1>1, <1>2 DEF ChanAfterDrop

LEMMA DroppedCached == \A i : Dropped(i) \in SUBSET CachedChannel
BY DEF Dropped

(* When tuning has to make a channel, or to give up, the cache is empty.   *)
LEMMA NothingSharable ==
  ASSUME NEW i, Sharable(i, Dropped(i)) = {}
  PROVE  (IF Dropped(i) = {} THEN cache ELSE NoChannel) = NoChannel
BY DEF Sharable

LEMMA TuneRefs ==
  ASSUME References, NEW h \in Handler, NEW i \in ChannelId,
         TuneShared(h, i) \/ TuneNew(h, i) \/ TuneFails(h, i), TypeOK'
  PROVE  Refs(chan, active, cache, conn, listening, hchan, hconn, rchan)'
<1> DEFINE D == Dropped(i)
           Gone == Dying(D, 1, {})
           ch == ChanAfterDrop(D)
           ca == IF D = {} THEN cache ELSE NoChannel
           cn == ConnAfterDrop(D)
           lst == ListeningAfterDrop(D)
<1>0. TypeOK
  BY DEF References, Ownership
<1>1. Refs(ch, active \ Gone, ca, cn, lst, hchan, hconn, rchan)
  BY DroppedCached, DropRefs
<1>2. RefTypes(ch, ca, cn, lst, hchan, hconn, rchan)
  BY <1>0, DroppedCached, DropRefTypes
<1>3. hchan' \in HandlerPointers /\ hconn' \in HandlerPointers
  BY DEF TypeOK, HandlerPointers
<1>4. Idle(h)
  BY DEF TuneShared, TuneNew, TuneFails
<1>5. CASE TuneShared(h, i)
  <2>1. PICK c \in Sharable(i, D) :
          /\ chan' = [ch EXCEPT ![c] = AddUse(c, 2)]
          /\ Attach(h, c, i, AddUse(c, 2).state)
          /\ cache' = ca /\ conn' = cn /\ listening' = lst
          /\ Destroy(Gone)
    BY <1>5 DEF TuneShared
  <2>2. c \in Channel /\ chan[c].live /\ chan[c].id = i /\ ch[c] = chan[c]
    BY SharableLive
  <2>3. /\ AddUse(c, 2).live /\ AddUse(c, 2).id = ch[c].id /\ AddUse(c, 2).fe = ch[c].fe
        /\ AddUse(c, 2).use = ch[c].use + 2
    BY <1>0, <2>2, AddFields
  <2>4. /\ Moved(Handler, hchan, hchan', h, c) /\ Moved(Handler, hconn, hconn', h, c)
        /\ rchan' = rchan
    BY <1>0, <2>1 DEF Attach, TypeOK, Moved
  <2>5. active' = active \ Gone
    BY <2>1 DEF Destroy
  <2>6. i # NoId
    BY ConstantsAssumption
  <2> HIDE DEF D, Gone, ch, ca, cn, lst
  <2>7. Replaced(ch, chan', c, AddUse(c, 2))
    BY <1>2, <2>1 DEF RefTypes, Replaced
  <2>8. hchan[h] = NoChannel /\ hconn[h] = NoChannel
    BY <1>4 DEF Idle
  <2> QED
    BY <1>1, <1>2, <1>3, <2>1, <2>2, <2>3, <2>4, <2>5, <2>6, <2>7, <2>8, ShareRefs
<1>6. CASE TuneNew(h, i)
  <2>1. PICK f \in Best(i, InUseWithout(Gone)), c \in Channel \ Live :
          /\ chan' = [ch EXCEPT ![c] =
                        [live |-> TRUE, id |-> i, fe |-> f, state |-> "tuning",
                         use |-> 3]]
          /\ active' = (active \ Gone) \cup {c}
          /\ cache' = c /\ conn' = c
          /\ listening' = lst \cup {c}
          /\ Attach(h, c, i, "tuning")
    BY <1>6 DEF TuneNew
  <2> DEFINE rec == [live |-> TRUE, id |-> i, fe |-> f, state |-> "tuning", use |-> 3]
  <2>2. f \in Frontend /\ f # NoFrontend /\ i # NoId
    BY ConstantsAssumption DEF Best, Candidates
  <2>3. rec \in ChannelRecord
    BY <2>2, NewChannelType DEF ChState
  <2>4. rec.live /\ rec.id = i /\ rec.fe = f /\ rec.use = 3
    OBVIOUS
  <2>5. ~ch[c].live
    BY <1>0, <2>1, DropOwned, CacheType DEF References
  <2>6. ca = NoChannel
    BY <1>6, NothingSharable DEF TuneNew
  <2>7. /\ Moved(Handler, hchan, hchan', h, c) /\ Moved(Handler, hconn, hconn', h, c)
        /\ rchan' = rchan
    BY <1>0, <2>1 DEF Attach, TypeOK, Moved
  <2>8. hchan[h] = NoChannel /\ hconn[h] = NoChannel
    BY <1>4 DEF Idle
  <2> HIDE DEF D, Gone, ch, ca, cn, lst, rec
  <2>9. Replaced(ch, chan', c, rec)
    BY <1>2, <2>1 DEF RefTypes, Replaced, rec
  <2>10. Refs(chan', (active \ Gone) \cup (IF rec.id = NoId THEN {} ELSE {c}), cache', conn',
              listening', hchan', hconn', rchan)
    BY <1>1, <1>2, <1>3, <2>1, <2>2, <2>3, <2>4, <2>5, <2>6, <2>7, <2>8, <2>9, AttachNewRefs
  <2> QED
    BY <2>1, <2>2, <2>4, <2>7, <2>10
<1>7. CASE TuneFails(h, i)
  <2>1. /\ chan' = ch /\ active' = active \ Gone /\ cache' = NoChannel
        /\ conn' = cn /\ listening' = lst
        /\ UNCHANGED <<hchan, hconn, rchan>>
    BY <1>7 DEF TuneFails
  <2>2. ca = NoChannel
    BY <1>7, NothingSharable DEF TuneFails
  <2> QED
    BY <1>1, <2>1, <2>2
<1> QED
  BY <1>5, <1>6, <1>7

(* free() takes the two uses of a handler away again.                      *)
LEMMA FreeRefs ==
  ASSUME References, NEW h \in Handler, Free(h), TypeOK'
  PROVE  Refs(chan, active, cache, conn, listening, hchan, hconn, rchan)'
<1> DEFINE c == hchan[h]
<1>0. TypeOK /\ NoChannel \notin Channel
      /\ Refs(chan, active, cache, conn, listening, hchan, hconn, rchan)
  BY ConstantsAssumption DEF References, Ownership
<1>1. c \in Channel /\ hconn[h] = c /\ chan[c].live
  BY <1>0 DEF Free, TypeOK, Refs, Linked
<1>2. /\ \A d \in Channel : chan'[d] = IF d = c THEN ReleaseUse(c, 2) ELSE chan[d]
      /\ \A k \in Handler : hchan'[k] = IF k = h THEN NoChannel ELSE hchan[k]
      /\ UNCHANGED <<active, cache, conn, listening, hconn, rchan>>
  BY <1>0 DEF Free, TypeOK
<1>3. /\ ReleaseUse(c, 2).live <=> chan[c].live
      /\ ReleaseUse(c, 2).id = chan[c].id /\ ReleaseUse(c, 2).fe = chan[c].fe
      /\ ReleaseUse(c, 2).use = chan[c].use - 2
      /\ chan[c].use - 2 = 0 => ReleaseUse(c, 2).state = "release"
  BY <1>0, <1>1, ReleaseFields
<1> HIDE DEF c
<1>4. Counted(chan', cache, hchan', rchan)
  <2> SUFFICES ASSUME NEW d \in Channel
               PROVE  chan'[d].use = Uses(d, cache, hchan', rchan)
    BY DEF Counted
  <2>1. chan[d].use = Uses(d, cache, hchan, rchan) /\ Uses(d, cache, hchan, rchan) \in Nat
    BY <1>0, PointerTypes, UsesNat DEF Refs, Counted
  <2>2. hchan' \in HandlerPointers /\ hchan \in HandlerPointers /\ rchan \in ScannerPointers
    BY <1>0, PointerTypes DEF TypeOK, HandlerPointers
  <2>3. /\ \A y \in Handler \ {h} : hchan'[y] = hchan[y]
        /\ hchan[h] = c /\ hchan'[h] = NoChannel
    BY <1>2 DEF c
  <2>4. Uses(d, cache, hchan', rchan) = Uses(d, cache, hchan, rchan) - IF d = c THEN 2 ELSE 0
    BY <1>1, <2>2, <2>3, UsesHandler
  <2>5. chan'[d].use = chan[d].use - IF d = c THEN 2 ELSE 0
    BY <1>2, <1>3, <2>1
  <2> QED
    BY <2>1, <2>4, <2>5
<1>5. \A d \in Channel : /\ chan'[d].live <=> chan[d].live
                         /\ chan'[d].id = chan[d].id /\ chan'[d].fe = chan[d].fe
  BY <1>2, <1>3
<1>6. Blank(chan')
  BY <1>0, <1>1, <1>2, <1>5 DEF Refs, Blank
<1>7. CacheSound(chan', cache)
  BY <1>0, <1>5 DEF Refs, CacheSound, TypeOK
<1>8. Linked(chan', conn, listening, hchan', hconn)
  BY <1>0, <1>2, <1>5 DEF Refs, Linked, TypeOK
<1>9. ScansApart(chan', conn, listening, hconn, rchan)
  BY <1>0, <1>5 DEF Refs, ScansApart, TypeOK
<1>10. Registered(chan', active)
  BY <1>0, <1>5 DEF Refs, Registered
<1>11. Leakless(chan', hconn)
  BY <1>0, <1>1, <1>2, <1>3, <1>5 DEF Refs, Leakless, c
<1> QED
  BY <1>2, <1>4, <1>6, <1>7, <1>8, <1>9, <1>10, <1>11 DEF Refs

(* The connection of a destroyed handler was the last hold on a channel    *)
(* that nobody uses: the channel dies with it, and no other one.           *)
LEMMA DropHandlerRefs ==
  ASSUME References, NEW h \in Handler, Drop(h)
  PROVE  Refs(chan, active, cache, conn, listening, hchan, hconn, rchan)'
<1> DEFINE Gone == Dying(Live \cap {hconn[h]}, 0, {h})
<1>0. TypeOK /\ NoChannel \notin Channel
      /\ Refs(chan, active, cache, conn, listening, hchan, hconn, rchan)
  BY ConstantsAssumption DEF References, Ownership
<1>1. \A d : d \in Gone <=> /\ d \in Channel /\ chan[d].live /\ d = hconn[h] /\ chan[d].use = 0
                            /\ \A k \in Handler : hconn[k] = d => k = h
  BY DEF Dying, Live, Connected
<1>2. \A d \in Gone : /\ cache # d
                      /\ \A k \in Handler : hchan[k] # d
                      /\ \A r \in Scanner : rchan[r] # d
  <2> SUFFICES ASSUME NEW d \in Gone
               PROVE  /\ cache # d
                      /\ \A k \in Handler : hchan[k] # d
                      /\ \A r \in Scanner : rchan[r] # d
    OBVIOUS
  <2>1. Uses(d, cache, hchan, rchan) = 0
    BY <1>0, <1>1 DEF Refs, Counted
  <2> QED
    BY <1>0, <2>1, PointerTypes, UsesSome
<1>3. /\ \A d \in Channel : chan'[d] = IF d \in Gone THEN Dead ELSE chan[d]
      /\ \A k \in Handler : hconn'[k] = IF k = h THEN NoChannel ELSE hconn[k]
      /\ listening' = listening \ Gone
      /\ conn' = IF conn \in Gone THEN NoChannel ELSE conn
      /\ active' = active \ Gone
      /\ UNCHANGED <<cache, hchan, rchan>> /\ hchan[h] = NoChannel
  BY <1>0 DEF Drop, Destroy, TypeOK
<1> HIDE DEF Gone
<1>4. /\ \A d \in Channel : chan'[d].live <=> chan[d].live /\ d \notin Gone
      /\ \A d \in Channel : d \notin Gone => chan'[d] = chan[d]
      /\ Dead.use = 0
  BY <1>3 DEF Dead
<1>5. Counted(chan', cache, hchan, rchan)
  BY <1>0, <1>1, <1>3, <1>4 DEF Refs, Counted
<1>6. Blank(chan')
  BY <1>0, <1>3, <1>4 DEF Refs, Blank
<1>7. CacheSound(chan', cache)
  BY <1>0, <1>2, <1>4 DEF Refs, CacheSound, TypeOK
<1>8. Linked(chan', conn', listening', hchan, hconn')
  BY <1>0, <1>1, <1>2, <1>3, <1>4 DEF Refs, Linked, TypeOK
<1>9. ScansApart(chan', conn', listening', hconn', rchan)
  BY <1>0, <1>2, <1>3, <1>4 DEF Refs, ScansApart, TypeOK
<1>10. Registered(chan', active')
  BY <1>0, <1>3, <1>4 DEF Refs, Registered
<1>11. Leakless(chan', hconn')
  BY <1>0, <1>1, <1>3, <1>4 DEF Refs, Leakless, TypeOK
<1> QED
  BY <1>3, <1>5, <1>6, <1>7, <1>8, <1>9, <1>10, <1>11 DEF Refs

LEMMA ServiceRefs ==
  ASSUME References, NEW h \in Handler, TypeOK',
         Retune(h) \/ Free(h) \/ Drop(h) \/ \E i \in StreamId \cup {NoId} : TunePVR(h, i)
  PROVE  Refs(chan, active, cache, conn, listening, hchan, hconn, rchan)'
<1>0. TypeOK
  BY DEF References, Ownership
<1>1. CASE Retune(h)
  <2> DEFINE D == Dropped(want[h])
  <2>1. /\ chan' = ChanAfterDrop(D) /\ cache' = IF D = {} THEN cache ELSE NoChannel
        /\ conn' = ConnAfterDrop(D) /\ listening' = ListeningAfterDrop(D)
        /\ active' = active \ Dying(D, 1, {})
        /\ UNCHANGED <<hchan, hconn, rchan>>
    BY <1>1 DEF Retune, Destroy
  <2> HIDE DEF D
  <2>2. D \in SUBSET CachedChannel
    BY DroppedCached DEF D
  <2> QED
    BY <2>1, <2>2, DropRefs
<1>2. CASE Free(h)
  BY <1>2, FreeRefs
<1>3. CASE Drop(h)
  BY <1>3, DropHandlerRefs
<1>4. ASSUME NEW i \in StreamId \cup {NoId}, TunePVR(h, i)
      PROVE  Refs(chan, active, cache, conn, listening, hchan, hconn, rchan)'
  <2> DEFINE D == IF timer THEN CachedChannel ELSE {}
             Gone == Dying(D, 1, {})
             ch == ChanAfterDrop(D)
             ca == IF D = {} THEN cache ELSE NoChannel
             cn == ConnAfterDrop(D)
             lst == ListeningAfterDrop(D)
  <2>1. D \in SUBSET CachedChannel /\ D \in SUBSET Channel
    BY <1>0, CacheType
  <2>2. /\ Refs(ch, active \ Gone, ca, cn, lst, hchan, hconn, rchan)
        /\ RefTypes(ch, ca, cn, lst, hchan, hconn, rchan)
    BY <1>0, <2>1, DropRefs, DropRefTypes
  <2>3. PICK c \in Channel \ Live, st \in {"ok", "idle"} :
          /\ chan' = [ch EXCEPT ![c] =
                        [live |-> TRUE, id |-> i, fe |-> NoFrontend, state |-> st,
                         use |-> 2]]
          /\ active' = (active \ Gone) \cup (IF i = NoId THEN {} ELSE {c})
          /\ Attach(h, c, NoId, st)
    BY <1>4 DEF TunePVR
  <2>4. cache' = ca /\ conn' = cn /\ listening' = lst
    BY <1>4 DEF TunePVR
  <2> DEFINE rec == [live |-> TRUE, id |-> i, fe |-> NoFrontend, state |-> st, use |-> 2]
  <2>5. rec \in ChannelRecord
    BY ConstantsAssumption, NewChannelType DEF ChState
  <2>6. rec.live /\ rec.id = i /\ rec.fe = NoFrontend /\ rec.use = 2
    OBVIOUS
  <2>7. ~ch[c].live
    BY <1>0, <2>1, DropOwned DEF References
  <2>8. /\ Moved(Handler, hchan, hchan', h, c) /\ Moved(Handler, hconn, hconn', h, c)
        /\ hchan' \in HandlerPointers /\ hconn' \in HandlerPointers
        /\ rchan' = rchan
    BY <1>0, <2>3 DEF Attach, TypeOK, Moved, HandlerPointers
  <2>9. hchan[h] = NoChannel /\ hconn[h] = NoChannel
    BY <1>4 DEF TunePVR, Idle
  <2> HIDE DEF D, Gone, ch, ca, cn, lst, rec
  <2>10. Replaced(ch, chan', c, rec)
    BY <2>2, <2>3 DEF RefTypes, Replaced, rec
  <2>11. Refs(chan', (active \ Gone) \cup (IF rec.id = NoId THEN {} ELSE {c}), ca, cn,
              lst, hchan', hconn', rchan)
    BY <2>2, <2>3, <2>5, <2>6, <2>7, <2>8, <2>9, <2>10, AttachNewRefs
  <2> QED
    BY <2>3, <2>4, <2>6, <2>8, <2>11
<1> QED
  BY <1>1, <1>2, <1>3, <1>4

(* The release timer gives the cache up like an allocation does, but keeps *)
(* the connection.                                                         *)
LEMMA ReleaseRefs ==
  ASSUME References, ReleaseTimeout
  PROVE  Refs(chan, active, cache, conn, listening, hchan, hconn, rchan)'
<1> DEFINE D == CachedChannel
           Gone == Dying(D, 1, {})
<1>0. TypeOK /\ NoChannel \notin Channel
      /\ Refs(chan, active, cache, conn, listening, hchan, hconn, rchan)
  BY ConstantsAssumption DEF References, Ownership
<1>1. /\ chan' = ChanAfterDrop(D) /\ active' = active \ Gone /\ cache' = NoChannel
      /\ listening' = listening \ Gone
      /\ conn' = IF conn \in Gone THEN NoChannel ELSE conn
      /\ UNCHANGED <<hchan, hconn, rchan>>
  BY <1>0 DEF ReleaseTimeout, Destroy, ChanAfterDrop, CachedChannel, TypeOK, clientVars
<1>2. /\ Refs(chan', active', IF D = {} THEN cache ELSE NoChannel,
              ConnAfterDrop(D), ListeningAfterDrop(D), hchan, hconn, rchan)
      /\ (IF D = {} THEN cache ELSE NoChannel) = NoChannel
  BY <1>1, DropRefs DEF CachedChannel
<1>3. Killed(chan', Gone)
  BY <1>0, <1>1, CacheType, DropKilled
<1>4. \A d \in Gone : /\ \A h \in Handler : hchan[h] # d /\ hconn[h] # d
                      /\ \A r \in Scanner : rchan[r] # d
  BY GoneUnused
<1> HIDE DEF D, Gone
<1>5. Linked(chan', conn', listening', hchan, hconn)
  BY <1>0, <1>1, <1>3, <1>4 DEF Refs, Linked, Killed, TypeOK
<1>6. ScansApart(chan', conn', listening', hconn, rchan)
  BY <1>0, <1>1, <1>2, <1>3, <1>4 DEF Refs, ScansApart, Killed, TypeOK
<1> QED
  BY <1>1, <1>2, <1>5, <1>6 DEF Refs

(* Steps that only change states of channels, and not those of channels    *)
(* nobody uses.                                                            *)
LEMMA StateRefs ==
  ASSUME References,
         \A d \in Channel :
           /\ chan'[d].live <=> chan[d].live
           /\ chan'[d].id = chan[d].id /\ chan'[d].fe = chan[d].fe
           /\ chan'[d].use = chan[d].use
           /\ ~chan[d].live \/ chan[d].use = 0 => chan'[d] = chan[d],
         UNCHANGED <<active, cache, conn, listening, hchan, hconn, rchan>>
  PROVE  Refs(chan, active, cache, conn, listening, hchan, hconn, rchan)'
<1>0. TypeOK /\ NoChannel \notin Channel
      /\ Refs(chan, active, cache, conn, listening, hchan, hconn, rchan)
  BY ConstantsAssumption DEF References, Ownership
<1>1. Counted(chan', cache, hchan, rchan)
  BY <1>0 DEF Refs, Counted
<1>2. Blank(chan')
  BY <1>0 DEF Refs, Blank
<1>3. CacheSound(chan', cache)
  BY <1>0 DEF Refs, CacheSound, TypeOK
<1>4. Linked(chan', conn, listening, hchan, hconn)
  BY <1>0 DEF Refs, Linked, TypeOK
<1>5. ScansApart(chan', conn, listening, hconn, rchan)
  BY <1>0 DEF Refs, ScansApart, TypeOK
<1>6. Registered(chan', active)
  BY <1>0 DEF Refs, Registered
<1>7. Leakless(chan', hconn)
  BY <1>0 DEF Refs, Leakless
<1> QED
  BY <1>1, <1>2, <1>3, <1>4, <1>5, <1>6, <1>7 DEF Refs

(* The channel of a scan is used by the scan.                              *)
LEMMA ScanUses ==
  ASSUME References, NEW r \in Scanner, rchan[r] # NoChannel
  PROVE  /\ rchan[r] \in Channel /\ chan[rchan[r]].live /\ chan[rchan[r]].use # 0
         /\ cache # rchan[r] /\ \A h \in Handler : hchan[h] # rchan[r]
<1>0. TypeOK /\ NoChannel \notin Channel
      /\ Refs(chan, active, cache, conn, listening, hchan, hconn, rchan)
  BY ConstantsAssumption DEF References, Ownership
<1>1. /\ rchan[r] \in Channel /\ chan[rchan[r]].live /\ chan[rchan[r]].id = NoId
      /\ \A h \in Handler : hconn[h] # rchan[r]
  BY <1>0 DEF Refs, ScansApart, TypeOK
<1>2. cache # rchan[r]
  BY <1>0, <1>1 DEF Refs, CacheSound
<1>3. \A h \in Handler : hchan[h] # rchan[r]
  BY <1>0, <1>1 DEF Refs, Linked
<1>4. chan[rchan[r]].use = Uses(rchan[r], cache, hchan, rchan)
  BY <1>0, <1>1 DEF Refs, Counted
<1>5. Uses(rchan[r], cache, hchan, rchan) # 0
  BY <1>0, PointerTypes, UsesSome
<1> QED
  BY <1>1, <1>2, <1>3, <1>4, <1>5

(* A scan and its raw channel end together.                                *)
LEMMA ScanEndRefs ==
  ASSUME References, NEW r \in Scanner, ScanEnd(r), TypeOK'
  PROVE  Refs(chan, active, cache, conn, listening, hchan, hconn, rchan)'
<1> DEFINE c == rchan[r]
<1>0. TypeOK /\ NoChannel \notin Channel
      /\ Refs(chan, active, cache, conn, listening, hchan, hconn, rchan)
  BY ConstantsAssumption DEF References, Ownership
<1>1. /\ c # NoChannel
      /\ \A d \in Channel : chan'[d] = IF d = c THEN Dead ELSE chan[d]
      /\ \A q \in Scanner : rchan'[q] = IF q = r THEN NoChannel ELSE rchan[q]
      /\ active' = active \ {c}
      /\ UNCHANGED <<cache, conn, listening, hchan, hconn>>
  BY <1>0 DEF ScanEnd, Destroy, TypeOK, cacheVars
<1>2. /\ c \in Channel /\ c # cache /\ c # conn /\ c \notin listening
      /\ \A h \in Handler : hchan[h] # c /\ hconn[h] # c
      /\ \A q \in Scanner : rchan[q] = c => q = r
  BY <1>0, <1>1, ScanUses DEF Refs, ScansApart
<1>3. Counted(chan', cache, hchan, rchan')
  <2> SUFFICES ASSUME NEW d \in Channel
               PROVE  chan'[d].use = Uses(d, cache, hchan, rchan')
    BY DEF Counted
  <2>1. hchan \in HandlerPointers /\ rchan \in ScannerPointers /\ rchan' \in ScannerPointers
    BY <1>0, PointerTypes DEF TypeOK, ScannerPointers
  <2>2. CASE d = c
    <3>1. \A q \in Scanner : rchan'[q] # c
      BY <1>1, <1>2
    <3>2. Uses(c, cache, hchan, rchan') = 0
      BY <1>2, <2>1, <3>1, UsesSome
    <3> QED
      BY <1>1, <2>2, <3>2 DEF Dead
  <2>3. CASE d # c
    <3>1. rchan[r] = c /\ rchan'[r] = NoChannel /\ \A y \in Scanner \ {r} : rchan'[y] = rchan[y]
      BY <1>1
    <3>2. Uses(d, cache, hchan, rchan') = Uses(d, cache, hchan, rchan) - IF d = c THEN 1 ELSE 0
      BY <1>2, <2>1, <3>1, UsesScanner
    <3>3. chan[d].use = Uses(d, cache, hchan, rchan) /\ Uses(d, cache, hchan, rchan) \in Nat
      BY <1>0, <2>1, UsesNat DEF Refs, Counted
    <3> QED
      BY <1>1, <2>3, <3>2, <3>3
  <2> QED
    BY <2>2, <2>3
<1> HIDE DEF c
<1>4. ~Dead.live
  BY DEF Dead
<1>5. Blank(chan')
  BY <1>0, <1>1 DEF Refs, Blank
<1>6. CacheSound(chan', cache)
  BY <1>0, <1>1, <1>2 DEF Refs, CacheSound, TypeOK
<1>7. Linked(chan', conn, listening, hchan, hconn)
  BY <1>0, <1>1, <1>2 DEF Refs, Linked, TypeOK
<1>8. ScansApart(chan', conn, listening, hconn, rchan')
  <2>1. ASSUME NEW q \in Scanner, rchan'[q] # NoChannel
        PROVE  /\ rchan'[q] = rchan[q] /\ rchan[q] # NoChannel /\ rchan[q] # c
               /\ chan'[rchan[q]] = chan[rchan[q]]
    BY <1>0, <1>1, <1>2, <2>1 DEF TypeOK
  <2>2. \A q, p \in Scanner : rchan'[q] # NoChannel /\ rchan'[p] = rchan'[q] => p = q
    BY <1>0, <1>1 DEF Refs, ScansApart
  <2>3. \A d \in Channel : chan'[d].live /\ chan'[d].id = NoId /\ chan'[d].fe # NoFrontend =>
          \E q \in Scanner : rchan'[q] = d
    BY <1>0, <1>1, <1>4 DEF Refs, ScansApart, c
  <2> QED
    BY <1>0, <2>1, <2>2, <2>3 DEF Refs, ScansApart
<1>9. Registered(chan', active')
  BY <1>0, <1>1, <1>4 DEF Refs, Registered
<1>10. Leakless(chan', hconn)
  BY <1>0, <1>1, <1>4 DEF Refs, Leakless
<1> QED
  BY <1>1, <1>3, <1>5, <1>6, <1>7, <1>8, <1>9, <1>10 DEF Refs

LEMMA ScanRefs ==
  ASSUME References, NEW r \in Scanner, TypeOK',
         ScanNext(r) \/ ScanEnd(r) \/ \E f \in Frontend : ScanStart(r, f)
  PROVE  Refs(chan, active, cache, conn, listening, hchan, hconn, rchan)'
<1>0. TypeOK
  BY DEF References, Ownership
<1>1. CASE ScanNext(r)
  <2>1. /\ rchan[r] # NoChannel /\ chan' = [chan EXCEPT ![rchan[r]].state = "tuning"]
        /\ UNCHANGED <<active, cache, conn, listening, hchan, hconn, rchan>>
    BY <1>1 DEF ScanNext, cacheVars, clientVars
  <2>2. rchan[r] \in Channel /\ chan[rchan[r]].live /\ chan[rchan[r]].use # 0
    BY <2>1, ScanUses
  <2>3. \A d \in Channel :
           /\ chan'[d].live <=> chan[d].live
           /\ chan'[d].id = chan[d].id /\ chan'[d].fe = chan[d].fe
           /\ chan'[d].use = chan[d].use
           /\ ~chan[d].live \/ chan[d].use = 0 => chan'[d] = chan[d]
    BY <1>0, <2>1, <2>2 DEF TypeOK, ChannelRecord
  <2> QED
    BY <2>1, <2>3, StateRefs
<1>2. CASE ScanEnd(r)
  BY <1>2, ScanEndRefs
<1>3. ASSUME NEW f \in Frontend, ScanStart(r, f)
      PROVE  Refs(chan, active, cache, conn, listening, hchan, hconn, rchan)'
  <2> DEFINE D == CachedChannel
             Gone == Dying(D, 1, {})
             ch == ChanAfterDrop(D)
             ca == IF D = {} THEN cache ELSE NoChannel
             cn == ConnAfterDrop(D)
             lst == ListeningAfterDrop(D)
  <2>1. /\ Refs(ch, active \ Gone, ca, cn, lst, hchan, hconn, rchan)
        /\ RefTypes(ch, ca, cn, lst, hchan, hconn, rchan)
    BY <1>0, DropRefs, DropRefTypes
  <2>2. ca = NoChannel
    BY DEF CachedChannel
  <2>3. /\ cache' = NoChannel /\ conn' = cn /\ listening' = lst
        /\ active' = active \ Gone /\ UNCHANGED <<hchan, hconn>>
        /\ rchan[r] = NoChannel
    BY <1>3 DEF ScanStart
  <2>4. CASE \E c \in Channel \ Live :
               /\ chan' = [ch EXCEPT ![c] =
                             [live |-> TRUE, id |-> NoId, fe |-> f, state |-> "last_instance",
                              use |-> 1]]
               /\ rchan' = [rchan EXCEPT ![r] = c]
    <3>1. PICK c \in Channel \ Live :
               /\ chan' = [ch EXCEPT ![c] =
                             [live |-> TRUE, id |-> NoId, fe |-> f, state |-> "last_instance",
                              use |-> 1]]
               /\ rchan' = [rchan EXCEPT ![r] = c]
      BY <2>4
    <3> DEFINE rec == [live |-> TRUE, id |-> NoId, fe |-> f, state |-> "last_instance", use |-> 1]
    <3>2. rec.live /\ rec.id = NoId /\ rec.fe # NoFrontend /\ rec.use = 1
      BY ConstantsAssumption
    <3>3. ~ch[c].live
      BY <1>0, <3>1, DropOwned, CacheType DEF References
    <3>4. Moved(Scanner, rchan, rchan', r, c) /\ rchan' \in ScannerPointers
      BY <1>0, <3>1 DEF TypeOK, Moved, ScannerPointers
    <3> HIDE DEF D, Gone, ch, ca, cn, lst, rec
    <3>5. Replaced(ch, chan', c, rec)
      BY <2>1, <3>1 DEF RefTypes, Replaced, rec
    <3>6. Refs(chan', active \ Gone, ca, cn, lst, hchan, hconn, rchan')
      BY <2>1, <2>3, <3>1, <3>2, <3>3, <3>4, <3>5, NewRawRefs
    <3> QED
      BY <2>2, <2>3, <3>6
  <2>5. CASE chan' = ch /\ rchan' = rchan
    BY <2>1, <2>2, <2>3, <2>5
  <2> QED
    BY <1>3, <2>4, <2>5 DEF ScanStart
<1> QED
  BY <1>1, <1>2, <1>3

(* A tuner in use has one channel, which the events of the tuner go to.    *)
LEMMA ChannelOfTuner ==
  ASSUME Ownership, NEW f \in Frontend, inuse[f] > 0
  PROVE  /\ ChannelOn(f) \in Channel /\ chan[ChannelOn(f)].live /\ chan[ChannelOn(f)].fe = f
         /\ \A d \in Channel : chan[d].live /\ chan[d].fe = f => d = ChannelOn(f)
<1>1. PICK c \in Live : ChannelsOn(f) = {c}
  BY OwnershipImplies DEF FrontendExclusive
<1>2. ChannelOn(f) = c
  BY <1>1 DEF ChannelOn, Live
<1> QED
  BY <1>1, <1>2 DEF ChannelsOn, Live

LEMMA FrontendRefs ==
  ASSUME References, NEW f \in Frontend,
         Lock(f) \/ LoseLock(f) \/ TuneTimeout(f) \/ DisableTimeout(f)
  PROVE  Refs(chan, active, cache, conn, listening, hchan, hconn, rchan)'
<1> DEFINE c == ChannelOn(f)
<1>0. TypeOK /\ Ownership
      /\ Refs(chan, active, cache, conn, listening, hchan, hconn, rchan)
  BY DEF References, Ownership
<1>1. UNCHANGED <<active, cache, conn, listening, hchan, hconn, rchan>>
  BY DEF Lock, LoseLock, TuneTimeout, DisableTimeout, FrontendUnchanged, cacheVars, clientVars
<1>2. \/ chan' = chan
      \/ inuse[f] > 0 /\ \E st : Signal(f, st)
      \/ inuse[f] > 0 /\ chan[c].id = NoId /\ chan' = [chan EXCEPT ![c].state = "tuning"]
  BY DEF Lock, LoseLock, TuneTimeout, DisableTimeout
<1>3. \/ chan' = chan
      \/ /\ c \in Channel /\ chan[c].live /\ chan[c].use # 0
         /\ \E st : chan' = [chan EXCEPT ![c].state = st]
  <2>1. CASE chan' = chan
    BY <2>1
  <2>2. ASSUME inuse[f] > 0, NEW st, Signal(f, st), chan' # chan
        PROVE  /\ c \in Channel /\ chan[c].live /\ chan[c].use # 0
               /\ chan' = [chan EXCEPT ![c].state = st]
    <3>1. c \in Channel /\ chan[c].live
      BY <1>0, <2>2, ChannelOfTuner
    <3>2. chan' = [chan EXCEPT ![c].state = st] /\ chan[c].state # "release"
      BY <2>2 DEF Signal
    <3> QED
      BY <1>0, <3>1, <3>2 DEF Refs, Leakless
  <2>3. CASE inuse[f] > 0 /\ chan[c].id = NoId /\ chan' = [chan EXCEPT ![c].state = "tuning"]
    <3>1. c \in Channel /\ chan[c].live /\ chan[c].fe = f
      BY <1>0, <2>3, ChannelOfTuner
    <3>2. f # NoFrontend /\ c # NoChannel
      BY <3>1, ConstantsAssumption
    <3>3. PICK r \in Scanner : rchan[r] = c
      BY <1>0, <2>3, <3>1, <3>2 DEF Refs, ScansApart
    <3>4. chan[c].use # 0
      BY <3>2, <3>3, ScanUses
    <3> QED
      BY <2>3, <3>1, <3>4
  <2> QED
    BY <1>2, <2>1, <2>2, <2>3
<1> HIDE DEF c
<1>4. \A d \in Channel :
         /\ chan'[d].live <=> chan[d].live
         /\ chan'[d].id = chan[d].id /\ chan'[d].fe = chan[d].fe
         /\ chan'[d].use = chan[d].use
         /\ ~chan[d].live \/ chan[d].use = 0 => chan'[d] = chan[d]
  BY <1>0, <1>3 DEF TypeOK, ChannelRecord
<1> QED
  BY <1>1, <1>4, StateRefs

-----------------------------------------------------------------------------
(* The invariant, and what follows from it.                                *)

LEMMA InitRefs == Init => References
<1> SUFFICES ASSUME Init PROVE References
  OBVIOUS
<1>0. Ownership /\ NoChannel \notin Channel
  BY InitOwned, ConstantsAssumption
<1>1. Counted(chan, cache, hchan, rchan)
  <2> SUFFICES ASSUME NEW d \in Channel
               PROVE  chan[d].use = Uses(d, cache, hchan, rchan)
    BY DEF Counted
  <2>1. cache # d /\ (\A h \in Handler : hchan[h] # d) /\ (\A r \in Scanner : rchan[r] # d)
    BY <1>0 DEF Init
  <2>2. Uses(d, cache, hchan, rchan) = 0
    BY <1>0, <2>1, PointerTypes, UsesSome DEF Ownership
  <2> QED
    BY <2>2 DEF Init, Dead
<1>2. Blank(chan)
  BY DEF Init, Blank
<1>3. CacheSound(chan, cache) /\ Linked(chan, conn, listening, hchan, hconn)
  BY DEF Init, CacheSound, Linked
<1>4. ScansApart(chan, conn, listening, hconn, rchan)
  BY DEF Init, ScansApart, Dead
<1>5. Registered(chan, active) /\ Leakless(chan, hconn)
  BY DEF Init, Registered, Leakless, Dead
<1> QED
  BY <1>0, <1>1, <1>2, <1>3, <1>4, <1>5 DEF References, Refs

LEMMA NextRefs == References /\ [Next]_vars => References'
<1> SUFFICES ASSUME References, [Next]_vars PROVE References'
  OBVIOUS
<1>1. Ownership' /\ TypeOK'
  BY NextOwned DEF References, Ownership
<1>2. CASE UNCHANGED vars
  <2>1. UNCHANGED <<chan, active, cache, conn, listening, hchan, hconn, rchan>>
    BY <1>2 DEF vars, feVars, cacheVars, clientVars
  <2> QED
    BY <1>1, <2>1 DEF References
<1>3. CASE Next
  <2>1. Refs(chan, active, cache, conn, listening, hchan, hconn, rchan)'
    BY <1>1, <1>3, TuneRefs, ServiceRefs, ReleaseRefs, ScanRefs, FrontendRefs DEF Next
  <2> QED
    BY <1>1, <2>1 DEF References
<1> QED
  BY <1>2, <1>3

LEMMA ReferencesAlways == Spec => []References
BY InitRefs, NextRefs, PTL DEF Spec

(* Every eUsePtr is counted once: the use count of a channel is what its   *)
(* clients hold, which canAllocateChannel's constants 3, 2 and 1 rely on.  *)
THEOREM UseCountsExact == Spec => []UseCountExact
<1>1. References => UseCountExact
  <2> SUFFICES ASSUME References, NEW c \in Live
               PROVE  chan[c].use = (IF cache = c THEN 1 ELSE 0)
                                    + 2 * Cardinality(Holders(c)) + Cardinality(Scanners(c))
    BY DEF UseCountExact
  <2>1. chan[c].use = Uses(c, cache, hchan, rchan)
    BY DEF References, Refs, Counted, Live
  <2>2. Holders(c) = Pointing(hchan, c) /\ Scanners(c) = Pointing(rchan, c)
    BY DEF Holders, Scanners, Pointing, References, Ownership, TypeOK
  <2> QED
    BY <2>1, <2>2 DEF Uses
<1> QED
  BY <1>1, ReferencesAlways, PTL

(* m_active_channels lists exactly the living channels that have an id,    *)
(* and no client, connection or cache points to a destroyed channel.       *)
THEOREM PointersAlwaysSound == Spec => []PointersSound
<1>1. References => PointersSound
  <2> SUFFICES ASSUME References PROVE PointersSound
    OBVIOUS
  <2>0. /\ TypeOK
        /\ Refs(chan, active, cache, conn, listening, hchan, hconn, rchan)
    BY DEF References, Ownership
  <2>1. ActiveSound
    BY <2>0 DEF ActiveSound, Refs, Registered, Live
  <2>2. {cache, conn} \ {NoChannel} \subseteq Live /\ listening \subseteq Live
    BY <2>0 DEF Refs, CacheSound, Linked, Live, TypeOK
  <2>3. ASSUME NEW h \in Handler
        PROVE  {hchan[h], hconn[h]} \ {NoChannel} \subseteq Live
    BY <2>0 DEF Refs, Linked, Live, TypeOK
  <2>4. ASSUME NEW r \in Scanner, rchan[r] # NoChannel
        PROVE  rchan[r] \in Live
    BY <2>0, <2>4 DEF Refs, ScansApart, Live, TypeOK
  <2> QED
    BY <2>1, <2>2, <2>3, <2>4 DEF PointersSound, NoDangling
<1> QED
  BY <1>1, ReferencesAlways, PTL

(* No channel, and no tuner with it, is leaked: one that nobody uses any   *)
(* more is in release, and lives only as long as the connection of a PMT   *)
(* handler to it.                                                          *)
THEOREM NothingLeaks == Spec => []NoLeak
<1>1. References => NoLeak
  BY DEF References, Refs, Leakless, NoLeak, Live, Connected
<1> QED
  BY <1>1, ReferencesAlways, PTL

-----------------------------------------------------------------------------
(* What a service holds is not taken from it.                              *)

(* ch has the channel c that is alive in chan, on the same tuner and       *)
(* transponder.                                                            *)
Kept(ch, c) == ch[c].live /\ ch[c].id = chan[c].id /\ ch[c].fe = chan[c].fe

LEMMA DropKeeps ==
  ASSUME References, NEW D \in SUBSET CachedChannel, NEW h \in Handler, hchan[h] # NoChannel
  PROVE  /\ hchan[h] \in Channel /\ chan[hchan[h]].live
         /\ hchan[h] \notin Dying(D, 1, {})
         /\ Kept(ChanAfterDrop(D), hchan[h])
<1>0. TypeOK /\ Linked(chan, conn, listening, hchan, hconn)
  BY DEF References, Refs, Ownership
<1>1. hchan[h] \in Channel /\ chan[hchan[h]].live
  BY <1>0 DEF Linked, TypeOK
<1>2. hchan[h] \notin Dying(D, 1, {})
  BY GoneUnused
<1> QED
  BY <1>0, <1>1, <1>2, ReleaseFields DEF Kept, ChanAfterDrop

(* The pointer and the scan of a handler are two uses.                     *)
LEMMA HeldUse ==
  ASSUME References, NEW h \in Handler, hchan[h] # NoChannel
  PROVE  chan[hchan[h]].use >= 2
<1>0. /\ TypeOK /\ NoChannel \notin Channel
      /\ Refs(chan, active, cache, conn, listening, hchan, hconn, rchan)
  BY ConstantsAssumption DEF References, Ownership
<1>1. hchan[h] \in Channel
  BY <1>0 DEF TypeOK
<1>2. chan[hchan[h]].use = Uses(hchan[h], cache, hchan, rchan)
  BY <1>0, <1>1 DEF Refs, Counted
<1>3. Uses(hchan[h], cache, hchan, rchan) >= 2
  BY <1>0, PointerTypes, UsesSome
<1> QED
  BY <1>2, <1>3

LEMMA NextKeeps ==
  ASSUME References, Next, NEW h \in Handler, hchan[h] # NoChannel
  PROVE  Kept(chan', hchan[h])
<1> DEFINE c == hchan[h]
<1>0. /\ TypeOK /\ c \in Channel /\ chan[c].live /\ NoChannel \notin Channel
      /\ Refs(chan, active, cache, conn, listening, hchan, hconn, rchan)
  BY DropKeeps, ConstantsAssumption DEF References, Ownership
<1>1. \A D \in SUBSET CachedChannel : Kept(ChanAfterDrop(D), c) /\ c \notin Dying(D, 1, {})
  BY DropKeeps
<1>2. \A D : ChanAfterDrop(D) \in [Channel -> ChannelRecord]
  BY <1>0, DropType
<1> HIDE DEF c
(* A channel that is made gets an address of its own.                      *)
<1>3. ASSUME NEW D \in SUBSET CachedChannel, NEW d \in Channel \ Live, NEW rec,
             chan' = [ChanAfterDrop(D) EXCEPT ![d] = rec]
      PROVE  Kept(chan', c)
  BY <1>0, <1>1, <1>2, <1>3 DEF Kept, Live
<1>4. ASSUME NEW D \in SUBSET CachedChannel, chan' = ChanAfterDrop(D)
      PROVE  Kept(chan', c)
  BY <1>1, <1>4 DEF Kept
<1>5. ASSUME NEW k \in Handler, NEW i \in ChannelId, TuneShared(k, i)
      PROVE  Kept(chan', c)
  <2>1. PICK d \in Sharable(i, Dropped(i)) :
          chan' = [ChanAfterDrop(Dropped(i)) EXCEPT ![d] = AddUse(d, 2)]
    BY <1>5 DEF TuneShared
  <2>2. /\ d \in Channel /\ chan[d].live
        /\ AddUse(d, 2).live = chan[d].live /\ AddUse(d, 2).id = chan[d].id
        /\ AddUse(d, 2).fe = chan[d].fe
    BY <1>0, SharableLive, AddFields
  <2>3. Kept(ChanAfterDrop(Dropped(i)), c) /\ ChanAfterDrop(Dropped(i)) \in [Channel -> ChannelRecord]
    BY <1>1, <1>2, DroppedCached
  <2> QED
    BY <1>0, <2>1, <2>2, <2>3 DEF Kept
<1>6. ASSUME NEW k \in Handler, NEW i \in ChannelId, TuneNew(k, i) \/ TuneFails(k, i)
      PROVE  Kept(chan', c)
  BY <1>3, <1>4, <1>6, DroppedCached DEF TuneNew, TuneFails
<1>7. ASSUME NEW k \in Handler, NEW i \in StreamId \cup {NoId}, TunePVR(k, i)
      PROVE  Kept(chan', c)
  <2> DEFINE D == IF timer THEN CachedChannel ELSE {}
  <2>1. \E d \in Channel \ Live, st \in {"ok", "idle"} :
          chan' = [ChanAfterDrop(D) EXCEPT ![d] =
                     [live |-> TRUE, id |-> i, fe |-> NoFrontend, state |-> st, use |-> 2]]
    BY <1>7 DEF TunePVR
  <2>2. D \in SUBSET CachedChannel
    OBVIOUS
  <2> HIDE DEF D
  <2> QED
    BY <1>3, <2>1, <2>2
<1>8. ASSUME NEW k \in Handler, Retune(k)
      PROVE  Kept(chan', c)
  BY <1>4, <1>8, DroppedCached DEF Retune
<1>9. ASSUME NEW k \in Handler, Free(k)
      PROVE  Kept(chan', c)
  <2>1. hchan[k] \in Channel /\ chan' = [chan EXCEPT ![hchan[k]] = ReleaseUse(hchan[k], 2)]
    BY <1>0, <1>9 DEF Free, TypeOK
  <2> QED
    BY <1>0, <2>1, ReleaseFields DEF Kept, TypeOK
<1>10. ASSUME NEW k \in Handler, Drop(k)
       PROVE  Kept(chan', c)
  <2>1. chan[c].use # 0
    BY <1>0, HeldUse DEF c
  <2>2. c \notin Dying(Live \cap {hconn[k]}, 0, {k})
    BY <2>1 DEF Dying
  <2>3. chan'[c] = chan[c]
    BY <1>0, <1>10, <2>2 DEF Drop
  <2> QED
    BY <1>0, <2>3 DEF Kept
<1>11. ASSUME ReleaseTimeout
       PROVE  Kept(chan', c)
  <2>1. chan' = ChanAfterDrop(CachedChannel)
    BY <1>0, <1>11 DEF ReleaseTimeout, ChanAfterDrop, CachedChannel, TypeOK
  <2> QED
    BY <1>4, <2>1
<1>12. ASSUME NEW r \in Scanner, NEW f \in Frontend, ScanStart(r, f)
       PROVE  Kept(chan', c)
  <2>1. \/ chan' = ChanAfterDrop(CachedChannel)
        \/ \E d \in Channel \ Live :
             chan' = [ChanAfterDrop(CachedChannel) EXCEPT ![d] =
                        [live |-> TRUE, id |-> NoId, fe |-> f, state |-> "last_instance",
                         use |-> 1]]
    BY <1>12 DEF ScanStart
  <2> QED
    BY <1>3, <1>4, <2>1
<1>13. ASSUME NEW r \in Scanner, ScanEnd(r)
       PROVE  Kept(chan', c)
  <2>1. c # rchan[r]
    BY <1>13, ScanUses DEF ScanEnd, c
  <2> QED
    BY <1>0, <1>13, <2>1 DEF ScanEnd, Kept
<1>14. ASSUME NEW r \in Scanner, ScanNext(r)
       PROVE  Kept(chan', c)
  BY <1>0, <1>14 DEF ScanNext, Kept, TypeOK, ChannelRecord
<1>15. ASSUME NEW f \in Frontend, Lock(f) \/ LoseLock(f) \/ TuneTimeout(f) \/ DisableTimeout(f)
       PROVE  Kept(chan', c)
  <2>1. chan' = chan \/ \E d, st : chan' = [chan EXCEPT ![d].state = st]
    BY <1>15 DEF Lock, LoseLock, TuneTimeout, DisableTimeout, Signal
  <2> QED
    BY <1>0, <2>1 DEF Kept, TypeOK, ChannelRecord
<1> QED
  BY <1>5, <1>6, <1>7, <1>8, <1>9, <1>10, <1>11, <1>12, <1>13, <1>14, <1>15 DEF Next, c

(* While a service keeps its channel, no other service, no scan, no cache  *)
(* decision and no timeout takes its tuner or its transponder away.        *)
THEOREM NobodyLosesItsTuner == Spec => NoStealing
<1>1. References /\ [Next]_vars =>
        [\A h \in Handler : hchan[h] # NoChannel /\ hchan'[h] = hchan[h] =>
           LET c == hchan[h] IN
           chan'[c].live /\ chan'[c].id = chan[c].id /\ chan'[c].fe = chan[c].fe]_vars
  BY NextKeeps DEF Kept
<1> QED
  BY <1>1, ReferencesAlways, PTL DEF Spec, NoStealing

-----------------------------------------------------------------------------
(* Sharing.  OneTunerPerId is inductive on top of References; that a       *)
(* handler finds its channel again needs to know what it was handed: a     *)
(* channel of its transponder, on a tuner if there was one.                *)

Tuned(ch, d, i) == ch[d].live /\ ch[d].id = i /\ ch[d].fe # NoFrontend

OneTuner(ch) ==
  \A i \in ChannelId : \A c, d \in Channel : Tuned(ch, c, i) /\ Tuned(ch, d, i) => c = d

Wanted(ch, hch, wnt) ==
  \A h \in Handler : hch[h] # NoChannel /\ wnt[h] # NoId =>
    /\ ch[hch[h]].id = wnt[h]
    /\ ch[hch[h]].fe = NoFrontend => \A d \in Channel : ~Tuned(ch, d, wnt[h])

Sharing == References /\ OneTuner(chan) /\ Wanted(chan, hchan, want)

(* Only TuneNew makes a channel with both a tuner and an id.               *)
LEMMA NextTuned ==
  ASSUME References, Next, \A h \in Handler, i \in ChannelId : ~TuneNew(h, i),
         NEW d \in Channel, NEW i \in ChannelId, Tuned(chan', d, i)
  PROVE  Tuned(chan, d, i)
<1>0. /\ TypeOK /\ NoChannel \notin Channel /\ i # NoId
      /\ Refs(chan, active, cache, conn, listening, hchan, hconn, rchan)
  BY ConstantsAssumption DEF References, Ownership
<1>1. \A D \in SUBSET CachedChannel : Killed(ChanAfterDrop(D), Dying(D, 1, {}))
  BY <1>0, CacheType, DropKilled
<1>2. \A D : ChanAfterDrop(D) \in [Channel -> ChannelRecord]
  BY <1>0, DropType
<1>3. \A D \in SUBSET CachedChannel : Tuned(ChanAfterDrop(D), d, i) => Tuned(chan, d, i)
  <2> SUFFICES ASSUME NEW D \in SUBSET CachedChannel, Tuned(ChanAfterDrop(D), d, i)
               PROVE  Tuned(chan, d, i)
    OBVIOUS
  <2>1. d \notin Dying(D, 1, {})
    BY <1>1 DEF Killed, Tuned, Dead
  <2>2. ChanAfterDrop(D)[d] = chan[d] \/ ChanAfterDrop(D)[d] = ReleaseUse(d, 1)
    BY <2>1 DEF ChanAfterDrop
  <2> QED
    BY <1>0, <2>2, ReleaseFields DEF Tuned
<1>4. ASSUME NEW D \in SUBSET CachedChannel, chan' = ChanAfterDrop(D)
      PROVE  Tuned(chan, d, i)
  BY <1>3, <1>4 DEF Tuned
<1>5. ASSUME NEW D \in SUBSET CachedChannel, NEW c \in Channel, NEW rec,
             chan' = [ChanAfterDrop(D) EXCEPT ![c] = rec], rec.id = NoId \/ rec.fe = NoFrontend
      PROVE  Tuned(chan, d, i)
  BY <1>0, <1>2, <1>3, <1>5 DEF Tuned
<1>6. ASSUME NEW k \in Handler, NEW j \in ChannelId, TuneShared(k, j)
      PROVE  Tuned(chan, d, i)
  <2>1. PICK c \in Sharable(j, Dropped(j)) :
          chan' = [ChanAfterDrop(Dropped(j)) EXCEPT ![c] = AddUse(c, 2)]
    BY <1>6 DEF TuneShared
  <2>2. /\ c \in Channel
        /\ AddUse(c, 2).live = chan[c].live /\ AddUse(c, 2).id = chan[c].id
        /\ AddUse(c, 2).fe = chan[c].fe
    BY <1>0, SharableLive, AddFields
  <2>3. Dropped(j) \in SUBSET CachedChannel
    BY DroppedCached
  <2> QED
    BY <1>2, <1>3, <2>1, <2>2, <2>3 DEF Tuned
<1>7. ASSUME NEW k \in Handler, NEW j \in ChannelId, TuneFails(k, j)
      PROVE  Tuned(chan, d, i)
  BY <1>4, <1>7, DroppedCached DEF TuneFails
<1>8. ASSUME NEW k \in Handler, NEW j \in StreamId \cup {NoId}, TunePVR(k, j)
      PROVE  Tuned(chan, d, i)
  <2> DEFINE D == IF timer THEN CachedChannel ELSE {}
  <2>1. PICK c \in Channel \ Live, st \in {"ok", "idle"} :
          chan' = [ChanAfterDrop(D) EXCEPT ![c] =
                     [live |-> TRUE, id |-> j, fe |-> NoFrontend, state |-> st, use |-> 2]]
    BY <1>8 DEF TunePVR
  <2>2. D \in SUBSET CachedChannel
    OBVIOUS
  <2> HIDE DEF D
  <2> QED
    BY <1>5, <2>1, <2>2
<1>9. ASSUME NEW k \in Handler, Retune(k)
      PROVE  Tuned(chan, d, i)
  BY <1>4, <1>9, DroppedCached DEF Retune
<1>10. ASSUME NEW k \in Handler, Free(k)
       PROVE  Tuned(chan, d, i)
  <2>1. hchan[k] \in Channel /\ chan' = [chan EXCEPT ![hchan[k]] = ReleaseUse(hchan[k], 2)]
    BY <1>0, <1>10 DEF Free, TypeOK
  <2>2. /\ ReleaseUse(hchan[k], 2).live = chan[hchan[k]].live
        /\ ReleaseUse(hchan[k], 2).id = chan[hchan[k]].id
        /\ ReleaseUse(hchan[k], 2).fe = chan[hchan[k]].fe
    BY <1>0, <2>1, ReleaseFields
  <2> QED
    BY <1>0, <2>1, <2>2 DEF Tuned, TypeOK
<1>11. ASSUME NEW k \in Handler, Drop(k)
       PROVE  Tuned(chan, d, i)
  BY <1>11 DEF Drop, Tuned, Dead
<1>12. ASSUME ReleaseTimeout
       PROVE  Tuned(chan, d, i)
  <2>1. chan' = ChanAfterDrop(CachedChannel)
    BY <1>0, <1>12 DEF ReleaseTimeout, ChanAfterDrop, CachedChannel, TypeOK
  <2> QED
    BY <1>4, <2>1
<1>13. ASSUME NEW r \in Scanner, NEW f \in Frontend, ScanStart(r, f)
       PROVE  Tuned(chan, d, i)
  <2>1. \/ chan' = ChanAfterDrop(CachedChannel)
        \/ \E c \in Channel \ Live :
             chan' = [ChanAfterDrop(CachedChannel) EXCEPT ![c] =
                        [live |-> TRUE, id |-> NoId, fe |-> f, state |-> "last_instance",
                         use |-> 1]]
    BY <1>13 DEF ScanStart
  <2> QED
    BY <1>4, <1>5, <2>1
<1>14. ASSUME NEW r \in Scanner, ScanEnd(r)
       PROVE  Tuned(chan, d, i)
  BY <1>14 DEF ScanEnd, Tuned, Dead
<1>15. ASSUME NEW r \in Scanner, ScanNext(r)
       PROVE  Tuned(chan, d, i)
  BY <1>0, <1>15 DEF ScanNext, Tuned, TypeOK, ChannelRecord
<1>16. ASSUME NEW f \in Frontend, Lock(f) \/ LoseLock(f) \/ TuneTimeout(f) \/ DisableTimeout(f)
       PROVE  Tuned(chan, d, i)
  <2>1. chan' = chan \/ \E c, st : chan' = [chan EXCEPT ![c].state = st]
    BY <1>16 DEF Lock, LoseLock, TuneTimeout, DisableTimeout, Signal
  <2> QED
    BY <1>0, <2>1 DEF Tuned, TypeOK, ChannelRecord
<1> QED
  BY <1>6, <1>7, <1>8, <1>9, <1>10, <1>11, <1>12, <1>13, <1>14, <1>15, <1>16 DEF Next

(* Whom a step hands a channel, and which.                                 *)
LEMMA NextWants ==
  ASSUME TypeOK, Next, NEW h \in Handler, hchan'[h] # NoChannel, want'[h] # NoId
  PROVE  \/ hchan'[h] = hchan[h] /\ want'[h] = want[h]
         \/ \E i \in ChannelId : /\ TuneShared(h, i)
                                 /\ want'[h] = i /\ hchan'[h] \in Sharable(i, Dropped(i))
         \/ \E i \in ChannelId : TuneNew(h, i) /\ want'[h] = i
<1>1. ASSUME NEW k \in Handler, NEW i \in ChannelId, TuneShared(k, i)
      PROVE  \/ hchan'[h] = hchan[h] /\ want'[h] = want[h]
             \/ /\ TuneShared(h, i)
                /\ want'[h] = i /\ hchan'[h] \in Sharable(i, Dropped(i))
  <2>1. PICK c \in Sharable(i, Dropped(i)) :
          hchan' = [hchan EXCEPT ![k] = c] /\ want' = [want EXCEPT ![k] = i]
    BY <1>1 DEF TuneShared, Attach
  <2> QED
    BY <1>1, <2>1 DEF TypeOK
<1>2. ASSUME NEW k \in Handler, NEW i \in ChannelId, TuneNew(k, i)
      PROVE  \/ hchan'[h] = hchan[h] /\ want'[h] = want[h]
             \/ TuneNew(h, i) /\ want'[h] = i
  <2>1. PICK c \in Channel : hchan' = [hchan EXCEPT ![k] = c] /\ want' = [want EXCEPT ![k] = i]
    BY <1>2 DEF TuneNew, Attach
  <2> QED
    BY <1>2, <2>1 DEF TypeOK
<1>3. ASSUME NEW k \in Handler, NEW i \in StreamId \cup {NoId}, TunePVR(k, i)
      PROVE  hchan'[h] = hchan[h] /\ want'[h] = want[h]
  <2>1. PICK c \in Channel : hchan' = [hchan EXCEPT ![k] = c] /\ want' = [want EXCEPT ![k] = NoId]
    BY <1>3 DEF TunePVR, Attach
  <2> QED
    BY <2>1 DEF TypeOK
<1>4. ASSUME NEW k \in Handler, Free(k)
      PROVE  hchan'[h] = hchan[h] /\ want'[h] = want[h]
  BY <1>4 DEF Free, TypeOK
<1>5. \/ \E k \in Handler, i \in ChannelId : TuneShared(k, i) \/ TuneNew(k, i)
      \/ \E k \in Handler, i \in StreamId \cup {NoId} : TunePVR(k, i)
      \/ \E k \in Handler : Free(k)
      \/ hchan' = hchan /\ want' = want
  BY DEF Next, TuneFails, Retune, Drop, ReleaseTimeout, ScanStart, ScanNext, ScanEnd,
         Lock, LoseLock, TuneTimeout, DisableTimeout, FrontendUnchanged, clientVars
<1> QED
  BY <1>1, <1>2, <1>3, <1>4, <1>5

(* TuneNew makes the only tuner channel of its transponder.                *)
LEMMA TuneNewAlone ==
  ASSUME References, NEW h \in Handler, NEW i \in ChannelId, TuneNew(h, i)
  PROVE  \E c \in Channel :
           /\ ~chan[c].live /\ Tuned(chan', c, i) /\ hchan' = [hchan EXCEPT ![h] = c]
           /\ \A d \in Channel \ {c} : ~chan'[d].live \/ chan'[d].id # i
           /\ \A d \in Channel \ {c}, j \in ChannelId : Tuned(chan', d, j) => Tuned(chan, d, j)
<1> DEFINE D == Dropped(i)
           Gone == Dying(D, 1, {})
           ch == ChanAfterDrop(D)
<1>0. TypeOK /\ i # NoId /\ Refs(chan, active, cache, conn, listening, hchan, hconn, rchan)
  BY ConstantsAssumption DEF References, Ownership
<1>1. PICK f \in Best(i, InUseWithout(Gone)), c \in Channel \ Live :
          /\ chan' = [ch EXCEPT ![c] =
                        [live |-> TRUE, id |-> i, fe |-> f, state |-> "tuning",
                         use |-> 3]]
          /\ hchan' = [hchan EXCEPT ![h] = c]
  BY DEF TuneNew, Attach
<1>2. f # NoFrontend
  BY ConstantsAssumption DEF Best, Candidates
<1>3. ch \in [Channel -> ChannelRecord] /\ Killed(ch, Gone)
  BY <1>0, DropType, DropKilled, CacheType
<1>4. \A d \in Channel : ch[d].live => d \notin Gone /\ chan[d].live /\ ch[d].id = chan[d].id
                                       /\ ch[d].fe = chan[d].fe
  <2> SUFFICES ASSUME NEW d \in Channel, ch[d].live
               PROVE  d \notin Gone /\ chan[d].live /\ ch[d].id = chan[d].id
                      /\ ch[d].fe = chan[d].fe
    OBVIOUS
  <2>1. d \notin Gone
    BY <1>3 DEF Killed, Dead
  <2>2. ch[d] = chan[d] \/ ch[d] = ReleaseUse(d, 1)
    BY <2>1 DEF ChanAfterDrop
  <2> QED
    BY <1>0, <2>1, <2>2, ReleaseFields
<1>5. \A d \in Channel : ch[d].live => ch[d].id # i
  <2>1. Sharable(i, D) = {}
    BY DEF TuneNew
  <2>2. {d \in active \ Gone : chan[d].id = i} = {}
    BY <2>1 DEF Sharable
  <2> HIDE DEF D, Gone, ch
  <2> QED
    BY <1>0, <1>4, <2>2 DEF Refs, Registered
<1> HIDE DEF D, Gone, ch
<1>6. /\ chan'[c].live /\ chan'[c].id = i /\ chan'[c].fe = f
      /\ \A d \in Channel \ {c} : chan'[d] = ch[d]
  BY <1>1, <1>3
<1>7. ~chan[c].live /\ Tuned(chan', c, i)
  BY <1>2, <1>6 DEF Live, Tuned
<1>8. \A d \in Channel \ {c} : ~chan'[d].live \/ chan'[d].id # i
  BY <1>5, <1>6
<1>9. \A d \in Channel \ {c}, j \in ChannelId : Tuned(chan', d, j) => Tuned(chan, d, j)
  BY <1>4, <1>6 DEF Tuned
<1> QED
  BY <1>1, <1>7, <1>8, <1>9

LEMMA NextSharing == Sharing /\ [Next]_vars => Sharing'
<1> SUFFICES ASSUME Sharing, [Next]_vars PROVE Sharing'
  OBVIOUS
<1>0. /\ References /\ References' /\ TypeOK /\ TypeOK'
      /\ Refs(chan, active, cache, conn, listening, hchan, hconn, rchan)
      /\ NoChannel \notin Channel /\ NoId \notin ChannelId
  BY NextRefs, ConstantsAssumption DEF Sharing, References, Ownership
<1>1. CASE UNCHANGED vars
  BY <1>0, <1>1 DEF vars, feVars, clientVars, Sharing, OneTuner, Wanted, Tuned
<1>2. CASE Next /\ ~\E h \in Handler, i \in ChannelId : TuneNew(h, i)
  <2>1. \A d \in Channel, i \in ChannelId : Tuned(chan', d, i) => Tuned(chan, d, i)
    BY <1>0, <1>2, NextTuned
  <2>2. OneTuner(chan')
    BY <2>1 DEF Sharing, OneTuner
  <2>3. ASSUME NEW h \in Handler, hchan'[h] # NoChannel, want'[h] # NoId
        PROVE  /\ chan'[hchan'[h]].id = want'[h]
               /\ chan'[hchan'[h]].fe = NoFrontend => \A d \in Channel : ~Tuned(chan', d, want'[h])
    <3>0. want'[h] \in ChannelId
      BY <1>0, <2>3 DEF TypeOK
    <3>1. CASE hchan'[h] = hchan[h] /\ want'[h] = want[h]
      <4>1. Kept(chan', hchan[h])
        BY <1>0, <1>2, <2>3, <3>1, NextKeeps
      <4> QED
        BY <2>1, <2>3, <3>0, <3>1, <4>1 DEF Sharing, Wanted, Kept
    <3>2. ASSUME NEW i \in ChannelId, TuneShared(h, i), want'[h] = i,
                 hchan'[h] \in Sharable(i, Dropped(i))
          PROVE  /\ chan'[hchan'[h]].id = want'[h]
                 /\ chan'[hchan'[h]].fe = NoFrontend =>
                      \A d \in Channel : ~Tuned(chan', d, want'[h])
      <4> DEFINE c == hchan'[h]
                 Gone == Dying(Dropped(i), 1, {})
      <4>1. /\ c \in Channel /\ chan[c].live /\ chan[c].id = i
            /\ ChanAfterDrop(Dropped(i))[c] = chan[c]
        BY <1>0, <3>2, SharableLive
      <4>2. PICK e \in Sharable(i, Dropped(i)) :
              /\ chan' = [ChanAfterDrop(Dropped(i)) EXCEPT ![e] = AddUse(e, 2)]
              /\ hchan' = [hchan EXCEPT ![h] = e]
              /\ active' = active \ Gone
        BY <3>2 DEF TuneShared, Attach, Destroy
      <4>3. e = c
        BY <1>0, <4>2 DEF TypeOK
      <4>4. chan'[c].id = i /\ chan'[c].fe = chan[c].fe
        BY <1>0, <4>1, <4>2, <4>3, AddFields, DropType
      <4>5. ASSUME chan[c].fe = NoFrontend, NEW d \in Channel, Tuned(chan', d, i)
            PROVE  FALSE
        <5>1. Tuned(chan, d, i)
          BY <2>1, <4>5
        <5>2. d \in active \ Gone
          BY <1>0, <4>2, <4>5 DEF Tuned, References, Refs, Registered
        <5>3. ~(cache # NoChannel /\ Dropped(i) = {})
          BY <1>0, <3>2, <4>5 DEF Sharable, Refs, CacheSound
        <5>4. c \notin {b \in {a \in active \ Gone : chan[a].id = i} : chan[b].fe # NoFrontend}
          BY <4>5
        <5>5. {b \in {a \in active \ Gone : chan[a].id = i} : chan[b].fe # NoFrontend} = {}
          BY <3>2, <5>3, <5>4 DEF Sharable
        <5> QED
          BY <5>1, <5>2, <5>5 DEF Tuned
      <4> QED
        BY <3>2, <4>4, <4>5
    <3> QED
      BY <1>0, <1>2, <2>3, <3>1, <3>2, NextWants
  <2> QED
    BY <1>0, <2>2, <2>3 DEF Sharing, Wanted
<1>3. ASSUME NEW h \in Handler, NEW i \in ChannelId, TuneNew(h, i)
      PROVE  Sharing'
  <2>0. Next
    BY <1>3 DEF Next
  <2>1. PICK c \in Channel :
           /\ ~chan[c].live /\ Tuned(chan', c, i) /\ hchan' = [hchan EXCEPT ![h] = c]
           /\ \A d \in Channel \ {c} : ~chan'[d].live \/ chan'[d].id # i
           /\ \A d \in Channel \ {c}, j \in ChannelId : Tuned(chan', d, j) => Tuned(chan, d, j)
    BY <1>0, <1>3, TuneNewAlone
  <2>2. want' = [want EXCEPT ![h] = i]
    BY <1>3 DEF TuneNew, Attach
  <2>3. OneTuner(chan')
    BY <2>1 DEF Sharing, OneTuner, Tuned
  <2>4. ASSUME NEW k \in Handler, hchan'[k] # NoChannel, want'[k] # NoId
        PROVE  /\ chan'[hchan'[k]].id = want'[k]
               /\ chan'[hchan'[k]].fe = NoFrontend => \A d \in Channel : ~Tuned(chan', d, want'[k])
    <3>1. CASE k = h
      BY <1>0, <2>1, <2>2, <3>1 DEF Tuned, TypeOK
    <3>2. CASE k # h
      <4>1. hchan'[k] = hchan[k] /\ want'[k] = want[k] /\ want[k] \in ChannelId
        BY <1>0, <2>1, <2>2, <2>4, <3>2 DEF TypeOK
      <4>2. Kept(chan', hchan[k]) /\ hchan[k] \in Channel /\ chan[hchan[k]].live
        BY <1>0, <2>0, <2>4, <4>1, NextKeeps DEF Refs, Linked, TypeOK
      <4>3. /\ chan[hchan[k]].id = want[k]
            /\ chan[hchan[k]].fe = NoFrontend => \A d \in Channel : ~Tuned(chan, d, want[k])
        BY <2>4, <4>1 DEF Sharing, Wanted
      <4>4. want[k] # i
        BY <2>1, <4>2, <4>3 DEF Kept
      <4> QED
        BY <2>1, <4>1, <4>2, <4>3, <4>4 DEF Kept, Tuned
    <3> QED
      BY <3>1, <3>2
  <2> QED
    BY <1>0, <2>3, <2>4 DEF Sharing, Wanted
<1> QED
  BY <1>1, <1>2, <1>3

LEMMA SharingAlways == Spec => []Sharing
<1>1. Init => Sharing
  BY InitRefs DEF Init, Sharing, OneTuner, Wanted, Tuned, Dead
<1> QED
  BY <1>1, NextSharing, PTL DEF Spec

(* A transponder never occupies two tuners: tuning to it shares.           *)
THEOREM OneTunerForEachId == Spec => []OneTunerPerId
<1>1. Sharing => OneTunerPerId
  <2> SUFFICES ASSUME Sharing, NEW c \in Live, NEW d \in Live,
                      Managed(c), Managed(d), chan[c].id = chan[d].id
               PROVE  c = d
    BY DEF OneTunerPerId
  <2>1. chan[c].id \in ChannelId
    BY DEF Managed, Live, Sharing, References, Ownership, TypeOK, ChannelRecord
  <2> QED
    BY <2>1 DEF Sharing, OneTuner, Tuned, Managed, Live
<1> QED
  BY <1>1, SharingAlways, PTL

(* A handler that is started again (the way back from timeshift) is handed *)
(* the channel it never gave up, whatever has been cached, shared, dropped *)
(* or streamed meanwhile.                                                  *)
THEOREM RetuneAlwaysFinds == Spec => []RetuneFindsItsChannel
<1>1. Sharing => RetuneFindsItsChannel
  <2> SUFFICES ASSUME Sharing, NEW h \in Handler, want[h] # NoId, hchan[h] # NoChannel
               PROVE  hchan[h] \in Sharable(want[h], Dropped(want[h]))
    BY DEF RetuneFindsItsChannel
  <2> DEFINE i == want[h]
             c == hchan[h]
             D == Dropped(i)
             registered == {d \in active \ Dying(D, 1, {}) : chan[d].id = i}
  <2>0. /\ References /\ TypeOK /\ i \in ChannelId
        /\ Refs(chan, active, cache, conn, listening, hchan, hconn, rchan)
    BY DEF Sharing, References, Ownership, TypeOK
  <2>1. c \in Channel /\ chan[c].live /\ c \notin Dying(D, 1, {})
    BY <2>0, DroppedCached, DropKeeps
  <2>2. /\ chan[c].id = i
        /\ chan[c].fe = NoFrontend => \A d \in Channel : ~Tuned(chan, d, i)
    BY DEF Sharing, Wanted
  <2>3. CASE cache # NoChannel /\ D = {}
    <3>1. cache \in Channel /\ Tuned(chan, cache, i)
      BY <2>0, <2>3 DEF Dropped, CachedChannel, Refs, CacheSound, Tuned, TypeOK
    <3>2. Tuned(chan, c, i)
      BY <2>1, <2>2, <3>1 DEF Tuned
    <3>3. c = cache
      BY <2>0, <2>1, <3>1, <3>2 DEF Sharing, OneTuner
    <3> QED
      BY <2>3, <3>3 DEF Sharable
  <2>4. CASE ~(cache # NoChannel /\ D = {})
    <3>1. c \in registered
      BY <2>0, <2>1, <2>2, ConstantsAssumption DEF Refs, Registered
    <3>2. ASSUME NEW d \in registered, chan[d].fe # NoFrontend
          PROVE  chan[c].fe # NoFrontend
      BY <2>0, <2>2, <3>2 DEF Refs, Registered, Tuned
    <3> DEFINE tuned == {d \in registered : chan[d].fe # NoFrontend}
    <3>3. c \in IF tuned # {} THEN tuned ELSE registered
      BY <3>1, <3>2
    <3>4. Sharable(i, D) = IF tuned # {} THEN tuned ELSE registered
      BY <2>4 DEF Sharable
    <3> QED
      BY <3>3, <3>4
  <2> QED
    BY <2>3, <2>4
<1> QED
  BY <1>1, SharingAlways, PTL

-----------------------------------------------------------------------------
(* What the clients were told.                                             *)

Heard(ch, hch, ev) ==
  \A h \in Handler : hch[h] # NoChannel =>
    /\ ch[hch[h]].state = "ok" => ev[h] = "tuned"
    /\ ch[hch[h]].state = "failed" => ev[h] = "tuneFailed"

Sole(ch) == \A d \in Channel : ch[d].live /\ ch[d].state = "last_instance" => ch[d].use = 1

Told == References /\ Heard(chan, hchan, evt) /\ Sole(chan)

LEMMA ToldIs ==
  ASSUME TypeOK
  PROVE  (EventMatches <=> Heard(chan, hchan, evt)) /\ (LastInstanceIsSole <=> Sole(chan))
BY DEF EventMatches, Heard, LastInstanceIsSole, Sole, Live

(* Releasing uses never makes a channel "ok" or "failed", and announces    *)
(* last_instance for the last use only.                                    *)
LEMMA ReleaseTells ==
  ASSUME Told, NEW d \in Channel, NEW n \in {1, 2}, chan[d].live, chan[d].use >= n
  PROVE  /\ ReleaseUse(d, n).state \in {"ok", "failed"} => ReleaseUse(d, n).state = chan[d].state
         /\ ReleaseUse(d, n).state = "last_instance" => ReleaseUse(d, n).use = 1
<1>1. TypeOK /\ chan[d].use \in Int
  BY DEF Told, References, Ownership, TypeOK, ChannelRecord
<1>2. n \in Int
  OBVIOUS
<1>3. /\ ReleaseUse(d, n).use = chan[d].use - n
      /\ ReleaseUse(d, n).state = CASE chan[d].use - n = 0 -> "release"
                                    [] chan[d].use - n = 1 -> "last_instance"
                                    [] OTHER -> chan[d].state
  BY <1>1, <1>2, ReleaseFields
<1>4. chan[d].state = "last_instance" => chan[d].use = 1
  BY DEF Told, Sole
<1> QED
  BY <1>1, <1>3, <1>4

LEMMA DropTold ==
  ASSUME Told, NEW D \in SUBSET CachedChannel
  PROVE  Heard(ChanAfterDrop(D), hchan, evt) /\ Sole(ChanAfterDrop(D))
<1> DEFINE ch == ChanAfterDrop(D)
<1>0. TypeOK /\ References /\ CacheSound(chan, cache) /\ Counted(chan, cache, hchan, rchan)
  BY DEF Told, References, Refs, Ownership
<1>1. ASSUME NEW d \in D
      PROVE  d \in Channel /\ chan[d].live /\ chan[d].use >= 1
  <2>1. d = cache /\ d \in Channel /\ d # NoChannel
    BY <1>0 DEF CachedChannel, TypeOK
  <2>2. chan[d].use = Uses(d, cache, hchan, rchan) /\ chan[d].live
    BY <1>0, <2>1 DEF Counted, CacheSound
  <2>3. Uses(d, cache, hchan, rchan) \in Nat /\ Uses(d, cache, hchan, rchan) # 0
    BY <1>0, <2>1, PointerTypes, UsesNat, UsesSome
  <2> QED
    BY <2>1, <2>2, <2>3
<1>2. ASSUME NEW d \in Channel
      PROVE  \/ ch[d] = Dead \/ ch[d] = chan[d]
             \/ d \in D /\ ch[d] = ReleaseUse(d, 1)
  BY DEF ChanAfterDrop
<1>3. \A d \in Channel :
        /\ ch[d].state \in {"ok", "failed"} => ch[d].state = chan[d].state
        /\ ch[d].live /\ ch[d].state = "last_instance" => ch[d].use = 1
  <2> SUFFICES ASSUME NEW d \in Channel
               PROVE  /\ ch[d].state \in {"ok", "failed"} => ch[d].state = chan[d].state
                      /\ ch[d].live /\ ch[d].state = "last_instance" => ch[d].use = 1
    OBVIOUS
  <2>1. CASE ch[d] = Dead
    BY <2>1 DEF Dead
  <2>2. CASE ch[d] = chan[d]
    BY <2>2 DEF Told, Sole
  <2>3. CASE d \in D /\ ch[d] = ReleaseUse(d, 1)
    BY <1>1, <2>3, ReleaseTells
  <2> QED
    BY <1>2, <2>1, <2>2, <2>3
<1>4. \A h \in Handler : hchan[h] # NoChannel => hchan[h] \in Channel
  BY <1>0 DEF TypeOK
<1> HIDE DEF ch
<1>5. Heard(ch, hchan, evt) /\ Sole(ch)
  BY <1>3, <1>4 DEF Told, Heard, Sole
<1> QED
  BY <1>5 DEF ch

(* A handler that is attached hears the state of its channel; those that   *)
(* have the channel already must not be concerned.                         *)
LEMMA AttachTold ==
  ASSUME NEW ch, NEW hch \in HandlerPointers, NEW ev, Heard(ch, hch, ev), Sole(ch),
         NEW c \in Channel, NEW h \in Handler,
         NEW rec, rec.state = "last_instance" => rec.use = 1,
         \A k \in Handler : hch[k] = c => rec.state = ch[c].state,
         NEW ch2, Replaced(ch, ch2, c, rec), NEW hch2, Moved(Handler, hch, hch2, h, c),
         NEW ev2, Moved(Handler, ev, ev2, h, EventOf(rec.state, "none"))
  PROVE  Heard(ch2, hch2, ev2) /\ Sole(ch2)
<1>1. Sole(ch2)
  BY DEF Sole, Replaced
<1>2. ASSUME NEW k \in Handler, hch2[k] # NoChannel
      PROVE  /\ ch2[hch2[k]].state = "ok" => ev2[k] = "tuned"
             /\ ch2[hch2[k]].state = "failed" => ev2[k] = "tuneFailed"
  <2>1. CASE k = h
    BY <2>1 DEF Moved, Replaced, EventOf
  <2>2. CASE k # h
    <3>1. hch2[k] = hch[k] /\ ev2[k] = ev[k] /\ hch[k] \in Channel
      BY <1>2, <2>2 DEF Moved, HandlerPointers
    <3>2. ch2[hch[k]].state = ch[hch[k]].state
      BY <3>1 DEF Replaced
    <3> QED
      BY <1>2, <3>1, <3>2 DEF Heard
  <2> QED
    BY <2>1, <2>2
<1> QED
  BY <1>1, <1>2 DEF Heard

(* The other steps change states only where nobody needs to hear of it.    *)
LEMMA QuietTold ==
  ASSUME Told,
         \A d \in Channel : chan'[d].live /\ chan'[d].state = "last_instance" => chan'[d].use = 1,
         \A h \in Handler : hchan'[h] # NoChannel =>
           /\ hchan'[h] = hchan[h] /\ evt'[h] = evt[h]
           /\ chan'[hchan[h]].state \in {"ok", "failed"}
                => chan'[hchan[h]].state = chan[hchan[h]].state
  PROVE  Heard(chan', hchan', evt') /\ Sole(chan')
BY DEF Told, Heard, Sole

LEMMA TuneTold ==
  ASSUME Told, NEW h \in Handler,
         \/ \E i \in ChannelId : TuneShared(h, i) \/ TuneNew(h, i) \/ TuneFails(h, i)
         \/ \E i \in StreamId \cup {NoId} : TunePVR(h, i)
  PROVE  Heard(chan', hchan', evt') /\ Sole(chan')
<1>0. /\ TypeOK /\ References /\ NoChannel \notin Channel
      /\ Refs(chan, active, cache, conn, listening, hchan, hconn, rchan)
      /\ hchan \in HandlerPointers
  BY ConstantsAssumption, PointerTypes DEF Told, References, Ownership
<1>1. \A D \in SUBSET CachedChannel : /\ Heard(ChanAfterDrop(D), hchan, evt)
                                      /\ Sole(ChanAfterDrop(D))
                                      /\ ChanAfterDrop(D) \in [Channel -> ChannelRecord]
  BY <1>0, DropTold, DropType
<1>2. \A c \in Channel \ Live, k \in Handler : hchan[k] # c
  BY <1>0 DEF Refs, Linked, Live
<1>3. ASSUME NEW i \in ChannelId, TuneShared(h, i)
      PROVE  Heard(chan', hchan', evt') /\ Sole(chan')
  <2> DEFINE ch == ChanAfterDrop(Dropped(i))
  <2>1. PICK c \in Sharable(i, Dropped(i)) :
          /\ chan' = [ch EXCEPT ![c] = AddUse(c, 2)]
          /\ Attach(h, c, i, AddUse(c, 2).state)
    BY <1>3 DEF TuneShared
  <2>2. c \in Channel /\ chan[c].live /\ ch[c] = chan[c]
    BY <1>0, SharableLive
  <2>3. /\ AddUse(c, 2).use = chan[c].use + 2
        /\ AddUse(c, 2).state = IF chan[c].state = "last_instance" THEN "ok" ELSE chan[c].state
    BY <1>0, <2>2, AddFields
  <2>4. ASSUME NEW k \in Handler, hchan[k] = c
        PROVE  AddUse(c, 2).state = ch[c].state
    <3>1. chan[c].use >= 2
      BY <1>0, <2>2, <2>4, HeldUse
    <3>2. chan[c].state # "last_instance"
      BY <2>2, <3>1 DEF Told, Sole
    <3> QED
      BY <2>2, <2>3, <3>2
  <2>5. AddUse(c, 2).state # "last_instance"
    BY <2>3
  <2>6. /\ Moved(Handler, hchan, hchan', h, c)
        /\ Moved(Handler, evt, evt', h, EventOf(AddUse(c, 2).state, "none"))
    BY <1>0, <2>1 DEF Attach, TypeOK, Moved
  <2>7. Heard(ch, hchan, evt) /\ Sole(ch) /\ ch \in [Channel -> ChannelRecord]
    BY <1>1, DroppedCached
  <2> HIDE DEF ch
  <2>8. Replaced(ch, chan', c, AddUse(c, 2))
    BY <2>1, <2>7 DEF Replaced
  <2> QED
    BY <1>0, <2>2, <2>4, <2>5, <2>6, <2>7, <2>8, AttachTold
<1>4. ASSUME NEW D \in SUBSET CachedChannel, NEW c \in Channel \ Live, NEW rec, NEW i, NEW st,
             chan' = [ChanAfterDrop(D) EXCEPT ![c] = rec],
             rec.state = st, st # "last_instance", Attach(h, c, i, st)
      PROVE  Heard(chan', hchan', evt') /\ Sole(chan')
  <2> DEFINE ch == ChanAfterDrop(D)
  <2>1. /\ Moved(Handler, hchan, hchan', h, c)
        /\ Moved(Handler, evt, evt', h, EventOf(rec.state, "none"))
    BY <1>0, <1>4 DEF Attach, TypeOK, Moved
  <2>2. Heard(ch, hchan, evt) /\ Sole(ch) /\ Replaced(ch, chan', c, rec)
    BY <1>1, <1>4 DEF Replaced
  <2> HIDE DEF ch
  <2> QED
    BY <1>0, <1>2, <1>4, <2>1, <2>2, AttachTold
<1>5. ASSUME NEW i \in ChannelId, TuneNew(h, i)
      PROVE  Heard(chan', hchan', evt') /\ Sole(chan')
  <2>1. PICK f \in Frontend, c \in Channel \ Live :
          /\ chan' = [ChanAfterDrop(Dropped(i)) EXCEPT ![c] =
                        [live |-> TRUE, id |-> i, fe |-> f, state |-> "tuning", use |-> 3]]
          /\ Attach(h, c, i, "tuning")
    BY <1>5 DEF TuneNew, Best, Candidates
  <2> DEFINE rec == [live |-> TRUE, id |-> i, fe |-> f, state |-> "tuning", use |-> 3]
  <2>2. rec.state = "tuning"
    OBVIOUS
  <2> HIDE DEF rec
  <2>3. chan' = [ChanAfterDrop(Dropped(i)) EXCEPT ![c] = rec]
    BY <2>1 DEF rec
  <2> QED
    BY <1>4, <2>1, <2>2, <2>3, DroppedCached
<1>6. ASSUME NEW i \in ChannelId, TuneFails(h, i)
      PROVE  Heard(chan', hchan', evt') /\ Sole(chan')
  <2>1. /\ chan' = ChanAfterDrop(Dropped(i)) /\ hchan' = hchan /\ hchan[h] = NoChannel
        /\ \E e : evt' = [evt EXCEPT ![h] = e]
    BY <1>6 DEF TuneFails, Idle
  <2>2. Heard(chan', hchan, evt) /\ Sole(chan')
    BY <1>1, <2>1, DroppedCached
  <2>3. \A k \in Handler : hchan[k] # NoChannel => evt'[k] = evt[k]
    BY <1>0, <2>1 DEF TypeOK
  <2> QED
    BY <2>1, <2>2, <2>3 DEF Heard
<1>7. ASSUME NEW i \in StreamId \cup {NoId}, TunePVR(h, i)
      PROVE  Heard(chan', hchan', evt') /\ Sole(chan')
  <2> DEFINE D == IF timer THEN CachedChannel ELSE {}
  <2>1. PICK c \in Channel \ Live, st \in {"ok", "idle"} :
          /\ chan' = [ChanAfterDrop(D) EXCEPT ![c] =
                        [live |-> TRUE, id |-> i, fe |-> NoFrontend, state |-> st, use |-> 2]]
          /\ Attach(h, c, NoId, st)
    BY <1>7 DEF TunePVR
  <2> DEFINE rec == [live |-> TRUE, id |-> i, fe |-> NoFrontend, state |-> st, use |-> 2]
  <2>2. rec.state = st /\ st # "last_instance" /\ D \in SUBSET CachedChannel
    OBVIOUS
  <2> HIDE DEF D, rec
  <2>3. chan' = [ChanAfterDrop(D) EXCEPT ![c] = rec]
    BY <2>1 DEF rec
  <2> QED
    BY <1>4, <2>1, <2>2, <2>3
<1> QED
  BY <1>3, <1>5, <1>6, <1>7

LEMMA EndTold ==
  ASSUME Told, NEW h \in Handler, Retune(h) \/ Free(h) \/ Drop(h)
  PROVE  Heard(chan', hchan', evt') /\ Sole(chan')
<1>0. /\ TypeOK /\ References /\ NoChannel \notin Channel
      /\ Refs(chan, active, cache, conn, listening, hchan, hconn, rchan)
  BY ConstantsAssumption DEF Told, References, Ownership
<1>1. CASE Retune(h)
  <2> DEFINE i == want[h]
  <2>1. /\ i \in ChannelId /\ hchan[h] \in Sharable(i, Dropped(i))
        /\ chan' = ChanAfterDrop(Dropped(i)) /\ hchan' = hchan
        /\ evt' = [evt EXCEPT ![h] = EventOf(chan[hchan[h]].state, @)]
    BY <1>0, <1>1 DEF Retune, TypeOK
  <2>2. Heard(chan', hchan, evt) /\ Sole(chan')
    BY <2>1, DroppedCached, DropTold
  <2>3. chan'[hchan[h]] = chan[hchan[h]]
    BY <1>0, <2>1, SharableLive
  <2>4. /\ evt'[h] = EventOf(chan[hchan[h]].state, evt[h])
        /\ \A k \in Handler \ {h} : evt'[k] = evt[k]
    BY <1>0, <2>1 DEF TypeOK
  <2> QED
    BY <2>1, <2>2, <2>3, <2>4 DEF Heard, EventOf
<1>2. CASE Free(h)
  <2> DEFINE c == hchan[h]
  <2>1. c \in Channel /\ chan[c].live
    BY <1>0, <1>2 DEF Free, Refs, Linked, TypeOK
  <2>2. chan[c].use >= 2
    BY <1>0, <1>2, HeldUse DEF Free
  <2>3. /\ ReleaseUse(c, 2).state \in {"ok", "failed"} => ReleaseUse(c, 2).state = chan[c].state
        /\ ReleaseUse(c, 2).state = "last_instance" => ReleaseUse(c, 2).use = 1
    BY <2>1, <2>2, ReleaseTells
  <2>4. /\ \A d \in Channel : chan'[d] = IF d = c THEN ReleaseUse(c, 2) ELSE chan[d]
        /\ \A k \in Handler : hchan'[k] = IF k = h THEN NoChannel ELSE hchan[k]
        /\ evt' = evt
    BY <1>0, <1>2 DEF Free, TypeOK
  <2> HIDE DEF c
  <2>5. \A d \in Channel : chan'[d].live /\ chan'[d].state = "last_instance" => chan'[d].use = 1
    BY <2>3, <2>4 DEF Told, Sole
  <2>6. \A k \in Handler : hchan'[k] # NoChannel =>
           /\ hchan'[k] = hchan[k] /\ evt'[k] = evt[k]
           /\ chan'[hchan[k]].state \in {"ok", "failed"}
                => chan'[hchan[k]].state = chan[hchan[k]].state
    BY <1>0, <2>3, <2>4 DEF TypeOK
  <2> QED
    BY <2>5, <2>6, QuietTold
<1>3. CASE Drop(h)
  <2>1. /\ \A d \in Channel : chan'[d] = Dead \/ chan'[d] = chan[d]
        /\ hchan' = hchan /\ hchan[h] = NoChannel
        /\ \A k \in Handler : k # h => evt'[k] = evt[k]
    BY <1>0, <1>3 DEF Drop, TypeOK
  <2>2. \A d \in Channel : chan'[d].live /\ chan'[d].state = "last_instance" => chan'[d].use = 1
    BY <2>1 DEF Told, Sole, Dead
  <2>3. \A k \in Handler : hchan'[k] # NoChannel =>
           /\ hchan'[k] = hchan[k] /\ evt'[k] = evt[k]
           /\ chan'[hchan[k]].state \in {"ok", "failed"}
                => chan'[hchan[k]].state = chan[hchan[k]].state
    BY <1>0, <2>1 DEF TypeOK, Dead
  <2> QED
    BY <2>2, <2>3, QuietTold
<1> QED
  BY <1>1, <1>2, <1>3

LEMMA ScanTold ==
  ASSUME Told,
         \/ ReleaseTimeout
         \/ \E r \in Scanner : ScanNext(r) \/ ScanEnd(r) \/ \E f \in Frontend : ScanStart(r, f)
  PROVE  Heard(chan', hchan', evt') /\ Sole(chan')
<1>0. /\ TypeOK /\ References /\ NoChannel \notin Channel
      /\ Refs(chan, active, cache, conn, listening, hchan, hconn, rchan)
  BY ConstantsAssumption DEF Told, References, Ownership
<1>1. UNCHANGED <<hchan, evt>>
  BY DEF ReleaseTimeout, ScanNext, ScanEnd, ScanStart, clientVars
<1>2. Heard(ChanAfterDrop(CachedChannel), hchan, evt) /\ Sole(ChanAfterDrop(CachedChannel))
  BY DropTold
<1>3. CASE ReleaseTimeout
  <2>1. chan' = ChanAfterDrop(CachedChannel)
    BY <1>0, <1>3 DEF ReleaseTimeout, ChanAfterDrop, CachedChannel, TypeOK
  <2> QED
    BY <1>1, <1>2, <2>1
<1>4. ASSUME NEW r \in Scanner, NEW f \in Frontend, ScanStart(r, f)
      PROVE  Heard(chan', hchan', evt') /\ Sole(chan')
  <2>1. CASE chan' = ChanAfterDrop(CachedChannel)
    BY <1>1, <1>2, <2>1
  <2>2. ASSUME NEW c \in Channel \ Live,
               chan' = [ChanAfterDrop(CachedChannel) EXCEPT ![c] =
                          [live |-> TRUE, id |-> NoId, fe |-> f, state |-> "last_instance",
                           use |-> 1]]
        PROVE  Heard(chan', hchan', evt') /\ Sole(chan')
    <3>1. ChanAfterDrop(CachedChannel) \in [Channel -> ChannelRecord]
      BY <1>0, DropType
    <3>2. /\ \A d \in Channel : d # c => chan'[d] = ChanAfterDrop(CachedChannel)[d]
          /\ chan'[c].use = 1
      BY <2>2, <3>1
    <3>3. \A k \in Handler : hchan[k] # NoChannel => hchan[k] \in Channel /\ hchan[k] # c
      BY <1>0 DEF Refs, Linked, Live, TypeOK
    <3>4. Sole(chan')
      BY <1>2, <3>2 DEF Sole
    <3>5. Heard(chan', hchan, evt)
      BY <1>2, <3>2, <3>3 DEF Heard
    <3> QED
      BY <1>1, <3>4, <3>5
  <2> QED
    BY <1>4, <2>1, <2>2 DEF ScanStart
<1>5. ASSUME NEW r \in Scanner, ScanNext(r) \/ ScanEnd(r)
      PROVE  Heard(chan', hchan', evt') /\ Sole(chan')
  <2>1. \A d \in Channel : \/ chan'[d] = chan[d] \/ chan'[d] = Dead
                           \/ chan'[d].state = "tuning"
    BY <1>0, <1>5 DEF ScanNext, ScanEnd, TypeOK, ChannelRecord
  <2>2. \A d \in Channel : chan'[d].live /\ chan'[d].state = "last_instance" => chan'[d].use = 1
    BY <2>1 DEF Told, Sole, Dead
  <2>3. \A k \in Handler : hchan'[k] # NoChannel =>
           /\ hchan'[k] = hchan[k] /\ evt'[k] = evt[k]
           /\ chan'[hchan[k]].state \in {"ok", "failed"}
                => chan'[hchan[k]].state = chan[hchan[k]].state
    BY <1>0, <1>1, <2>1 DEF TypeOK, Dead
  <2> QED
    BY <2>2, <2>3, QuietTold
<1> QED
  BY <1>3, <1>4, <1>5

LEMMA FrontendTold ==
  ASSUME Told, NEW f \in Frontend,
         Lock(f) \/ LoseLock(f) \/ TuneTimeout(f) \/ DisableTimeout(f)
  PROVE  Heard(chan', hchan', evt') /\ Sole(chan')
<1> DEFINE c == ChannelOn(f)
<1>0. /\ TypeOK /\ References /\ NoChannel \notin Channel
      /\ Refs(chan, active, cache, conn, listening, hchan, hconn, rchan)
  BY ConstantsAssumption DEF Told, References, Ownership
<1>1. hchan' = hchan
  BY DEF Lock, LoseLock, TuneTimeout, DisableTimeout, FrontendUnchanged, clientVars
<1>2. \/ UNCHANGED <<chan, evt>>
      \/ \E st \in {"ok", "tuning", "unavailable", "failed"} : Signal(f, st)
      \/ chan' = [chan EXCEPT ![c].state = "tuning"] /\ UNCHANGED evt
  BY DEF Lock, LoseLock, TuneTimeout, DisableTimeout, clientVars
<1>3. CASE UNCHANGED <<chan, evt>>
  BY <1>1, <1>3 DEF Told, Heard, Sole
<1>4. ASSUME NEW st \in {"ok", "tuning", "unavailable", "failed"}, Signal(f, st),
             ~UNCHANGED <<chan, evt>>
      PROVE  Heard(chan', hchan', evt') /\ Sole(chan')
  <2>1. /\ chan' = [chan EXCEPT ![c].state = st]
        /\ evt' = [h \in Handler |-> IF hconn[h] = c /\ (hchan[h] = c \/ st = "failed")
                                     THEN EventOf(st, evt[h]) ELSE evt[h]]
    BY <1>4 DEF Signal
  <2> HIDE DEF c
  <2>2. \A d \in Channel : /\ d = c => chan'[d].state = st
                           /\ d # c => chan'[d].state = chan[d].state
                           /\ chan'[d].live = chan[d].live /\ chan'[d].use = chan[d].use
    BY <1>0, <2>1 DEF TypeOK, ChannelRecord
  <2>3. Sole(chan')
    BY <2>2 DEF Told, Sole
  <2>4. ASSUME NEW h \in Handler, hchan[h] # NoChannel
        PROVE  /\ chan'[hchan[h]].state = "ok" => evt'[h] = "tuned"
               /\ chan'[hchan[h]].state = "failed" => evt'[h] = "tuneFailed"
    <3>1. hchan[h] \in Channel /\ hconn[h] = hchan[h]
      BY <1>0, <2>4 DEF Refs, Linked, TypeOK
    <3>2. CASE hchan[h] = c
      BY <2>1, <2>2, <3>1, <3>2 DEF EventOf
    <3>3. CASE hchan[h] # c
      BY <2>1, <2>2, <2>4, <3>1, <3>3 DEF Told, Heard
    <3> QED
      BY <3>2, <3>3
  <2> QED
    BY <1>1, <2>3, <2>4 DEF Heard
<1>5. CASE chan' = [chan EXCEPT ![c].state = "tuning"] /\ UNCHANGED evt
  <2> HIDE DEF c
  <2>1. \A d \in Channel : /\ chan'[d].state = "tuning" \/ chan'[d].state = chan[d].state
                           /\ chan'[d].live = chan[d].live /\ chan'[d].use = chan[d].use
    BY <1>0, <1>5 DEF TypeOK, ChannelRecord
  <2>2. \A d \in Channel : chan'[d].live /\ chan'[d].state = "last_instance" => chan'[d].use = 1
    BY <2>1 DEF Told, Sole
  <2>3. \A k \in Handler : hchan'[k] # NoChannel =>
           /\ hchan'[k] = hchan[k] /\ evt'[k] = evt[k]
           /\ chan'[hchan[k]].state \in {"ok", "failed"}
                => chan'[hchan[k]].state = chan[hchan[k]].state
    BY <1>0, <1>1, <1>5, <2>1 DEF TypeOK
  <2> QED
    BY <2>2, <2>3, QuietTold
<1> QED
  BY <1>2, <1>3, <1>4, <1>5

(* Whoever shares a channel and whatever happened to it, the last event of *)
(* each of its PMT handlers is the one of the state it is in, and          *)
(* last_instance is announced for a channel with a single use only.        *)
THEOREM ClientsAlwaysTold == Spec => []ClientsAreTold
<1>1. Init => Told
  BY InitRefs DEF Init, Told, Heard, Sole, Dead
<1>2. Told /\ [Next]_vars => Told'
  <2> SUFFICES ASSUME Told, [Next]_vars PROVE Told'
    OBVIOUS
  <2>1. References'
    BY NextRefs DEF Told
  <2>2. CASE UNCHANGED vars
    BY <2>1, <2>2 DEF vars, clientVars, Told
  <2>3. CASE Next
    BY <2>1, <2>3, TuneTold, EndTold, ScanTold, FrontendTold DEF Next, Told
  <2> QED
    BY <2>2, <2>3
<1>3. Told => ClientsAreTold
  BY ToldIs DEF Told, References, Ownership, ClientsAreTold
<1> QED
  BY <1>1, <1>2, <1>3, PTL DEF Spec

-----------------------------------------------------------------------------
(* What canAllocateChannel answers.                                        *)

Spare(g) == IF cache # NoChannel /\ cache \notin Ignored(g) /\ chan[cache].use = 1
            THEN {cache} ELSE {}

(* When no stopped handler keeps a channel alive, canAllocateChannel       *)
(* ignores a tuner channel exactly if stopping the last service on g frees *)
(* it: the constants 3, 2 and 1 tell its users apart.                      *)
LEMMA IgnoredIsFree ==
  ASSUME References, \A h \in Handler : hconn[h] = hchan[h],
         NEW g \in ChannelId \cup {NoId},
         NEW c \in Channel, chan[c].live, chan[c].fe # NoFrontend
  PROVE  c \in Ignored(g) \cup Spare(g) <=>
           /\ Scanners(c) = {}
           /\ Cardinality(Holders(c)) <= IF chan[c].id = g THEN 1 ELSE 0
<1> DEFINE n == Cardinality(Pointing(hchan, c))
           m == Cardinality(Pointing(rchan, c))
<1>0. /\ TypeOK /\ NoChannel \notin Channel /\ IsFiniteSet(Handler) /\ IsFiniteSet(Scanner)
      /\ Refs(chan, active, cache, conn, listening, hchan, hconn, rchan)
  BY ConstantsAssumption DEF References, Ownership
<1>1. Holders(c) = Pointing(hchan, c) /\ Scanners(c) = Pointing(rchan, c)
  BY <1>0 DEF Holders, Scanners, Pointing, TypeOK
<1>2. n \in Nat /\ m \in Nat /\ chan[c].use = (IF cache = c THEN 1 ELSE 0) + 2 * n + m
  BY <1>0, PointerTypes, UsesNat DEF Refs, Counted, Uses
<1>3. m = 0 <=> Scanners(c) = {}
  BY <1>0, <1>1, PointingFinite, FS_EmptySet DEF TypeOK
<1>4. c \in active <=> chan[c].id # NoId
  BY <1>0 DEF Refs, Registered
<1>5. cache = c => chan[c].id # NoId
  BY <1>0 DEF Refs, CacheSound
<1>6. Cardinality(Holders(c)) = n
  BY <1>1
<1> HIDE DEF n, m
<1>7. c \in Ignored(g) <=> c \in active /\ chan[c].id = g
                           /\ chan[c].use = IF c = cache THEN 3 ELSE 2
  BY DEF Ignored, SoleUse
<1>8. c \in Spare(g) <=> c = cache /\ c \notin Ignored(g) /\ chan[c].use = 1
  BY <1>0 DEF Spare
<1>9. CASE chan[c].id = NoId
  <2>1. \E r \in Scanner : rchan[r] = c
    BY <1>0, <1>9 DEF Refs, ScansApart
  <2>2. Scanners(c) # {}
    BY <2>1 DEF Scanners
  <2> QED
    BY <1>4, <1>5, <1>7, <1>8, <1>9, <2>2
<1>10. CASE chan[c].id # NoId
  <2>1. \A r \in Scanner : rchan[r] # c
    BY <1>0, <1>10 DEF Refs, ScansApart
  <2>2. Scanners(c) = {} /\ m = 0
    BY <1>3, <2>1 DEF Scanners
  <2>3. n # 0 \/ c = cache
    <3> SUFFICES ASSUME n = 0, c # cache PROVE FALSE
      OBVIOUS
    <3>1. chan[c].use = 0
      BY <1>2, <2>2
    <3>2. PICK h \in Handler : hconn[h] = c
      BY <1>0, <3>1 DEF Refs, Leakless
    <3>3. chan[c].use >= 2
      BY <1>0, <3>2, HeldUse
    <3> QED
      BY <3>1, <3>3
  <2> QED
    BY <1>2, <1>4, <1>6, <1>7, <1>8, <1>10, <2>2, <2>3
<1> QED
  BY <1>9, <1>10

LEMMA FreeIsCounted ==
  ASSUME References, \A h \in Handler : hconn[h] = hchan[h],
         NEW g \in ChannelId \cup {NoId}, NEW f \in Frontend
  PROVE  IgnoredUse(g)[f] = 0 <=> f \in FreeWithout(g)
<1> DEFINE Less == Ignored(g) \cup Spare(g)
<1>0. /\ TypeOK /\ Owned(chan, inuse) /\ NoChannel \notin Channel /\ NoFrontend \notin Frontend
      /\ Refs(chan, active, cache, conn, listening, hchan, hconn, rchan)
  BY ConstantsAssumption DEF References, Ownership
<1>1. IgnoredUse(g)[f] = IF f \in FrontendsOf(Less) THEN inuse[f] - 1 ELSE inuse[f]
  BY DEF IgnoredUse, InUseWithout, Spare
<1>2. \A d \in Less : d \in Channel /\ chan[d].live
  BY <1>0 DEF Ignored, Spare, Refs, Registered, CacheSound, TypeOK
<1>3. \A c \in ChannelsOn(f) : c \in Less <=>
           /\ Scanners(c) = {}
           /\ Cardinality(Holders(c)) <= IF chan[c].id = g THEN 1 ELSE 0
  BY <1>0, IgnoredIsFree DEF ChannelsOn, Live
<1> HIDE DEF Less
<1>4. f \in FreeWithout(g) <=> \A c \in ChannelsOn(f) : c \in Less
  BY <1>3 DEF FreeWithout
<1>5. f \in FrontendsOf(Less) <=> \E c \in ChannelsOn(f) : c \in Less
  BY <1>0, <1>2 DEF FrontendsOf, ChannelsOn, Live
<1>6. \/ inuse[f] = 0 /\ ChannelsOn(f) = {}
      \/ inuse[f] = 1 /\ \E c \in Live : ChannelsOn(f) = {c}
  BY OwnershipImplies DEF References, FrontendExclusive
<1> QED
  BY <1>1, <1>4, <1>5, <1>6

LEMMA ReferencesHonest == References => CanAllocateHonest
<1> SUFFICES ASSUME References, \A h \in Handler : hconn[h] = hchan[h],
                    NEW i \in Listed, NEW g \in ChannelId \cup {NoId}
             PROVE  canAllocateChannel(i, g) <=>
                      \/ i \in {chan[c].id : c \in Live}
                      \/ \E f \in FreeWithout(g) : Score[f][i] > 0
  BY DEF CanAllocateHonest
<1>0. /\ TypeOK /\ i \in ChannelId /\ i # NoId
      /\ Refs(chan, active, cache, conn, listening, hchan, hconn, rchan)
  BY ConstantsAssumption DEF References, Ownership
<1>1. i \in {chan[c].id : c \in active \cup CachedChannel} <=> i \in {chan[c].id : c \in Live}
  BY <1>0 DEF CachedChannel, Live, Refs, Registered, CacheSound, TypeOK
<1>2. Candidates(i, IgnoredUse(g)) # {} <=> \E f \in FreeWithout(g) : Score[f][i] > 0
  <2>1. \A f \in Frontend : IgnoredUse(g)[f] = 0 <=> f \in FreeWithout(g)
    BY FreeIsCounted
  <2>2. FreeWithout(g) \subseteq Frontend
    BY DEF FreeWithout
  <2>3. Candidates(i, IgnoredUse(g)) = {f \in FreeWithout(g) : Score[f][i] > 0}
    BY <2>1, <2>2 DEF Candidates
  <2> QED
    BY <2>3
<1> QED
  BY <1>1, <1>2 DEF canAllocateChannel

(* canAllocateChannel says yes exactly when, once the last service on g    *)
(* has stopped, a channel or a tuner is there for i.                       *)
THEOREM CanAllocateAlwaysHonest == Spec => []CanAllocateHonest
BY ReferencesAlways, ReferencesHonest, PTL
=============================================================================
