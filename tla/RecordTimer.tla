----------------------------- MODULE RecordTimer -----------------------------
(***************************************************************************)
(* The recording timers of enigma2: the list of RecordTimerEntry objects,  *)
(* the Timer that activates them (timer.py, RecordTimer.py), the timer     *)
(* screen that adds, edits, disables and removes them                      *)
(* (Screens/TimerEdit.py, Screens/TimerEntry.py) and timers.xml.           *)
(*                                                                         *)
(* Everything runs on the main loop.  calcNextActivation is the loop       *)
(* "calc", "loop", ..., which nothing but a crash interrupts; what its     *)
(* caller does afterwards is the step that `then' names.                   *)
(***************************************************************************)
EXTENDS Integers, Sequences, SequencesExt

CONSTANTS
  Timer,        (* RecordTimerEntry objects                                *)
  Zap,          (* those that only zap (justplay)                          *)
  Repeats,      (* those that are repeated                                 *)
  Unfit,        (* those for which recordService has no service            *)
  MaxTime,      (* bound on the clock, in seconds                          *)
  Warps,        (* times that the clock may be set to                      *)
  MaxJumps,     (* bound on how often it is set                            *)
  Leads,        (* begin of a new or edited entry, from now on             *)
  Lengths,      (* its length                                              *)
  Day,          (* the distance of the repetitions of an entry             *)
  PrepareTime,  (* prepare_time                                            *)
  Backoffs,     (* <<first, longest>> back-off                             *)
  MaxWaitTime, ShortWait, (* longest wait, and before the clock was set    *)
  ClockSet,     (* times from which on the clock counts as set             *)
  Keep,         (* seconds that done entries are kept                      *)
  Faults,       (* what may fail: "prepare", "start"                       *)
  Refused,      (* an edit that conflicts may be given up                  *)
  Interleaved,  (* entries may be activated while an edit is open          *)
  NoTimer

ASSUME TimerAssumption ==
  /\ NoTimer \notin Timer /\ Zap \subseteq Timer /\ Repeats \subseteq Timer
  /\ Unfit \subseteq Timer
  /\ MaxTime \in Nat /\ Warps \subseteq 0 .. MaxTime
  /\ Leads \subseteq Int /\ Lengths \subseteq Nat
  /\ {Day, PrepareTime, MaxWaitTime, ShortWait} \subseteq Nat \ {0}
  /\ Backoffs \in (Nat \ {0}) \X Nat /\ Backoffs[1] <= Backoffs[2]
  /\ MaxJumps \in Nat /\ ClockSet \in Nat /\ Keep \in Nat
  /\ Faults \subseteq {"prepare", "start"}
  /\ Refused \in BOOLEAN /\ Interleaved \in BOOLEAN

VARIABLES
  now,        (* time()                                                    *)
  last,       (* lastActivation                                            *)
  wait,       (* what is left of the eTimer, on the monotonic clock        *)
  jumped,     (* the clock was set since the eTimer was started            *)
  jumps,      (* how often it was set                                      *)
  list,       (* timer_list                                                *)
  processed,  (* processed_timers                                          *)
  tl,         (* the done entries calcNextActivation is still to look at   *)
  tm,         (* the fields of the entries                                 *)
  pc, then,   (* the main loop: what runs next, and after calcNextActivation *)
  who,        (* the entry that a removal or an answer is about            *)
  dialog,     (* the dialog of the timer screen that is open on `who'      *)
  file        (* timers.xml                                                *)

clockVars == <<now, last, wait, jumped, jumps>>
vars == <<clockVars, list, processed, tl, tm, pc, then, who, dialog, file>>

State    == {"waiting", "prepared", "running", "ended"}
Entry    == [begin : Int, end : Int, prep : Int, state : State, repeated : BOOLEAN,
             disabled : BOOLEAN, backoff : Nat, svc : {"none", "prepared", "recording"}]
Stored   == [saved : BOOLEAN, begin : Int, end : Int, repeated : BOOLEAN, disabled : BOOLEAN]
Blank    == [begin |-> 0, end |-> 0, prep |-> 0, state |-> "ended", repeated |-> FALSE,
             disabled |-> FALSE, backoff |-> 0, svc |-> "none"]
NotSaved == [saved |-> FALSE, begin |-> 0, end |-> 0, repeated |-> FALSE, disabled |-> FALSE]

Listed == ToSet(list)
Known  == Listed \cup processed
After  == {"idle", "load", "save", "forget", "rearm"}

TypeOK ==
  /\ now \in 0 .. MaxTime /\ last \in 0 .. MaxTime
  /\ wait \in 0 .. MaxWaitTime /\ jumped \in BOOLEAN /\ jumps \in 0 .. MaxJumps
  /\ list \in Seq(Timer) /\ processed \subseteq Timer /\ tl \subseteq Timer
  /\ tm \in [Timer -> Entry]
  /\ pc \in After \cup {"calc", "revive", "loop", "stop"} /\ then \in After
  /\ who \in Timer \cup {NoTimer} /\ dialog \in {"none", "edited", "asked", "stopall"}
  /\ file \in [Timer -> Stored]

-----------------------------------------------------------------------------
(* One entry.                                                              *)

Key_Begin(e) ==
  CASE e.state = "waiting" -> e.prep [] OTHER -> e.begin

(* getNextActivation.                                                      *)
Key(e) ==
  CASE e.state = "waiting" -> e.prep [] e.state = "prepared" -> e.begin [] OTHER -> e.end

timeChanged(e) == [e EXCEPT !.prep = e.begin - PrepareTime, !.backoff = 0]

shouldSkip(e) == e.end <= now /\ e.state = "waiting"

(* processRepeated: on to the first occurrence that is not over yet (or,   *)
(* for an event that is to be left out, that has not begun).               *)
processRepeated(e, findRunning) ==
  LET due == IF findRunning THEN e.end ELSE e.begin
      k   == IF due > now THEN 0 ELSE ((now - due) \div Day) + 1
      b   == e.begin + k * Day
      n   == e.end + k * Day
  IN IF e.repeated
     THEN timeChanged([e EXCEPT !.begin = b, !.end = IF n = b THEN n + 1 ELSE n])
     ELSE e

do_backoff(e) ==
  [e EXCEPT !.backoff = IF @ = 0 THEN Backoffs[1]
                        ELSE IF 2 * @ > Backoffs[2] THEN Backoffs[2] ELSE 2 * @]

(* activate, before the recording: a service is reserved.  When that fails *)
(* the entry is due again later, but not when there is no service at all.  *)
tryPrepare(w, e) ==
  CASE w \in Zap            -> {[e EXCEPT !.state = "prepared", !.backoff = 0]}
    [] w \in Unfit \ Zap    -> {e}
    [] w \notin Unfit \cup Zap ->
         {[e EXCEPT !.state = "prepared", !.backoff = 0, !.svc = "prepared"]}
         \cup (IF "prepare" \in Faults
               THEN {[do_backoff(e) EXCEPT !.prep = now + do_backoff(e).backoff]} ELSE {})

Cancelled(w) == then = "forget" /\ who = w

(* ... at its begin ...                                                    *)
start(w, e) ==
  IF w \in Zap \/ Cancelled(w) THEN {[e EXCEPT !.state = "running"]}
  ELSE {[e EXCEPT !.state = "running", !.svc = "recording"]}
       \cup (IF "start" \in Faults
             THEN {[do_backoff(e) EXCEPT !.begin = now + do_backoff(e).backoff]} ELSE {})

(* ... and at its end.                                                     *)
stop(e) == {[e EXCEPT !.state = "ended", !.svc = "none"]}

activate(w) ==
  LET e == tm[w] IN
  CASE shouldSkip(e)                        -> {[e EXCEPT !.state = "ended"]}
    [] ~shouldSkip(e) /\ e.state = "waiting" -> tryPrepare(w, e)
    [] e.state = "prepared"                 -> start(w, e)
    [] e.state = "running"                  -> stop(e)
    [] e.state = "ended"                    -> {e}

-----------------------------------------------------------------------------
(* The lists.                                                              *)

(* insort of w, with the entries T: what bisect may make of L.  There is   *)
(* one such place when L is sorted.                                        *)
Insorted(L, w, T) ==
  LET place(p) == /\ p > 1 => Key(T[L[p - 1]]) <= Key(T[w])
                  /\ p <= Len(L) => Key(T[w]) < Key(T[L[p]])
  IN {InsertAt(L, p, w) : p \in {q \in 1 .. Len(L) + 1 : place(q)}}

Without(L, w) ==
  IF w \in ToSet(L) THEN RemoveAt(L, CHOOSE p \in DOMAIN L : L[p] = w) ELSE L

Done(e) == shouldSkip(e) \/ e.state = "ended" \/ (e.state = "waiting" /\ e.disabled)

addTimerEntry_NoRecalc(w, e0, L, P, noRecalc, cont) ==
  LET e == processRepeated(e0, TRUE)  T == [tm EXCEPT ![w] = e] IN
  /\ IF Done(e)
     THEN /\ processed' = P \cup {w} /\ list' = L
          /\ tm' = [T EXCEPT ![w].state = "ended"]
     ELSE /\ processed' = P /\ list' \in Insorted(L, w, T) /\ tm' = T
  /\ pc' = cont

(* addTimerEntry of w with the fields e0 to the lists L and P, from which  *)
(* it was taken; calcNextActivation runs only when w is listed.            *)
addTimerEntry(w, e0, L, P, noRecalc, cont) ==
  LET e == processRepeated(e0, TRUE)  T == [tm EXCEPT ![w] = e] IN
  IF Done(e)
  THEN /\ processed' = P \cup {w} /\ list' = L
       /\ tm' = [T EXCEPT ![w].state = "ended"]
       /\ pc' = cont
  ELSE /\ processed' = P /\ list' \in Insorted(L, w, T)
       /\ tm' = T
       /\ pc' = IF noRecalc THEN cont ELSE "calc"

ReAdd_Twice(w, e, cont) ==
  addTimerEntry(w, [timeChanged(e) EXCEPT !.state = IF @ = "ended" THEN "waiting" ELSE @],
                Without(list, w), processed, FALSE, cont)

ReAdd_Restarts(w, e, cont) ==
  addTimerEntry(w, [timeChanged(e) EXCEPT !.state = "waiting"], Without(list, w),
                processed \ {w}, FALSE, cont)

(* Timer.timeChanged of w, whose fields are now e.  remove() of a list     *)
(* that does not have the entry raises, which ends the program.            *)
ReAdd(w, e, cont) ==
  IF e.state = "ended"
  THEN /\ w \in processed
       /\ addTimerEntry(w, [timeChanged(e) EXCEPT !.state = "waiting"], list,
                        processed \ {w}, FALSE, cont)
  ELSE addTimerEntry(w, timeChanged(e), Without(list, w), processed, FALSE, cont)

(* cleanupDaily: done entries that are kept.                               *)
Recent == {w \in processed : (tm[w].disabled /\ tm[w].repeated) \/ tm[w].end > now - Keep}

(* doActivate of w.                                                        *)
doActivate(w, cont) ==
  \E e \in activate(w) :
    LET L == Without(list, w)  T == [tm EXCEPT ![w] = e] IN
    IF e.state # "ended"
    THEN /\ list' \in Insorted(L, w, T) /\ tm' = T /\ pc' = cont
         /\ UNCHANGED processed
    ELSE IF e.repeated
    THEN addTimerEntry(w, [processRepeated(e, TRUE) EXCEPT !.state = "waiting"],
                       L, processed, FALSE, cont)
    ELSE /\ processed' = Recent \cup {w}
         /\ tm' = [x \in Timer |-> IF x \in processed \ Recent THEN Blank ELSE T[x]]
         /\ list' = L /\ pc' = cont

-----------------------------------------------------------------------------
(* calcNextActivation.                                                     *)

(* The clock went back: all done entries get another chance ...            *)
calcNextActivation ==
  /\ pc = "calc"
  /\ IF last > now
     THEN pc' = "revive" /\ tl' = processed /\ processed' = {}
     ELSE pc' = "loop" /\ UNCHANGED <<tl, processed>>
  /\ UNCHANGED <<clockVars, list, tm, then, who, dialog, file>>

(* ... one after the other.                                                *)
Reevaluate ==
  /\ pc = "revive"
  /\ \/ /\ tl = {} /\ pc' = "loop"
        /\ UNCHANGED <<tl, list, processed, tm>>
     \/ \E w \in tl :
          /\ tl' = tl \ {w}
          /\ addTimerEntry(w, [timeChanged(tm[w]) EXCEPT !.state = "waiting"],
                           list, processed, TRUE, "revive")
  /\ UNCHANGED <<clockVars, then, who, dialog, file>>

(* processActivation: the first entry, while it is due.                    *)
Due == list # <<>> /\ Key(tm[Head(list)]) <= now

Activate ==
  /\ pc = "loop" /\ Due
  /\ doActivate(Head(list), "loop")
  /\ UNCHANGED <<clockVars, tl, then, who, dialog, file>>

Pause_Unpolled ==
  IF list = <<>> THEN MaxWaitTime ELSE Key(tm[Head(list)]) - now

(* The next activation point, in seconds from now on.                      *)
Pause ==
  LET key == IF list = <<>> THEN now + MaxWaitTime ELSE Key(tm[Head(list)])
      p   == IF key < now + MaxWaitTime THEN key - now ELSE MaxWaitTime
  IN IF now < ClockSet /\ p > ShortWait THEN ShortWait ELSE p

Finish ==
  /\ pc = "loop" /\ ~Due
  /\ last' = now /\ wait' = Pause /\ jumped' = FALSE
  /\ pc' = then
  /\ UNCHANGED <<now, jumps, list, processed, tl, tm, then, who, dialog, file>>

-----------------------------------------------------------------------------
(* Time.                                                                   *)

(* The eTimer fires.                                                       *)
Fire ==
  /\ pc = "idle" /\ wait = 0 /\ (dialog = "edited" => Interleaved)
  /\ pc' = "calc" /\ then' = "idle"
  /\ UNCHANGED <<clockVars, tl, list, processed, tm, who, dialog, file>>

(* A second passes; the main loop may be late with the eTimer.             *)
Tick ==
  /\ pc = "idle" /\ now < MaxTime
  /\ now' = now + 1
  /\ wait' = IF wait = 0 THEN 0 ELSE wait - 1
  /\ UNCHANGED <<last, jumped, jumps, list, processed, tl, tm, pc, then, who, dialog, file>>

(* The clock is set, by the transponder's time table.                      *)
Warp(t) ==
  /\ pc = "idle" /\ t # now /\ jumps < MaxJumps
  /\ now' = t /\ jumped' = TRUE /\ jumps' = jumps + 1
  /\ UNCHANGED <<last, wait, list, processed, tl, tm, pc, then, who, dialog, file>>

-----------------------------------------------------------------------------
(* The timer screen.                                                       *)

Ready == pc = "idle" /\ dialog = "none"

(* saveTimer, when the entries have the fields T.                          *)
Saved(T) ==
  [w \in Timer |-> IF w \in Known
                   THEN [saved |-> TRUE, begin |-> T[w].begin, end |-> T[w].end,
                         repeated |-> T[w].repeated, disabled |-> T[w].disabled]
                   ELSE NotSaved]

New(b, n, r, d) ==
  timeChanged([begin |-> b, end |-> n, prep |-> 0, state |-> "waiting", repeated |-> r,
               disabled |-> d, backoff |-> 0, svc |-> "none"])

record_Unsaved(w, b, n) ==
  /\ Ready /\ w \notin Known
  /\ addTimerEntry(w, New(b, n, w \in Repeats, FALSE), list, processed, FALSE, "idle")
  /\ then' = "idle"
  /\ UNCHANGED <<clockVars, tl, who, dialog, file>>

(* record: a new entry, which is then saved.                               *)
record(w, b, n) ==
  /\ Ready /\ w \notin Known
  /\ addTimerEntry(w, New(b, n, w \in Repeats, FALSE), list, processed, FALSE, "save")
  /\ then' = "save"
  /\ UNCHANGED <<clockVars, tl, who, dialog, file>>

Save ==
  /\ pc = "save"
  /\ pc' = "idle" /\ then' = "idle"
  /\ file' = Saved(tm)
  /\ UNCHANGED <<clockVars, tl, list, processed, tm, who, dialog>>

abort_KeepsRepeating(e) ==
  [e EXCEPT !.end = now, !.begin = IF @ > now THEN now ELSE @]

(* abort, with what removeEntry does to an entry before it.                *)
abort(e) ==
  [e EXCEPT !.end = now, !.begin = IF @ > now THEN now ELSE @, !.repeated = FALSE]

(* removeEntry: the entry is brought to its end ...                        *)
removeEntry(w) ==
  /\ Ready /\ w \in Known
  /\ IF tm[w].state = "ended"
     THEN /\ pc' = "forget" /\ tm' = [tm EXCEPT ![w] = abort(@)]
          /\ UNCHANGED <<list, processed>>
     ELSE ReAdd(w, abort(tm[w]), "forget")
  /\ who' = w /\ then' = "forget"
  /\ UNCHANGED <<clockVars, tl, dialog, file>>

(* ... and taken from processed_timers for good.                           *)
Forget ==
  /\ pc = "forget" /\ who \in processed
  /\ processed' = processed \ {who}
  /\ tm' = [tm EXCEPT ![who] = Blank]
  /\ file' = [Saved(tm) EXCEPT ![who] = NotSaved]
  /\ pc' = "idle" /\ then' = "idle" /\ who' = NoTimer
  /\ UNCHANGED <<clockVars, tl, list, dialog>>

(* keyGo of the edit screen: the fields change in place and are saved ...  *)
keyGo(w, b, n) ==
  /\ Ready /\ w \in Known
  /\ tm' = [tm EXCEPT ![w] = [@ EXCEPT !.begin = b, !.end = n, !.repeated = w \in Repeats]]
  /\ file' = Saved(tm')
  /\ who' = w /\ dialog' = "edited"
  /\ UNCHANGED <<clockVars, tl, list, processed, pc, then>>

(* ... and later, in finishedEdit, the entry is put in its place, unless   *)
(* it conflicts with others and the user gives it up.                      *)
finishedEdit ==
  /\ pc = "idle" /\ dialog = "edited"
  /\ \/ ReAdd(who, tm[who], "idle")
     \/ Refused /\ UNCHANGED <<list, processed, tm, pc>>
  /\ dialog' = "none" /\ who' = NoTimer
  /\ UNCHANGED <<clockVars, tl, then, file>>

(* toggleDisabledState: an entry that conflicts stays disabled; for one    *)
(* that is repeated and recording the user is asked.                       *)
toggleDisabledState(w) ==
  LET running == ~tm[w].disabled /\ tm[w].state = "running"
      choice  == running /\ tm[w].repeated
  IN
  /\ Ready /\ w \in Known
  /\ \E d \in IF running THEN {FALSE} ELSE IF tm[w].disabled THEN BOOLEAN ELSE {TRUE} :
       ReAdd(w, [tm[w] EXCEPT !.disabled = d], "idle")
  /\ dialog' = IF choice THEN "asked" ELSE "none"
  /\ who' = IF choice THEN w ELSE NoTimer
  /\ UNCHANGED <<clockVars, tl, then, file>>

(* runningEventCallback: nothing, or stop only the coming events, or stop  *)
(* the current one too or only.  It may have ended in the meantime.        *)
Answer ==
  /\ pc = "idle" /\ dialog = "asked"
  /\ \/ /\ \/ UNCHANGED <<list, processed, tm, pc>>
           \/ ReAdd(who, [tm[who] EXCEPT !.disabled = TRUE], "idle")
        /\ dialog' = "none" /\ who' = NoTimer
        /\ UNCHANGED then
     \/ /\ tm' = [tm EXCEPT ![who] = processRepeated([@ EXCEPT !.disabled = FALSE], FALSE)]
        /\ dialog' \in {"none", "stopall"}
        /\ pc' = "stop" /\ then' = "rearm"
        /\ UNCHANGED <<list, processed, who>>
  /\ UNCHANGED <<clockVars, tl, file>>

(* ... by activating the entry, which has to be listed ...                 *)
StopNow ==
  /\ pc = "stop" /\ who \in Listed
  /\ doActivate(who, "rearm")
  /\ UNCHANGED <<clockVars, tl, then, who, dialog, file>>

(* ... and then disabling it, or not.                                      *)
Rearm ==
  /\ pc = "rearm"
  /\ ReAdd(who, [tm[who] EXCEPT !.disabled = @ \/ dialog = "stopall"], "idle")
  /\ dialog' = "none" /\ who' = NoTimer /\ then' = "idle"
  /\ UNCHANGED <<clockVars, tl, file>>

(* cleanup of the done entries.                                            *)
cleanup ==
  LET kept == {w \in processed : tm[w].disabled} IN
  /\ Ready /\ processed' = kept
  /\ tm' = [w \in Timer |-> IF w \in processed \ kept THEN Blank ELSE tm[w]]
  /\ UNCHANGED <<clockVars, tl, list, pc, then, who, dialog, file>>

-----------------------------------------------------------------------------
(* Restart.                                                                *)

InitialPause == IF now < ClockSet /\ MaxWaitTime > ShortWait THEN ShortWait ELSE MaxWaitTime

(* The program ends, after a last save or by a crash, and starts again.    *)
Restart ==
  /\ \/ pc = "idle" /\ file' = Saved(tm)
     \/ UNCHANGED file
  /\ list' = <<>> /\ processed' = {} /\ tl' = {} /\ tm' = [w \in Timer |-> Blank]
  /\ last' = now /\ wait' = InitialPause /\ jumped' = FALSE
  /\ pc' = "load" /\ then' = "load" /\ who' = NoTimer /\ dialog' = "none"
  /\ UNCHANGED <<now, jumps>>

(* loadTimer, entry by entry.                                              *)
Load ==
  LET left == {w \in Timer : file[w].saved} \ Known IN
  /\ pc = "load"
  /\ IF left = {}
     THEN pc' = "idle" /\ then' = "idle" /\ UNCHANGED <<list, processed, tm>>
     ELSE \E w \in left :
            /\ addTimerEntry(w, New(file[w].begin, file[w].end, file[w].repeated,
                                    file[w].disabled), list, processed, FALSE, "load")
            /\ UNCHANGED then
  /\ UNCHANGED <<clockVars, tl, who, dialog, file>>

-----------------------------------------------------------------------------
Init ==
  /\ now = 0 /\ last = 0 /\ wait = InitialPause /\ jumped = FALSE /\ jumps = 0
  /\ list = <<>> /\ processed = {} /\ tl = {} /\ tm = [w \in Timer |-> Blank]
  /\ pc = "idle" /\ then = "idle" /\ who = NoTimer /\ dialog = "none"
  /\ file = [w \in Timer |-> NotSaved]

Loop == calcNextActivation \/ Reevaluate \/ Activate \/ Finish

Next ==
  \/ Loop \/ Fire \/ Tick \/ \E t \in Warps : Warp(t)
  \/ \E w \in Timer, l \in Leads, d \in Lengths :
       record(w, now + l, now + l + d) \/ keyGo(w, now + l, now + l + d)
  \/ \E w \in Timer : removeEntry(w) \/ toggleDisabledState(w)
  \/ Save \/ Forget \/ finishedEdit \/ Answer \/ StopNow \/ Rearm \/ cleanup
  \/ Restart \/ Load

Spec == Init /\ [][Next]_vars

(* The main loop goes on with what it has begun.                           *)
FairSpec == Spec /\ WF_vars(Loop \/ Save \/ Forget \/ StopNow \/ Rearm \/ Load)

-----------------------------------------------------------------------------
(* Properties.                                                             *)

(* Every entry is in one place: listed, once, while it is to do, and among *)
(* the processed ones when it has ended.                                   *)
EntryPlaced ==
  /\ \A i, j \in DOMAIN list : list[i] = list[j] => i = j
  /\ Listed \cap processed = {}
  /\ \A w \in Timer : tm[w].state = "ended" <=> w \notin Listed

(* A record service is held exactly by the entries that are prepared or    *)
(* recording: whatever is retried, edited, disabled, stopped or removed,   *)
(* no tuner stays reserved and none is given up early.                     *)
ServiceHeld ==
  \A w \in Timer : tm[w].svc # "none" <=> w \notin Zap /\ tm[w].state \in {"prepared", "running"}

(* Unless the clock was set in between, the eTimer fires no later than the *)
(* first entry becomes due, whichever that is after edits and retries.     *)
WakesInTime ==
  pc = "idle" /\ dialog # "edited" /\ ~jumped =>
    \A w \in Listed : wait = 0 \/ now + wait <= Key(tm[w])

(* removeEntry ("now the timer should be in the processed_timers list")    *)
(* and runningEventCallback find the entry in the list they take it from.  *)
RemovalFinds ==
  /\ pc = "forget" => who \in processed
  /\ pc = "stop" => who \in Listed

(* No restart loses an entry: all of them are in timers.xml.               *)
EntriesSaved == pc = "idle" => \A w \in Known : file[w].saved

(* A recording is stopped at its end, by the user or by a restart: never   *)
(* by another entry, an edit of its own, or a change of the clock.         *)
RecordsToTheEnd ==
  [][\A w \in Timer : tm[w].state = "running" /\ tm'[w].state # "running" =>
       tm[w].end <= now \/ pc = "stop" \/ pc' = "load"]_vars

(* calcNextActivation returns: no entry is activated for ever.             *)
Settles == pc \in {"calc", "revive", "loop"} ~> pc \notin {"calc", "revive", "loop"}
=============================================================================
