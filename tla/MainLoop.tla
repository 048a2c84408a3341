------------------------------ MODULE MainLoop ------------------------------
(***************************************************************************)
(* eMainloop, eTimer and eSocketNotifier (lib/base/ebase.cpp): one round   *)
(* runs the timers that are due, polls, and calls the notifiers whose file *)
(* descriptors are ready.  The callbacks start and stop timers and         *)
(* notifiers, let go of notifiers, and close and open files, so that a     *)
(* number comes back for another file.  Between rounds the Python reactor  *)
(* may run (e2reactor.py), and its code may do the same.                   *)
(*                                                                         *)
(* Times are relative: left[t] is how far the next activation is ahead.    *)
(* What is not read before it is set again (the times of a timer that does *)
(* not run, the number of a notifier that is gone) is set to one value.    *)
(***************************************************************************)
EXTENDS Integers, SequencesExt

CONSTANTS
  Notifier, Timer,
  NoOne,
  Fd,        (* file descriptors, numbers: poll() lists them in this order *)
  Delay,     (* what timers are started with                               *)
  MaxLate,   (* bound on how late a timer, or a round of timers, is        *)
  Programs   (* what the code uses: sets of timers and notifiers           *)

ASSUME LoopAssumption ==
  /\ Fd \subseteq Nat /\ Delay \subseteq Nat /\ MaxLate \in Nat
  /\ NoOne \notin Notifier \cup Timer
  /\ Programs \subseteq SUBSET (Notifier \cup Timer)

VARIABLES
  uses,       (* what this code uses                                       *)
  pc,         (* where the loop is                                         *)
  called,     (* the timer or notifier whose callback runs                 *)
  interrupt,  (* m_interrupt_requested                                     *)
  list,       (* m_timer_list                                              *)
  active, single, interval, left,   (* of each timer                       *)
  lag,        (* how long ago this round's now was read                    *)
  fd,         (* of each notifier                                          *)
  state,      (* of each notifier: 0 stopped, 1 in poll, 2 started since   *)
  held,       (* the notifiers somebody has a reference to                 *)
  ready,      (* descriptors with something to report                      *)
  todo,       (* descriptors poll() reported and that are not looked at    *)
  reopened    (* history: those of todo that were closed and opened again  *)

timers    == <<list, active, single, interval, left>>
notifiers == <<fd, state, held>>
files     == <<ready, reopened>>
loop      == <<pc, called, interrupt, lag, todo>>
vars      == <<uses, timers, notifiers, files, loop>>

Init ==
  /\ uses \in Programs
  /\ pc = "reactor" /\ called = NoOne /\ interrupt = FALSE /\ lag = 0 /\ todo = {}
  /\ list = <<>> /\ active = {}
  /\ single = [t \in Timer |-> FALSE] /\ interval = [t \in Timer |-> 0]
  /\ left = [t \in Timer |-> 0]
  /\ fd = [n \in Notifier |-> 0] /\ state = [n \in Notifier |-> 0] /\ held = {}
  /\ ready = {} /\ reopened = {}

-----------------------------------------------------------------------------
(* What callbacks, and the reactor between rounds, may do.                 *)
Running == called # NoOne \/ pc = "reactor"

InsertInOrder_Last(seq, t, next) == {Append(seq, t)}

(* insert_in_order puts a timer where std::lower_bound finds its place, in *)
(* front of those that are due with it: one place when seq is sorted.      *)
InsertInOrder(seq, t, next) ==
  LET place(p) == /\ p > 1 => next[seq[p - 1]] < next[t]
                  /\ p <= Len(seq) => next[t] <= next[seq[p]]
  IN {InsertAt(seq, p, t) : p \in {q \in 1 .. Len(seq) + 1 : place(q)}}

Without(seq, t) ==
  IF t \in ToSet(seq) THEN RemoveAt(seq, CHOOSE p \in DOMAIN seq : seq[p] = t) ELSE seq

(* start() stops a running timer.  It reads the clock, which is later than *)
(* the now of this round.                                                  *)
StartTimer(t, d, s) ==
  /\ Running /\ t \in uses
  /\ s \/ d > 0
  /\ left' = [left EXCEPT ![t] = IF pc = "timers" /\ d + lag <= 0 THEN 1 ELSE d]
  /\ list' \in InsertInOrder(Without(list, t), t, left')
  /\ active' = active \cup {t}
  /\ single' = [single EXCEPT ![t] = s] /\ interval' = [interval EXCEPT ![t] = IF s THEN 0 ELSE d]
  /\ UNCHANGED <<notifiers, files, loop>>

StopTimer(t) ==
  /\ Running /\ t \in active
  /\ active' = active \ {t}
  /\ list' = Without(list, t)
  /\ left' = [left EXCEPT ![t] = 0]
  /\ single' = [single EXCEPT ![t] = FALSE] /\ interval' = [interval EXCEPT ![t] = 0]
  /\ UNCHANGED <<notifiers, files, loop>>

(* A new notifier, in place of one that is gone.                           *)
Create(n, f) ==
  /\ Running /\ n \in uses \ held /\ state[n] = 0 /\ called # n
  /\ fd' = [fd EXCEPT ![n] = f] /\ held' = held \cup {n}
  /\ UNCHANGED <<state, timers, files, loop>>

OnFd(f) == {n \in Notifier : state[n] # 0 /\ fd[n] = f}

Gone(gone) ==
  /\ state' = [n \in Notifier |-> IF n \in gone THEN 0 ELSE state[n]]
  /\ fd' = [n \in Notifier |-> IF n \in gone THEN 0 ELSE fd[n]]

LetGo_Never == {}

(* addSocketNotifier: a notifier whose callback runs and that nobody holds *)
(* will be destroyed, so it is stopped before another is added.            *)
LetGo == {n \in {called} \cap Notifier : n \notin held}

(* Owners start a notifier when no other watches its file for them.        *)
StartNotifier(n) ==
  /\ Running /\ n \in held
  /\ OnFd(fd[n]) \cap held \subseteq {n}
  /\ state' = [m \in Notifier |-> IF m = n THEN 2 ELSE IF m \in LetGo THEN 0 ELSE state[m]]
  /\ UNCHANGED <<fd, held, timers, files, loop>>

StopNotifier(n) ==
  /\ Running /\ n \in held /\ state[n] # 0
  /\ state' = [state EXCEPT ![n] = 0]
  /\ UNCHANGED <<fd, held, timers, files, loop>>

(* The last reference goes; the destructor stops it, if it is not kept     *)
(* while its callback runs.                                                *)
Release(n) ==
  /\ Running /\ n \in held
  /\ held' = held \ {n}
  /\ IF n = called THEN UNCHANGED <<state, fd>> ELSE Gone({n})
  /\ UNCHANGED <<timers, files, loop>>

(* Owners close a file after they stopped its notifier or let go of it.    *)
Reopen(f) ==
  /\ Running /\ OnFd(f) \cap held = {}
  /\ ready' = ready \ {f} /\ reopened' = reopened \cup (todo \cap {f})
  /\ UNCHANGED <<timers, notifiers, loop>>

ReadAll(f) ==
  /\ Running /\ f \in ready
  /\ ready' = ready \ {f}
  /\ UNCHANGED <<timers, notifiers, reopened, loop>>

InterruptPoll ==
  /\ called # NoOne /\ ~interrupt
  /\ interrupt' = TRUE
  /\ UNCHANGED <<timers, notifiers, files, pc, called, lag, todo>>

Use ==
  \/ \E t \in Timer : StopTimer(t) \/ \E d \in Delay, s \in BOOLEAN : StartTimer(t, d, s)
  \/ \E n \in Notifier : StartNotifier(n) \/ StopNotifier(n) \/ Release(n)
                         \/ \E f \in Fd : Create(n, f)
  \/ \E f \in Fd : Reopen(f) \/ ReadAll(f)
  \/ InterruptPoll

-----------------------------------------------------------------------------
(* The loop.                                                               *)

(* The reactor calls poll(), perhaps after callLater, which interrupts it. *)
Call(i) ==
  /\ pc = "reactor" /\ pc' = "iterate"
  /\ interrupt' = (interrupt \/ i)
  /\ UNCHANGED <<timers, notifiers, files, called, lag, todo>>

(* A round of iterate(), unless it was interrupted.                        *)
Iterate ==
  /\ pc = "iterate"
  /\ pc' = IF interrupt THEN "reactor" ELSE "timers"
  /\ interrupt' = FALSE /\ lag' = 0
  /\ UNCHANGED <<timers, notifiers, files, called, todo>>

Due(t) == left[t] + lag <= 0

(* The first timer, if it is due, is taken out of the list and called; a   *)
(* periodic one goes back with its next time.                              *)
FireTimer ==
  /\ pc = "timers" /\ called = NoOne /\ list # <<>> /\ Due(Head(list))
  /\ LET t == Head(list)
     IN /\ called' = t
        /\ IF single[t]
           THEN /\ active' = active \ {t} /\ list' = Tail(list)
                /\ left' = [left EXCEPT ![t] = 0] /\ single' = [single EXCEPT ![t] = FALSE]
           ELSE /\ left' = [left EXCEPT ![t] = @ + interval[t]]
                /\ list' \in InsertInOrder(Tail(list), t, left')
                /\ UNCHANGED <<active, single>>
  /\ UNCHANGED <<interval, notifiers, files, pc, interrupt, lag, todo>>

TimersDone ==
  /\ pc = "timers" /\ called = NoOne /\ (list # <<>> => ~Due(Head(list)))
  /\ pc' = "poll" /\ lag' = 0
  /\ UNCHANGED <<timers, notifiers, files, called, interrupt, todo>>

Reported == {f \in ready : OnFd(f) # {}}

PollReturns_OnlyOld ==
  /\ pc = "poll"
  /\ todo' = Reported
  /\ pc' = "dispatch"
  /\ UNCHANGED <<timers, notifiers, files, called, interrupt, lag>>

(* poll() sees all the notifiers that run.  It returns when one of them    *)
(* is ready or the first timer is due, or for a signal, or early.          *)
PollReturns ==
  /\ pc = "poll"
  /\ state' = [n \in Notifier |-> IF state[n] # 0 THEN 1 ELSE 0]
  /\ todo' = Reported
  /\ pc' = "dispatch"
  /\ UNCHANGED <<timers, fd, held, files, called, interrupt, lag>>
Woken == Reported # {} \/ (list # <<>> /\ left[Head(list)] <= 0)

Called_AnyState(f) == OnFd(f)

(* Of those the ones are called that were in this poll.                    *)
Called(f) == {n \in OnFd(f) : state[n] = 1}

Dispatch ==
  /\ pc = "dispatch" /\ called = NoOne /\ todo # {}
  /\ LET f == CHOOSE x \in todo : \A y \in todo : x <= y
     IN /\ todo' = todo \ {f} /\ reopened' = reopened \ {f}
        /\ called' = IF Called(f) # {} THEN CHOOSE n \in Called(f) : TRUE ELSE NoOne
  /\ UNCHANGED <<timers, notifiers, ready, pc, interrupt, lag>>

(* The end of a callback, and of a notifier nobody holds.                  *)
Return ==
  /\ called # NoOne
  /\ called' = NoOne
  /\ Gone(({called} \cap Notifier) \ held)
  /\ UNCHANGED <<timers, held, files, pc, interrupt, lag, todo>>

(* The next round, or the reactor: after a signal, at its own timeout, or  *)
(* when its own descriptors are ready.                                     *)
RoundEnds ==
  /\ pc = "dispatch" /\ called = NoOne /\ todo = {}
  /\ pc' \in {"iterate", "reactor"}
  /\ UNCHANGED <<timers, notifiers, files, called, interrupt, lag, todo>>

Step == Iterate \/ FireTimer \/ TimersDone \/ (Woken /\ PollReturns) \/ Dispatch \/ Return
          \/ RoundEnds

-----------------------------------------------------------------------------
(* Data arrives and time passes.                                           *)
Arrive(f) ==
  /\ f \notin ready
  /\ ready' = ready \cup {f}
  /\ UNCHANGED <<timers, notifiers, reopened, loop>>

Tick ==
  /\ \A t \in active : left[t] > -MaxLate
  /\ pc = "timers" => lag < MaxLate
  /\ left' = [t \in Timer |-> IF t \in active THEN left[t] - 1 ELSE 0]
  /\ lag' = IF pc = "timers" THEN lag + 1 ELSE lag
  /\ UNCHANGED <<list, active, single, interval, notifiers, files, pc, called, interrupt, todo>>

Next ==
  /\ \/ Use \/ Step \/ PollReturns \/ Tick
     \/ \E i \in BOOLEAN : Call(i)
     \/ \E f \in Fd : Arrive(f)
  /\ UNCHANGED uses

(* Callbacks and poll() return; the reactor calls the loop, and not always *)
(* with an interrupt.                                                      *)
Fairness ==
  /\ WF_vars(Step /\ UNCHANGED uses)
  /\ SF_vars(Call(FALSE) /\ UNCHANGED uses)

Spec == Init /\ [][Next]_vars /\ Fairness

-----------------------------------------------------------------------------
(* ASSERT(notifiers.find(fd) == notifiers.end()) of addSocketNotifier: the *)
(* loop never has two notifiers for a descriptor, also when a callback let *)
(* go of its own notifier and starts another for the same number.          *)
OnePerFd == \A n, m \in Notifier : state[n] # 0 /\ state[m] # 0 /\ fd[n] = fd[m] => n = m

(* The list holds the timers that run, once each.                          *)
ListExact ==
  /\ {list[i] : i \in DOMAIN list} = active
  /\ \A i, j \in DOMAIN list : list[i] = list[j] => i = j

(* No timer that is due when a round begins is left behind when it polls,  *)
(* whatever the callbacks have started and stopped on the way; the timers  *)
(* that run are in the list, once each.                                    *)
NoneLeftBehind ==
  /\ []ListExact
  /\ [][TimersDone => \A t \in active : ~Due(t)]_vars

(* An event is not given to the owner of another file: a callback may      *)
(* close a file poll() reported and open one that gets the same number.    *)
NoStaleEvent == [][Dispatch /\ called' # NoOne => fd[called'] \notin reopened]_vars

(* While its file stays ready, a notifier that was started gets into the   *)
(* poll, and one that was in the poll is called, unless it is stopped or   *)
(* started again (which callbacks may do before its turn in every round).  *)
Served ==
  \A n \in Notifier, s \in {1, 2} :
    state[n] = s /\ fd[n] \in ready ~> called = n \/ state[n] # s \/ fd[n] \notin ready
=============================================================================
