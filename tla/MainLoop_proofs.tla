--------------------------- MODULE MainLoop_proofs ---------------------------
(***************************************************************************)
(* No two notifiers for one descriptor, and no event for another file, for *)
(* any number of notifiers, timers and descriptors.                        *)
(***************************************************************************)
EXTENDS MainLoop, SequenceTheorems, TLAPS

(* Only a notifier whose callback runs outlives its last owner, its own    *)
(* event is off the list then, no callback runs while the loop polls, and  *)
(* a descriptor on the list that was reopened has no notifier that was in  *)
(* the poll.                                                               *)
IInv ==
  /\ state \in [Notifier -> 0 .. 2]
  /\ DOMAIN fd = Notifier
  /\ held \subseteq Notifier
  /\ reopened \subseteq todo
  /\ todo # {} => pc = "dispatch"
  /\ pc = "poll" => called = NoOne
  /\ called \in Notifier => fd[called] \notin todo
  /\ \A n \in Notifier : state[n] # 0 /\ n \notin held => called = n
  /\ \A n \in Notifier : state[n] = 1 => fd[n] \notin reopened
  /\ OnePerFd

LEMMA InitInv == Init => IInv
BY DEF Init, IInv, OnePerFd

(* A step that leaves the notifiers and the descriptors alone.             *)
LEMMA Elsewhere ==
  ASSUME IInv, UNCHANGED <<notifiers, reopened, todo, called>>, pc' = pc
  PROVE  IInv'
BY DEF IInv, notifiers, OnePerFd

LEMMA UseKeeps ==
  ASSUME IInv, Use
  PROVE  IInv'
<1> USE LoopAssumption DEF IInv
<1>1. ASSUME NEW t \in Timer, StopTimer(t) \/ \E d \in Delay, s \in BOOLEAN : StartTimer(t, d, s)
      PROVE  IInv'
  BY <1>1, Elsewhere DEF StopTimer, StartTimer, files, loop
<1>2. ASSUME NEW n \in Notifier, StartNotifier(n)
      PROVE  IInv'
  <2>1. /\ state' = [m \in Notifier |-> IF m = n THEN 2 ELSE IF m \in LetGo THEN 0 ELSE state[m]]
        /\ UNCHANGED <<fd, held, reopened, todo, called, pc>>
        /\ n \in held /\ OnFd(fd[n]) \cap held \subseteq {n}
    BY <1>2 DEF StartNotifier, files, loop
  <2>2. \A m \in Notifier : m # n /\ state'[m] # 0 => state[m] # 0 /\ m \in held
    BY <2>1 DEF LetGo
  <2>3. \A m \in Notifier : m # n /\ state'[m] # 0 => fd[m] # fd[n]
    BY <2>1, <2>2 DEF OnFd
  <2>4. OnePerFd'
    BY <2>1, <2>2, <2>3 DEF OnePerFd
  <2>5. state' \in [Notifier -> 0 .. 2]
    BY <2>1
  <2>6. \A m \in Notifier : state'[m] = 1 => state[m] = 1
    BY <2>1
  <2> QED
    BY <2>1, <2>2, <2>4, <2>5, <2>6
<1>3. ASSUME NEW n \in Notifier, StopNotifier(n)
      PROVE  IInv'
  BY <1>3 DEF StopNotifier, files, loop, OnePerFd
<1>4. ASSUME NEW n \in Notifier, Release(n)
      PROVE  IInv'
  <2>1. UNCHANGED <<reopened, todo, called, pc>> /\ held' = held \ {n}
    BY <1>4 DEF Release, files, loop
  <2>2. CASE n = called
    BY <1>4, <2>1, <2>2 DEF Release, OnePerFd
  <2>3. CASE n # called
    <3>1. /\ state' = [m \in Notifier |-> IF m \in {n} THEN 0 ELSE state[m]]
          /\ fd' = [m \in Notifier |-> IF m \in {n} THEN 0 ELSE fd[m]]
      BY <1>4, <2>3 DEF Release, Gone
    <3> QED
      BY <2>1, <2>3, <3>1 DEF OnePerFd
  <2> QED
    BY <2>2, <2>3
<1>5. ASSUME NEW n \in Notifier, NEW f \in Fd, Create(n, f)
      PROVE  IInv'
  BY <1>5 DEF Create, files, loop, OnePerFd
<1>6. ASSUME NEW f \in Fd, Reopen(f)
      PROVE  IInv'
  <2>1. /\ UNCHANGED <<state, fd, held, todo, called, pc>>
        /\ reopened' = reopened \cup (todo \cap {f})
        /\ OnFd(f) \cap held = {}
    BY <1>6 DEF Reopen, notifiers, loop
  <2>2. \A n \in Notifier : state[n] = 1 /\ fd[n] = f => f \notin todo
    BY <2>1 DEF OnFd
  <2> QED
    BY <2>1, <2>2 DEF OnePerFd
<1>7. ASSUME NEW f \in Fd, ReadAll(f)
      PROVE  IInv'
  BY <1>7, Elsewhere DEF ReadAll, loop
<1>8. CASE InterruptPoll
  BY <1>8, Elsewhere DEF InterruptPoll, files
<1> QED
  BY <1>1, <1>2, <1>3, <1>4, <1>5, <1>6, <1>7, <1>8 DEF Use

LEMMA LoopKeeps ==
  ASSUME IInv, Step \/ PollReturns
  PROVE  IInv'
<1> USE LoopAssumption DEF IInv
<1>1. CASE Iterate
  BY <1>1 DEF Iterate, notifiers, files, OnePerFd
<1>2. CASE FireTimer
  <2>1. /\ todo = {} /\ called = NoOne /\ pc = "timers"
        /\ UNCHANGED <<notifiers, reopened, todo, pc>>
    BY <1>2 DEF FireTimer, files
  <2>2. \A n \in Notifier : state[n] # 0 => n \in held
    BY <2>1
  <2> QED
    BY <2>1, <2>2 DEF notifiers, OnePerFd
<1>3. CASE TimersDone
  BY <1>3 DEF TimersDone, notifiers, files, OnePerFd
<1>4. CASE PollReturns
  <2>1. /\ state' = [n \in Notifier |-> IF state[n] # 0 THEN 1 ELSE 0]
        /\ UNCHANGED <<fd, held, reopened, called>>
        /\ pc = "poll" /\ pc' = "dispatch" /\ todo = {} /\ reopened = {}
        /\ called = NoOne
    BY <1>4 DEF PollReturns, files
  <2>2. called \in Notifier => fd[called] \notin todo'
    BY <2>1
  <2> QED
    BY <2>1, <2>2 DEF OnePerFd
<1>5. CASE Dispatch
  <2> DEFINE f == CHOOSE x \in todo : \A y \in todo : x <= y
  <2>1. /\ todo' = todo \ {f} /\ reopened' = reopened \ {f} /\ called = NoOne
        /\ called' = IF Called(f) # {} THEN CHOOSE n \in Called(f) : TRUE ELSE NoOne
        /\ UNCHANGED <<state, fd, held, pc>> /\ pc = "dispatch"
    BY <1>5 DEF Dispatch, notifiers
  <2>2. called' \in Called(f) \/ called' = NoOne
    BY <2>1
  <2>3. called' \in Notifier => fd[called'] = f
    BY <2>2 DEF Called, OnFd
  <2>4. \A n \in Notifier : state[n] # 0 => n \in held
    BY <2>1
  <2>5. todo' # {} => pc' = "dispatch"
    BY <2>1
  <2>6. reopened' \subseteq todo'
    BY <2>1
  <2> HIDE DEF f
  <2> QED
    BY <2>1, <2>3, <2>4, <2>5, <2>6 DEF OnePerFd
<1>6. CASE Return
  <2>1. /\ called' = NoOne /\ UNCHANGED <<held, reopened, todo, pc>>
        /\ state' = [n \in Notifier |->
                       IF n \in ({called} \cap Notifier) \ held THEN 0 ELSE state[n]]
        /\ fd' = [n \in Notifier |->
                    IF n \in ({called} \cap Notifier) \ held THEN 0 ELSE fd[n]]
    BY <1>6 DEF Return, Gone, files
  <2>2. \A n \in Notifier : state'[n] # 0 => state'[n] = state[n] /\ fd'[n] = fd[n] /\ n \in held
    BY <2>1
  <2>3. state' \in [Notifier -> 0 .. 2] /\ DOMAIN fd' = Notifier
    BY <2>1
  <2> QED
    BY <2>1, <2>2, <2>3 DEF OnePerFd
<1>7. CASE RoundEnds
  BY <1>7 DEF RoundEnds, notifiers, files, OnePerFd
<1> QED
  BY <1>1, <1>2, <1>3, <1>4, <1>5, <1>6, <1>7 DEF Step

LEMMA NextInv == IInv /\ [Next]_vars => IInv'
<1> SUFFICES ASSUME IInv, [Next]_vars PROVE IInv'
  OBVIOUS
<1>1. CASE UNCHANGED vars
  BY <1>1, Elsewhere DEF vars, files, loop
<1>2. CASE Tick
  BY <1>2, Elsewhere DEF Tick, files
<1>3. ASSUME NEW i \in BOOLEAN, Call(i)
      PROVE  IInv'
  BY <1>3 DEF Call, IInv, notifiers, files, OnePerFd
<1>4. ASSUME NEW f \in Fd, Arrive(f)
      PROVE  IInv'
  BY <1>4, Elsewhere DEF Arrive, loop
<1> QED
  BY <1>1, <1>2, <1>3, <1>4, UseKeeps, LoopKeeps DEF Next

LEMMA Invariance == Spec => []IInv
BY InitInv, NextInv, PTL DEF Spec

(* The assertion of addSocketNotifier holds.                               *)
THEOREM LoopOnePerFd == Spec => []OnePerFd
<1>1. IInv => OnePerFd
  BY DEF IInv
<1> QED
  BY <1>1, Invariance, PTL

(* An event poll() reported for one file is never given to the owner of    *)
(* another that got the same number since.                                 *)
THEOREM LoopNoStaleEvent == Spec => NoStaleEvent
<1>1. IInv => (Dispatch /\ called' # NoOne => fd[called'] \notin reopened)
  BY DEF IInv, Dispatch, Called, OnFd
<1> QED
  BY <1>1, Invariance, PTL DEF NoStaleEvent


-----------------------------------------------------------------------------
(***************************************************************************)
(* The list of timers.  Exact: it holds the timers A, once each.           *)
(***************************************************************************)
Exact(L, A) ==
  /\ L \in Seq(Timer)
  /\ \A t : t \in A <=> \E i \in 1 .. Len(L) : L[i] = t
  /\ \A i, j \in 1 .. Len(L) : L[i] = L[j] => i = j

Sorted(L, next) == \A i, j \in 1 .. Len(L) : i < j => next[L[i]] <= next[L[j]]

(* M is L with t at the place p.                                           *)
Opened(L, M, t, p) ==
  /\ M \in Seq(Timer) /\ Len(M) = Len(L) + 1 /\ p \in 1 .. Len(M)
  /\ \A i \in 1 .. Len(M) : M[i] = IF i < p THEN L[i] ELSE IF i = p THEN t ELSE L[i - 1]

(* M is L without what stands at the place p.                              *)
Closed(L, M, p) ==
  /\ M \in Seq(Timer) /\ Len(M) = Len(L) - 1 /\ p \in 1 .. Len(L)
  /\ \A i \in 1 .. Len(M) : M[i] = IF i < p THEN L[i] ELSE L[i + 1]

(* The parts of a list in front of and behind a place.                     *)
LEMMA Parts ==
  ASSUME NEW L \in Seq(Timer), NEW m \in Int, NEW n \in Int, 1 <= m, m <= n + 1, n <= Len(L)
  PROVE  /\ SubSeq(L, m, n) \in Seq(Timer) /\ Len(SubSeq(L, m, n)) = n - m + 1
         /\ \A i \in 1 .. n - m + 1 : SubSeq(L, m, n)[i] = L[m + i - 1]
<1>1. \A i \in m .. n : L[i] \in Timer
  OBVIOUS
<1> QED
  BY <1>1, SubSeqProperties, SMT

LEMMA InsertOpens ==
  ASSUME NEW L \in Seq(Timer), NEW t \in Timer, NEW p \in 1 .. Len(L) + 1
  PROVE  Opened(L, InsertAt(L, p, t), t, p)
<1> DEFINE A == SubSeq(L, 1, p - 1)  C == SubSeq(L, p, Len(L))
           D == A \o <<t>>           M == D \o C
<1>0. Len(L) \in Nat
  OBVIOUS
<1>1. A \in Seq(Timer) /\ Len(A) = p - 1 /\ \A i \in 1 .. p - 1 : A[i] = L[i]
  BY <1>0, Parts
<1>2. /\ C \in Seq(Timer) /\ Len(C) = Len(L) - p + 1
      /\ \A i \in 1 .. Len(L) - p + 1 : C[i] = L[p + i - 1]
  BY <1>0, Parts
<1> HIDE DEF A, C
<1>3. D \in Seq(Timer) /\ Len(D) = p /\ \A i \in 1 .. p : D[i] = IF i < p THEN L[i] ELSE t
  BY <1>0, <1>1
<1> HIDE DEF D
<1>4. /\ M \in Seq(Timer) /\ Len(M) = Len(L) + 1
      /\ \A i \in 1 .. Len(L) + 1 : M[i] = IF i <= p THEN D[i] ELSE C[i - p]
  <2>1. /\ M \in Seq(Timer) /\ Len(M) = Len(D) + Len(C)
        /\ \A i \in 1 .. Len(D) + Len(C) : M[i] = IF i <= Len(D) THEN D[i] ELSE C[i - Len(D)]
    BY <1>2, <1>3, ConcatProperties, Zenon
  <2> HIDE DEF M
  <2> QED
    BY <1>0, <1>2, <1>3, <2>1
<1>5. M = InsertAt(L, p, t)
  BY Zenon DEF A, C, D, M, InsertAt
<1> HIDE DEF M
<1>6. ASSUME NEW i \in 1 .. Len(L) + 1
      PROVE  M[i] = IF i < p THEN L[i] ELSE IF i = p THEN t ELSE L[i - 1]
  <2>1. CASE i <= p
    BY <1>0, <1>3, <1>4, <2>1
  <2>2. CASE i > p
    <3>1. M[i] = C[i - p] /\ i - p \in 1 .. Len(L) - p + 1
      BY <1>0, <1>4, <2>2
    <3>2. C[i - p] = L[i - 1]
      BY <1>0, <1>2, <3>1
    <3> QED
      BY <1>0, <2>2, <3>1, <3>2
  <2> QED
    BY <1>0, <2>1, <2>2
<1> QED
  BY <1>0, <1>4, <1>5, <1>6 DEF Opened

LEMMA RemoveCloses ==
  ASSUME NEW L \in Seq(Timer), NEW p \in 1 .. Len(L)
  PROVE  Closed(L, RemoveAt(L, p), p)
<1> DEFINE A == SubSeq(L, 1, p - 1)  C == SubSeq(L, p + 1, Len(L))  M == A \o C
<1>0. Len(L) \in Nat
  OBVIOUS
<1>1. A \in Seq(Timer) /\ Len(A) = p - 1 /\ \A i \in 1 .. p - 1 : A[i] = L[i]
  BY <1>0, Parts
<1>2. /\ C \in Seq(Timer) /\ Len(C) = Len(L) - p
      /\ \A i \in 1 .. Len(L) - p : C[i] = L[p + i]
  <2>1. /\ C \in Seq(Timer) /\ Len(C) = Len(L) - (p + 1) + 1
        /\ \A i \in 1 .. Len(L) - (p + 1) + 1 : C[i] = L[p + 1 + i - 1]
    BY <1>0, Parts
  <2> HIDE DEF C
  <2> QED
    BY <1>0, <2>1
<1> HIDE DEF A, C
<1>3. /\ M \in Seq(Timer) /\ Len(M) = Len(L) - 1
      /\ \A i \in 1 .. Len(L) - 1 : M[i] = IF i < p THEN A[i] ELSE C[i - (p - 1)]
  <2>1. /\ M \in Seq(Timer) /\ Len(M) = Len(A) + Len(C)
        /\ \A i \in 1 .. Len(A) + Len(C) : M[i] = IF i <= Len(A) THEN A[i] ELSE C[i - Len(A)]
    BY <1>1, <1>2, ConcatProperties, Zenon
  <2> HIDE DEF M
  <2>2. Len(A) + Len(C) = Len(L) - 1 /\ p - 1 \in Nat
    BY <1>0, <1>1, <1>2
  <2>3. \A i \in 1 .. Len(L) - 1 : M[i] = IF i <= p - 1 THEN A[i] ELSE C[i - (p - 1)]
    BY <1>1, <2>1, <2>2
  <2> QED
    BY <1>0, <2>1, <2>2, <2>3
<1>4. M = RemoveAt(L, p)
  BY Zenon DEF A, C, M, RemoveAt
<1> HIDE DEF M
<1>5. ASSUME NEW i \in 1 .. Len(L) - 1
      PROVE  M[i] = IF i < p THEN L[i] ELSE L[i + 1]
  <2>1. CASE i < p
    BY <1>0, <1>1, <1>3, <2>1
  <2>2. CASE i >= p
    <3>1. M[i] = C[i - (p - 1)] /\ i - (p - 1) \in 1 .. Len(L) - p
      BY <1>0, <1>3, <2>2
    <3>2. C[i - (p - 1)] = L[i + 1]
      BY <1>0, <1>2, <3>1
    <3> QED
      BY <1>0, <2>2, <3>1, <3>2
  <2> QED
    BY <1>0, <2>1, <2>2
<1> QED
  BY <1>0, <1>3, <1>4, <1>5 DEF Closed

(* One timer less.                                                         *)
LEMMA ClosedIs ==
  ASSUME NEW L, NEW M, NEW A, NEW p, NEW next, Exact(L, A), Closed(L, M, p)
  PROVE  /\ Exact(M, A \ {L[p]})
         /\ next \in [Timer -> Int] /\ Sorted(L, next) => Sorted(M, next)
<1> DEFINE Old(k) == IF k < p THEN k ELSE k + 1
<1>0. /\ L \in Seq(Timer) /\ M \in Seq(Timer) /\ Len(M) = Len(L) - 1 /\ p \in 1 .. Len(L)
      /\ Len(L) \in Nat
  BY DEF Closed, Exact
<1>1. \A i \in 1 .. Len(M) : M[i] = L[Old(i)] /\ Old(i) \in 1 .. Len(L) /\ Old(i) # p
  BY <1>0 DEF Closed
<1>2. \A i, j \in 1 .. Len(M) : (Old(i) = Old(j) => i = j) /\ (i < j => Old(i) < Old(j))
  BY <1>0
<1>3. ASSUME NEW k \in 1 .. Len(L), k # p PROVE \E i \in 1 .. Len(M) : Old(i) = k
  <2>1. CASE k < p
    <3>1. k \in 1 .. Len(M) /\ Old(k) = k
      BY <1>0, <2>1
    <3> QED
      BY <3>1
  <2>2. CASE k > p
    <3>1. k - 1 \in 1 .. Len(M) /\ Old(k - 1) = k
      BY <1>0, <2>2
    <3> QED
      BY <3>1
  <2> QED
    BY <1>0, <1>3, <2>1, <2>2
<1> HIDE DEF Old
<1>4. \A i, j \in 1 .. Len(L) : L[i] = L[j] => i = j
  BY DEF Exact
<1>5. ASSUME NEW t
      PROVE  t \in A \ {L[p]} <=> \E i \in 1 .. Len(M) : M[i] = t
  <2>1. ASSUME t \in A \ {L[p]} PROVE \E i \in 1 .. Len(M) : M[i] = t
    <3>1. PICK k \in 1 .. Len(L) : L[k] = t
      BY <2>1 DEF Exact
    <3> QED
      BY <1>1, <1>3, <2>1, <3>1
  <2>2. ASSUME NEW i \in 1 .. Len(M), M[i] = t PROVE t \in A \ {L[p]}
    <3>1. t = L[Old(i)] /\ Old(i) \in 1 .. Len(L) /\ Old(i) # p
      BY <1>1, <2>2
    <3>2. t # L[p]
      BY <1>0, <1>4, <3>1
    <3> QED
      BY <3>1, <3>2 DEF Exact
  <2> QED
    BY <2>1, <2>2
<1>6. \A i, j \in 1 .. Len(M) : M[i] = M[j] => i = j
  BY <1>1, <1>2, <1>4
<1>7. Exact(M, A \ {L[p]})
  BY <1>0, <1>5, <1>6, Zenon DEF Exact
<1>8. Sorted(L, next) => Sorted(M, next)
  BY <1>1, <1>2 DEF Sorted
<1> QED
  BY <1>7, <1>8


LEMMA TailIs ==
  ASSUME NEW L, L # <<>>, NEW A, NEW next \in [Timer -> Int], Exact(L, A), Sorted(L, next)
  PROVE  Exact(Tail(L), A \ {Head(L)}) /\ Sorted(Tail(L), next) /\ Head(L) \in A
<1>1. L \in Seq(Timer) /\ Len(L) \in Nat /\ Len(L) > 0 /\ L[1] = Head(L)
  BY DEF Exact
<1>2. Closed(L, Tail(L), 1)
  BY <1>1 DEF Closed
<1>3. Exact(Tail(L), A \ {L[1]}) /\ Sorted(Tail(L), next)
  BY <1>2, ClosedIs
<1>4. Head(L) \in A
  BY <1>1 DEF Exact
<1> QED
  BY <1>1, <1>3, <1>4

LEMMA WithoutIs ==
  ASSUME NEW L, NEW A, NEW t, NEW next \in [Timer -> Int], Exact(L, A), Sorted(L, next)
  PROVE  Exact(Without(L, t), A \ {t}) /\ Sorted(Without(L, t), next)
<1>0. L \in Seq(Timer) /\ DOMAIN L = 1 .. Len(L) /\ (t \in ToSet(L) <=> t \in A)
  BY DEF Exact, ToSet
<1>1. CASE t \notin A
  <2>1. Without(L, t) = L /\ A \ {t} = A
    BY <1>0, <1>1 DEF Without
  <2> QED
    BY <2>1
<1>2. CASE t \in A
  <2> DEFINE p == CHOOSE p \in DOMAIN L : L[p] = t
  <2>1. p \in 1 .. Len(L) /\ L[p] = t
    BY <1>0, <1>2 DEF Exact
  <2>2. Without(L, t) = RemoveAt(L, p)
    BY <1>0, <1>2 DEF Without
  <2> HIDE DEF p
  <2>3. Closed(L, Without(L, t), p)
    BY <1>0, <2>1, <2>2, RemoveCloses
  <2> QED
    BY <2>1, <2>3, ClosedIs
<1> QED
  BY <1>1, <1>2

(* One timer more, in its place.                                           *)
LEMMA InsertIs ==
  ASSUME NEW L, NEW A, NEW t \in Timer, t \notin A, NEW next \in [Timer -> Int],
         Exact(L, A), Sorted(L, next), NEW M \in InsertInOrder(L, t, next)
  PROVE  Exact(M, A \cup {t}) /\ Sorted(M, next)
<1>0. L \in Seq(Timer) /\ Len(L) \in Nat
  BY DEF Exact
<1>1. PICK p \in 1 .. Len(L) + 1 :
        /\ M = InsertAt(L, p, t)
        /\ p > 1 => next[L[p - 1]] < next[t]
        /\ p <= Len(L) => next[t] <= next[L[p]]
  BY DEF InsertInOrder
<1>2. /\ M \in Seq(Timer) /\ Len(M) = Len(L) + 1 /\ p \in 1 .. Len(M)
      /\ \A i \in 1 .. Len(M) : M[i] = IF i < p THEN L[i] ELSE IF i = p THEN t ELSE L[i - 1]
  BY <1>0, <1>1, InsertOpens DEF Opened
<1> DEFINE Old(k) == IF k < p THEN k ELSE k - 1
<1>3. \A i \in 1 .. Len(M) : i # p => M[i] = L[Old(i)] /\ Old(i) \in 1 .. Len(L)
  BY <1>0, <1>2
<1>4. \A i, j \in 1 .. Len(M) :
        /\ i # p /\ j # p /\ i < j => Old(i) < Old(j)
        /\ i < p => Old(i) <= p - 1
        /\ i > p => p <= Old(i)
  BY <1>0, <1>2
<1>5. ASSUME NEW k \in 1 .. Len(L) PROVE \E i \in 1 .. Len(M) : i # p /\ Old(i) = k
  <2>1. CASE k < p
    <3>1. k \in 1 .. Len(M) /\ Old(k) = k /\ k # p
      BY <1>0, <1>2, <2>1
    <3> QED
      BY <3>1
  <2>2. CASE k >= p
    <3>1. k + 1 \in 1 .. Len(M) /\ Old(k + 1) = k /\ k + 1 # p
      BY <1>0, <1>2, <2>2
    <3> QED
      BY <3>1
  <2> QED
    BY <1>0, <2>1, <2>2
<1> HIDE DEF Old
<1>6. M[p] = t
  BY <1>0, <1>2
<1>7. \A i, j \in 1 .. Len(L) : L[i] = L[j] => i = j
  BY DEF Exact
<1>8. ASSUME NEW u PROVE u \in A \cup {t} <=> \E i \in 1 .. Len(M) : M[i] = u
  <2>1. ASSUME u \in A PROVE \E i \in 1 .. Len(M) : M[i] = u
    <3>1. PICK k \in 1 .. Len(L) : L[k] = u
      BY <2>1 DEF Exact
    <3> QED
      BY <1>3, <1>5, <3>1
  <2>2. ASSUME NEW i \in 1 .. Len(M), i # p, M[i] = u PROVE u \in A
    BY <1>3, <2>2 DEF Exact
  <2> QED
    BY <1>2, <1>6, <2>1, <2>2
<1>9. \A i \in 1 .. Len(M) : i # p => M[i] # t
  BY <1>3 DEF Exact
<1>10. ASSUME NEW i \in 1 .. Len(M), NEW j \in 1 .. Len(M), M[i] = M[j] PROVE i = j
  <2>1. CASE i # p /\ j # p
    <3>1. Old(i) = Old(j) /\ Old(i) \in Int /\ Old(j) \in Int
      BY <1>3, <1>7, <1>10, <2>1
    <3>2. ~(i < j) /\ ~(j < i)
      BY <1>4, <2>1, <3>1
    <3> QED
      BY <3>2
  <2>2. CASE i = p \/ j = p
    BY <1>6, <1>9, <1>10, <2>2
  <2> QED
    BY <2>1, <2>2
<1>11. Exact(M, A \cup {t})
  BY <1>2, <1>8, <1>10, Zenon DEF Exact
<1>12. \A k \in 1 .. Len(L) : L[k] \in Timer /\ next[L[k]] \in Int
  BY <1>0
<1>13. \A i, j \in 1 .. Len(L) : i <= j => next[L[i]] <= next[L[j]]
  <2>1. \A i, j \in 1 .. Len(L) : i = j => next[L[i]] <= next[L[j]]
    BY <1>12
  <2> QED
    BY <1>0, <2>1 DEF Sorted
<1>14. next[t] \in Int
  OBVIOUS
<1>15. ASSUME NEW i \in 1 .. Len(M), NEW j \in 1 .. Len(M), i < j
       PROVE  next[M[i]] <= next[M[j]]
  <2>1. CASE i # p /\ j # p
    <3>1. Old(i) <= Old(j) /\ Old(i) \in 1 .. Len(L) /\ Old(j) \in 1 .. Len(L)
      BY <1>3, <1>4, <1>15, <2>1
    <3> QED
      BY <1>3, <1>13, <2>1, <3>1
  <2>2. CASE i = p
    <3>1. p <= Old(j) /\ Old(j) \in 1 .. Len(L) /\ p \in 1 .. Len(L) /\ M[j] = L[Old(j)]
      BY <1>0, <1>3, <1>4, <1>15, <2>2
    <3>2. next[t] <= next[L[p]] /\ next[L[p]] <= next[L[Old(j)]]
      BY <1>1, <1>13, <3>1
    <3> QED
      BY <1>6, <1>12, <1>14, <2>2, <3>1, <3>2
  <2>3. CASE j = p
    <3>1. /\ Old(i) <= p - 1 /\ Old(i) \in 1 .. Len(L) /\ p - 1 \in 1 .. Len(L) /\ p > 1
          /\ M[i] = L[Old(i)]
      BY <1>0, <1>2, <1>3, <1>4, <1>15, <2>3
    <3>2. next[L[p - 1]] < next[t] /\ next[L[Old(i)]] <= next[L[p - 1]]
      BY <1>1, <1>13, <3>1
    <3> QED
      BY <1>6, <1>12, <1>14, <2>3, <3>1, <3>2
  <2> QED
    BY <2>1, <2>2, <2>3
<1> QED
  BY <1>11, <1>15 DEF Sorted


(* The times of timers that are not in the list do not matter.             *)
LEMMA SortedElsewhere ==
  ASSUME NEW L, NEW A, NEW t, t \notin A, NEW next \in [Timer -> Int], NEW x,
         Exact(L, A), Sorted(L, next)
  PROVE  Sorted(L, [next EXCEPT ![t] = x])
<1>1. \A i \in 1 .. Len(L) : L[i] \in Timer /\ L[i] # t
  BY DEF Exact
<1> QED
  BY <1>1 DEF Sorted

TimerInv ==
  /\ active \subseteq Timer /\ Exact(list, active)
  /\ left \in [Timer -> Int] /\ interval \in [Timer -> Int] /\ lag \in Int
  /\ Sorted(list, left)

LEMMA TimerInit == Init => TimerInv
BY DEF Init, TimerInv, Exact, Sorted

LEMMA StartKeepsList ==
  ASSUME TimerInv, NEW t \in Timer, NEW d \in Delay, NEW s \in BOOLEAN, StartTimer(t, d, s)
  PROVE  TimerInv'
<1>1. d \in Int
  BY LoopAssumption
<1> DEFINE x == IF pc = "timers" /\ d + lag <= 0 THEN 1 ELSE d
<1>2. /\ left' = [left EXCEPT ![t] = x] /\ x \in Int
      /\ interval' = [interval EXCEPT ![t] = IF s THEN 0 ELSE d]
      /\ active' = active \cup {t} /\ lag' = lag
      /\ list' \in InsertInOrder(Without(list, t), t, left')
  BY <1>1 DEF StartTimer, loop
<1> HIDE DEF x
<1>3. left' \in [Timer -> Int] /\ interval' \in [Timer -> Int]
  BY <1>1, <1>2 DEF TimerInv
<1>4. Exact(Without(list, t), active \ {t}) /\ Sorted(Without(list, t), left)
  BY WithoutIs DEF TimerInv
<1>5. Sorted(Without(list, t), left')
  BY <1>2, <1>4, SortedElsewhere DEF TimerInv
<1>6. Exact(list', (active \ {t}) \cup {t}) /\ Sorted(list', left')
  BY <1>2, <1>3, <1>4, <1>5, InsertIs
<1>7. (active \ {t}) \cup {t} = active'
  BY <1>2
<1> QED
  BY <1>2, <1>3, <1>6, <1>7 DEF TimerInv

LEMMA StopKeepsList ==
  ASSUME TimerInv, NEW t \in Timer, StopTimer(t)
  PROVE  TimerInv'
<1>1. /\ active' = active \ {t} /\ list' = Without(list, t) /\ lag' = lag
      /\ left' = [left EXCEPT ![t] = 0] /\ interval' = [interval EXCEPT ![t] = 0]
  BY DEF StopTimer, loop
<1>2. Exact(list', active') /\ Sorted(list', left)
  BY <1>1, WithoutIs DEF TimerInv
<1>3. Sorted(list', left')
  BY <1>1, <1>2, SortedElsewhere DEF TimerInv
<1> QED
  BY <1>1, <1>2, <1>3 DEF TimerInv

LEMMA FireKeepsList ==
  ASSUME TimerInv, FireTimer
  PROVE  TimerInv'
<1> DEFINE t == Head(list)  next == [left EXCEPT ![t] = @ + interval[t]]
<1>1. /\ list # <<>> /\ lag' = lag /\ interval' = interval
      /\ \/ /\ active' = active \ {t} /\ list' = Tail(list)
            /\ left' = [left EXCEPT ![t] = 0]
         \/ /\ active' = active /\ left' = next
            /\ list' \in InsertInOrder(Tail(list), t, left')
  BY DEF FireTimer
<1>2. t \in active /\ Exact(Tail(list), active \ {t}) /\ Sorted(Tail(list), left)
  BY <1>1, TailIs DEF TimerInv
<1> HIDE DEF t
<1>3. t \in Timer
  BY <1>2 DEF TimerInv
<1> HIDE DEF next
<1>4. CASE active' = active \ {t} /\ list' = Tail(list) /\ left' = [left EXCEPT ![t] = 0]
  <2>1. Sorted(list', left')
    BY <1>2, <1>4, SortedElsewhere DEF TimerInv
  <2> QED
    BY <1>1, <1>2, <1>4, <2>1 DEF TimerInv
<1>5. CASE active' = active /\ left' = next /\ list' \in InsertInOrder(Tail(list), t, left')
  <2>0. left[t] + interval[t] \in Int /\ next = [left EXCEPT ![t] = left[t] + interval[t]]
    BY <1>3 DEF TimerInv, next
  <2>1. left' \in [Timer -> Int]
    BY <1>5, <2>0 DEF TimerInv
  <2>2. Sorted(Tail(list), left')
    BY <1>2, <1>3, <1>5, <2>0, SortedElsewhere DEF TimerInv
  <2>3. Exact(list', (active \ {t}) \cup {t}) /\ Sorted(list', left')
    BY <1>2, <1>3, <1>5, <2>1, <2>2, InsertIs
  <2>4. (active \ {t}) \cup {t} = active'
    BY <1>2, <1>5
  <2> QED
    BY <1>1, <1>5, <2>1, <2>3, <2>4 DEF TimerInv
<1> QED
  BY <1>1, <1>4, <1>5

LEMMA TickKeepsList ==
  ASSUME TimerInv, Tick
  PROVE  TimerInv'
<1>1. /\ left' = [t \in Timer |-> IF t \in active THEN left[t] - 1 ELSE 0]
      /\ lag' = IF pc = "timers" THEN lag + 1 ELSE lag
      /\ UNCHANGED <<list, active, interval>>
  BY DEF Tick
<1>2. \A i \in 1 .. Len(list) : list[i] \in active /\ left'[list[i]] = left[list[i]] - 1
                                /\ left[list[i]] \in Int
  BY <1>1 DEF TimerInv, Exact
<1>3. Sorted(list', left')
  BY <1>1, <1>2 DEF TimerInv, Sorted
<1> QED
  BY <1>1, <1>3 DEF TimerInv

LEMMA TimerStep == TimerInv /\ [Next]_vars => TimerInv'
<1> SUFFICES ASSUME TimerInv, [Next]_vars PROVE TimerInv'
  OBVIOUS
<1>1. ASSUME UNCHANGED timers, lag' \in Int PROVE TimerInv'
  BY <1>1 DEF TimerInv, timers, Exact, Sorted
<1>2. CASE UNCHANGED vars
  BY <1>1, <1>2 DEF vars, loop, TimerInv
<1>3. CASE Use
  <2>1. ASSUME NEW n \in Notifier,
               StartNotifier(n) \/ StopNotifier(n) \/ Release(n) \/ \E f \in Fd : Create(n, f)
        PROVE  UNCHANGED <<timers, lag>>
    BY <2>1 DEF StartNotifier, StopNotifier, Release, Create, loop
  <2>2. ASSUME NEW f \in Fd, Reopen(f) \/ ReadAll(f) PROVE UNCHANGED <<timers, lag>>
    BY <2>2 DEF Reopen, ReadAll, loop
  <2>3. CASE InterruptPoll
    BY <1>1, <2>3 DEF InterruptPoll, TimerInv
  <2> QED
    BY <1>1, <1>3, <2>1, <2>2, <2>3, StartKeepsList, StopKeepsList DEF Use, TimerInv
<1>4. CASE Step \/ PollReturns \/ \E i \in BOOLEAN : Call(i)
  <2>1. CASE Iterate \/ TimersDone
    BY <1>1, <2>1 DEF Iterate, TimersDone
  <2>2. CASE PollReturns \/ Dispatch \/ Return \/ RoundEnds \/ \E i \in BOOLEAN : Call(i)
    BY <1>1, <2>2 DEF PollReturns, Dispatch, Return, RoundEnds, Call, TimerInv
  <2> QED
    BY <1>4, <2>1, <2>2, FireKeepsList DEF Step
<1>5. CASE Tick \/ \E f \in Fd : Arrive(f)
  BY <1>1, <1>5, TickKeepsList DEF Arrive, loop, TimerInv
<1> QED
  BY <1>2, <1>3, <1>4, <1>5 DEF Next

LEMMA TimerInvariance == Spec => []TimerInv
BY TimerInit, TimerStep, PTL DEF Spec

(* When the loop polls, no running timer is due that was not when its      *)
(* round began, whatever the callbacks started and stopped on the way, and *)
(* the list holds exactly the running timers: for any number of them.      *)
THEOREM NoTimerLeftBehind == Spec => NoneLeftBehind
<1>1. TimerInv => ListExact
  <2> SUFFICES ASSUME TimerInv PROVE ListExact
    OBVIOUS
  <2>1. Exact(list, active)
    BY DEF TimerInv
  <2>2. Len(list) \in Nat /\ DOMAIN list = 1 .. Len(list)
    BY <2>1 DEF Exact
  <2> QED
    BY <2>1, <2>2 DEF Exact, ListExact
<1>2. TimerInv => (TimersDone => \A t \in active : ~Due(t))
  <2> SUFFICES ASSUME TimerInv, TimersDone, NEW t \in active PROVE ~Due(t)
    OBVIOUS
  <2>1. list \in Seq(Timer) /\ Len(list) \in Nat
    BY DEF TimerInv, Exact
  <2>2. PICK i \in 1 .. Len(list) : list[i] = t
    BY DEF TimerInv, Exact
  <2>3. list # <<>> /\ Head(list) = list[1] /\ list[1] \in Timer /\ 1 \in 1 .. Len(list)
    BY <2>1, <2>2
  <2>4. left[list[1]] <= left[t] /\ left[list[1]] \in Int /\ left[t] \in Int /\ lag \in Int
    <3>1. t \in Timer
      BY DEF TimerInv
    <3>2. CASE i = 1
      BY <2>2, <3>1, <3>2 DEF TimerInv
    <3>3. CASE 1 < i
      BY <2>2, <2>3, <3>1, <3>3 DEF TimerInv, Sorted
    <3> QED
      BY <2>2, <3>2, <3>3
  <2>5. left[list[1]] + lag > 0
    BY <2>3, <2>4 DEF TimersDone, Due
  <2> QED
    BY <2>4, <2>5 DEF Due
<1> QED
  BY <1>1, <1>2, TimerInvariance, PTL DEF NoneLeftBehind
=============================================================================
