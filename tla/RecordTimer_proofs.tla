-------------------------- MODULE RecordTimer_proofs --------------------------
(***************************************************************************)
(* The recording timers, for any number of entries, any times and any      *)
(* faults.                                                                 *)
(***************************************************************************)
EXTENDS RecordTimer, SequenceTheorems, TLAPS

(***************************************************************************)
(* timer_list as a sequence.                                               *)
(***************************************************************************)
Distinct(L) == \A i, j \in DOMAIN L : L[i] = L[j] => i = j

(* M is L with one more entry w at the place p.                            *)
Opened(L, M, w, p) ==
  /\ M \in Seq(Timer) /\ Len(M) = Len(L) + 1 /\ p \in 1 .. Len(M)
  /\ \A i \in 1 .. Len(M) : M[i] = IF i < p THEN L[i] ELSE IF i = p THEN w ELSE L[i - 1]

LEMMA InsertOpens ==
  ASSUME NEW L \in Seq(Timer), NEW w \in Timer, NEW p \in 1 .. Len(L) + 1
  PROVE  Opened(L, InsertAt(L, p, w), w, p)
<1> DEFINE A == SubSeq(L, 1, p - 1)  B == <<w>>  C == SubSeq(L, p, Len(L))
<1>0. Len(L) \in Nat /\ \A i \in 1 .. Len(L) : L[i] \in Timer
  OBVIOUS
<1>1. /\ A \in Seq(Timer) /\ Len(A) = p - 1
      /\ \A i \in 1 .. p - 1 : A[i] = L[i]
  <2>1. \A i \in 1 .. p - 1 : L[i] \in Timer
    BY <1>0
  <2> QED
    BY <1>0, <2>1, SubSeqProperties, SMT
<1>2. /\ C \in Seq(Timer) /\ Len(C) = Len(L) - p + 1
      /\ \A i \in 1 .. Len(L) - p + 1 : C[i] = L[p + i - 1]
  <2>1. \A i \in p .. Len(L) : L[i] \in Timer
    BY <1>0
  <2> QED
    BY <1>0, <2>1, SubSeqProperties, SMT
<1>3. B \in Seq(Timer) /\ Len(B) = 1 /\ B[1] = w
  OBVIOUS
<1> HIDE DEF A, B, C
<1>4. /\ A \o B \in Seq(Timer) /\ Len(A \o B) = p
      /\ \A i \in 1 .. p : (A \o B)[i] = IF i <= p - 1 THEN A[i] ELSE B[i - (p - 1)]
  <2>1. /\ A \o B \in Seq(Timer) /\ Len(A \o B) = Len(A) + Len(B)
        /\ \A i \in 1 .. Len(A) + Len(B) :
             (A \o B)[i] = IF i <= Len(A) THEN A[i] ELSE B[i - Len(A)]
    BY <1>1, <1>3, ConcatProperties, Zenon
  <2> QED
    BY <1>0, <1>1, <1>3, <2>1
<1> DEFINE D == A \o B
<1> HIDE DEF D
<1>5. /\ D \o C \in Seq(Timer) /\ Len(D \o C) = Len(L) + 1
      /\ \A i \in 1 .. Len(L) + 1 : (D \o C)[i] = IF i <= p THEN D[i] ELSE C[i - p]
  <2>1. D \in Seq(Timer) /\ Len(D) = p
    BY <1>4 DEF D
  <2>2. /\ D \o C \in Seq(Timer) /\ Len(D \o C) = Len(D) + Len(C)
        /\ \A i \in 1 .. Len(D) + Len(C) :
             (D \o C)[i] = IF i <= Len(D) THEN D[i] ELSE C[i - Len(D)]
    BY <1>2, <2>1, ConcatProperties, Zenon
  <2> QED
    BY <1>0, <1>2, <2>1, <2>2
<1>6. D \o C = InsertAt(L, p, w)
  BY Zenon DEF A, B, C, D, InsertAt
<1>7. \A i \in 1 .. Len(L) + 1 :
        (D \o C)[i] = IF i < p THEN L[i] ELSE IF i = p THEN w ELSE L[i - 1]
  <2> SUFFICES ASSUME NEW i \in 1 .. Len(L) + 1
               PROVE  (D \o C)[i] = IF i < p THEN L[i] ELSE IF i = p THEN w ELSE L[i - 1]
    OBVIOUS
  <2>0. i <= p \/ i > p
    BY <1>0
  <2>1. CASE i <= p
    BY <1>0, <1>1, <1>3, <1>4, <1>5, <2>1 DEF D
  <2>2. CASE i > p
    <3>1. (D \o C)[i] = C[i - p] /\ i - p \in 1 .. Len(L) - p + 1
      BY <1>0, <1>5, <2>2
    <3>2. C[i - p] = L[i - 1]
      BY <1>0, <1>2, <3>1
    <3> QED
      BY <1>0, <2>2, <3>1, <3>2
  <2> QED
    BY <2>0, <2>1, <2>2, Zenon
<1> QED
  BY <1>0, <1>5, <1>6, <1>7 DEF Opened

(* M is L without what stands at the place p.                              *)
Closed(L, M, p) ==
  /\ M \in Seq(Timer) /\ Len(M) = Len(L) - 1 /\ p \in 1 .. Len(L)
  /\ \A i \in 1 .. Len(M) : M[i] = IF i < p THEN L[i] ELSE L[i + 1]

LEMMA RemoveCloses ==
  ASSUME NEW L \in Seq(Timer), NEW p \in 1 .. Len(L)
  PROVE  Closed(L, RemoveAt(L, p), p)
<1> DEFINE A == SubSeq(L, 1, p - 1)  C == SubSeq(L, p + 1, Len(L))
<1>0. Len(L) \in Nat /\ \A i \in 1 .. Len(L) : L[i] \in Timer
  OBVIOUS
<1>1. /\ A \in Seq(Timer) /\ Len(A) = p - 1
      /\ \A i \in 1 .. p - 1 : A[i] = L[i]
  <2>1. \A i \in 1 .. p - 1 : L[i] \in Timer
    BY <1>0
  <2> QED
    BY <1>0, <2>1, SubSeqProperties, SMT
<1>2. /\ C \in Seq(Timer) /\ Len(C) = Len(L) - p
      /\ \A i \in 1 .. Len(L) - p : C[i] = L[p + i]
  <2>1. \A i \in p + 1 .. Len(L) : L[i] \in Timer
    BY <1>0
  <2> QED
    BY <1>0, <2>1, SubSeqProperties, SMT
<1> HIDE DEF A, C
<1>3. /\ A \o C \in Seq(Timer) /\ Len(A \o C) = Len(L) - 1
      /\ \A i \in 1 .. Len(L) - 1 : (A \o C)[i] = IF i <= p - 1 THEN A[i] ELSE C[i - (p - 1)]
  <2>1. /\ A \o C \in Seq(Timer) /\ Len(A \o C) = Len(A) + Len(C)
        /\ \A i \in 1 .. Len(A) + Len(C) :
             (A \o C)[i] = IF i <= Len(A) THEN A[i] ELSE C[i - Len(A)]
    BY <1>1, <1>2, ConcatProperties, Zenon
  <2> QED
    BY <1>0, <1>1, <1>2, <2>1
<1>4. A \o C = RemoveAt(L, p)
  BY Zenon DEF A, C, RemoveAt
<1>5. \A i \in 1 .. Len(L) - 1 : (A \o C)[i] = IF i < p THEN L[i] ELSE L[i + 1]
  <2> SUFFICES ASSUME NEW i \in 1 .. Len(L) - 1
               PROVE  (A \o C)[i] = IF i < p THEN L[i] ELSE L[i + 1]
    OBVIOUS
  <2>0. i < p \/ i >= p
    BY <1>0
  <2>1. CASE i < p
    BY <1>0, <1>1, <1>3, <2>1
  <2>2. CASE i >= p
    <3>1. (A \o C)[i] = C[i - (p - 1)] /\ i - (p - 1) \in 1 .. Len(L) - p
      BY <1>0, <1>3, <2>2
    <3>2. C[i - (p - 1)] = L[i + 1]
      BY <1>0, <1>2, <3>1
    <3> QED
      BY <1>0, <2>2, <3>1, <3>2
  <2> QED
    BY <2>0, <2>1, <2>2, Zenon
<1> QED
  BY <1>0, <1>3, <1>4, <1>5 DEF Closed

(* The entries of a list.                                                  *)
LEMMA ToSetIs ==
  ASSUME NEW L \in Seq(Timer)
  PROVE  /\ ToSet(L) \subseteq Timer
         /\ \A x : x \in ToSet(L) <=> \E i \in 1 .. Len(L) : L[i] = x
BY DEF ToSet

LEMMA OpenedSet ==
  ASSUME NEW L \in Seq(Timer), NEW M, NEW w \in Timer, NEW p, Opened(L, M, w, p)
  PROVE  /\ ToSet(M) = ToSet(L) \cup {w}
         /\ Distinct(L) /\ w \notin ToSet(L) => Distinct(M)
<1>0. /\ Len(L) \in Nat /\ M \in Seq(Timer) /\ Len(M) = Len(L) + 1 /\ p \in 1 .. Len(M)
      /\ DOMAIN L = 1 .. Len(L) /\ DOMAIN M = 1 .. Len(M)
  BY DEF Opened
<1>1. \A i \in 1 .. Len(M) : M[i] = IF i < p THEN L[i] ELSE IF i = p THEN w ELSE L[i - 1]
  BY DEF Opened
<1>2. ASSUME NEW i \in 1 .. Len(M) PROVE M[i] \in ToSet(L) \cup {w}
  <2>1. CASE i < p
    BY <1>0, <1>1, <2>1, ToSetIs
  <2>2. CASE i = p
    BY <1>0, <1>1, <2>2
  <2>3. CASE i > p
    <3>1. i - 1 \in 1 .. Len(L) /\ M[i] = L[i - 1]
      BY <1>0, <1>1, <2>3
    <3> QED
      BY <3>1, ToSetIs
  <2> QED
    BY <1>0, <2>1, <2>2, <2>3
<1>3. ASSUME NEW i \in 1 .. Len(L) PROVE L[i] \in ToSet(M)
  <2>1. CASE i < p
    <3>1. i \in 1 .. Len(M) /\ M[i] = L[i]
      BY <1>0, <1>1, <2>1
    <3> QED
      BY <1>0, <3>1, ToSetIs
  <2>2. CASE i >= p
    <3>1. i + 1 \in 1 .. Len(M) /\ M[i + 1] = L[i]
      BY <1>0, <1>1, <2>2
    <3> QED
      BY <1>0, <3>1, ToSetIs
  <2> QED
    BY <1>0, <2>1, <2>2
<1>4. w \in ToSet(M)
  BY <1>0, <1>1, ToSetIs
<1>5. ToSet(M) = ToSet(L) \cup {w}
  BY <1>0, <1>2, <1>3, <1>4, ToSetIs
<1>6. ASSUME Distinct(L), w \notin ToSet(L),
             NEW i \in 1 .. Len(M), NEW j \in 1 .. Len(M), M[i] = M[j], i < j
      PROVE  FALSE
  <2> DEFINE Old(k) == IF k < p THEN k ELSE k - 1
  <2>1. \A k \in 1 .. Len(M) : k # p => Old(k) \in 1 .. Len(L) /\ M[k] = L[Old(k)]
    BY <1>0, <1>1
  <2>2. \A k \in 1 .. Len(M) : k # p => M[k] # w
    BY <1>6, <2>1, ToSetIs
  <2>3. M[p] = w
    BY <1>0, <1>1
  <2>4. i # p /\ j # p
    BY <1>0, <1>6, <2>2, <2>3
  <2>5. Old(i) # Old(j)
    BY <1>0, <1>6, <2>4
  <2>6. Old(i) \in DOMAIN L /\ Old(j) \in DOMAIN L /\ L[Old(i)] = L[Old(j)]
    BY <1>0, <1>6, <2>1, <2>4
  <2> QED
    BY <1>6, <2>5, <2>6 DEF Distinct
<1>7. Distinct(L) /\ w \notin ToSet(L) => Distinct(M)
  <2> SUFFICES ASSUME Distinct(L), w \notin ToSet(L),
                      NEW i \in 1 .. Len(M), NEW j \in 1 .. Len(M), M[i] = M[j]
               PROVE  i = j
    BY <1>0 DEF Distinct
  <2>1. ~(i < j)
    BY <1>6
  <2>2. ~(j < i)
    BY <1>6
  <2> QED
    BY <1>0, <2>1, <2>2
<1> QED
  BY <1>5, <1>7

LEMMA ClosedSet ==
  ASSUME NEW L \in Seq(Timer), NEW M, NEW p, Closed(L, M, p), Distinct(L)
  PROVE  ToSet(M) = ToSet(L) \ {L[p]} /\ Distinct(M)
<1>0. /\ Len(L) \in Nat /\ M \in Seq(Timer) /\ Len(M) = Len(L) - 1 /\ p \in 1 .. Len(L)
      /\ DOMAIN L = 1 .. Len(L) /\ DOMAIN M = 1 .. Len(M)
  BY DEF Closed
<1> DEFINE Old(k) == IF k < p THEN k ELSE k + 1
<1>1. \A i \in 1 .. Len(M) : M[i] = L[Old(i)] /\ Old(i) \in 1 .. Len(L) /\ Old(i) # p
  <2>1. \A i \in 1 .. Len(M) : M[i] = IF i < p THEN L[i] ELSE L[i + 1]
    BY DEF Closed
  <2> QED
    BY <1>0, <2>1
<1>2. \A i, j \in 1 .. Len(M) : Old(i) = Old(j) => i = j
  BY <1>0
<1>3. \A k \in 1 .. Len(L) : k # p => \E i \in 1 .. Len(M) : Old(i) = k
  <2> SUFFICES ASSUME NEW k \in 1 .. Len(L), k # p
               PROVE  \E i \in 1 .. Len(M) : Old(i) = k
    OBVIOUS
  <2>1. CASE k < p
    <3>1. k \in 1 .. Len(M) /\ Old(k) = k
      BY <1>0, <2>1
    <3> QED
      BY <3>1
  <2>2. CASE k > p
    <3>1. k - 1 \in 1 .. Len(M) /\ Old(k - 1) = k
      BY <1>0, <2>2
    <3> QED
      BY <3>1
  <2> QED
    BY <1>0, <2>1, <2>2
<1> HIDE DEF Old
<1>4. \A i, j \in 1 .. Len(L) : L[i] = L[j] => i = j
  BY <1>0 DEF Distinct
<1>5. Distinct(M)
  BY <1>0, <1>1, <1>2, <1>4 DEF Distinct
<1>6. ASSUME NEW x \in ToSet(M) PROVE x \in ToSet(L) /\ x # L[p]
  <2>1. PICK i \in 1 .. Len(M) : M[i] = x
    BY <1>0, ToSetIs
  <2>2. L[Old(i)] = x /\ Old(i) \in 1 .. Len(L) /\ Old(i) # p
    BY <1>1, <2>1
  <2>3. x # L[p]
    BY <1>0, <1>4, <2>2
  <2> QED
    BY <2>2, <2>3, ToSetIs
<1>7. ASSUME NEW x \in ToSet(L), x # L[p] PROVE x \in ToSet(M)
  <2>1. PICK k \in 1 .. Len(L) : L[k] = x
    BY ToSetIs
  <2>2. PICK i \in 1 .. Len(M) : Old(i) = k
    BY <1>3, <1>7, <2>1
  <2>3. M[i] = x
    BY <1>1, <2>1, <2>2
  <2> QED
    BY <1>0, <2>3, ToSetIs
<1> QED
  BY <1>5, <1>6, <1>7

LEMMA WithoutSet ==
  ASSUME NEW L \in Seq(Timer), Distinct(L), NEW w \in Timer
  PROVE  /\ Without(L, w) \in Seq(Timer) /\ Distinct(Without(L, w))
         /\ ToSet(Without(L, w)) = ToSet(L) \ {w}
<1>1. CASE w \notin ToSet(L)
  BY <1>1 DEF Without
<1>2. CASE w \in ToSet(L)
  <2> DEFINE p == CHOOSE p \in DOMAIN L : L[p] = w
  <2>1. p \in 1 .. Len(L) /\ L[p] = w
    BY <1>2 DEF ToSet
  <2>2. Without(L, w) = RemoveAt(L, p)
    BY <1>2 DEF Without
  <2> HIDE DEF p
  <2>3. Closed(L, Without(L, w), p)
    BY <2>1, <2>2, RemoveCloses
  <2> QED
    BY <2>1, <2>3, ClosedSet DEF Closed
<1> QED
  BY <1>1, <1>2

LEMMA InsortedSet ==
  ASSUME NEW L \in Seq(Timer), NEW w \in Timer, NEW T, NEW M \in Insorted(L, w, T)
  PROVE  /\ M \in Seq(Timer) /\ ToSet(M) = ToSet(L) \cup {w}
         /\ Distinct(L) /\ w \notin ToSet(L) => Distinct(M)
<1>1. PICK p \in 1 .. Len(L) + 1 : M = InsertAt(L, p, w)
  BY DEF Insorted
<1>2. Opened(L, M, w, p)
  BY <1>1, InsertOpens
<1> QED
  BY <1>2, OpenedSet DEF Opened

-----------------------------------------------------------------------------
(***************************************************************************)
(* One entry.                                                              *)
(***************************************************************************)
Held(w, e) == e.svc # "none" <=> w \notin Zap /\ e.state \in {"prepared", "running"}

(* What no scheduling of an entry changes.                                 *)
SameKind(e, f) == f.repeated = e.repeated /\ f.disabled = e.disabled

LEMMA Numbers ==
  /\ Day \in Nat /\ Day > 0 /\ PrepareTime \in Nat /\ Keep \in Nat
  /\ MaxWaitTime \in Nat /\ MaxWaitTime > 0 /\ ShortWait \in Nat /\ ClockSet \in Nat
  /\ Backoffs[1] \in Nat /\ Backoffs[2] \in Nat /\ MaxTime \in Nat /\ MaxJumps \in Nat
BY TimerAssumption DEF TimerAssumption

LEMMA KeyIsInt == ASSUME NEW e \in Entry PROVE Key(e) \in Int
BY DEF Key, Entry

LEMMA TimeChangedIs ==
  ASSUME NEW e \in Entry
  PROVE  /\ timeChanged(e) \in Entry /\ SameKind(e, timeChanged(e))
         /\ timeChanged(e).state = e.state /\ timeChanged(e).svc = e.svc
         /\ timeChanged(e).begin = e.begin /\ timeChanged(e).end = e.end
<1> DEFINE b == e.begin - PrepareTime  f == [e EXCEPT !.prep = b, !.backoff = 0]
<1>1. b \in Int
  BY Numbers DEF Entry
<1>2. timeChanged(e) = f
  BY DEF timeChanged
<1> HIDE DEF b
<1>3. /\ f \in Entry /\ SameKind(e, f) /\ f.state = e.state /\ f.svc = e.svc
      /\ f.begin = e.begin /\ f.end = e.end
  BY <1>1 DEF Entry, SameKind
<1> QED
  BY <1>2, <1>3

(* Whole days bring it behind the time that it is late.                    *)
LEMMA DaysPass ==
  ASSUME NEW d \in Int, NEW n \in Int, d <= n
  PROVE  ((n - d) \div Day) + 1 \in Int /\ d + (((n - d) \div Day) + 1) * Day > n
BY Numbers

LEMMA ProcessRepeatedIs ==
  ASSUME NEW e \in Entry, NEW findRunning \in BOOLEAN, now \in Nat
  PROVE  LET f == processRepeated(e, findRunning) IN
         /\ f \in Entry /\ SameKind(e, f) /\ f.state = e.state /\ f.svc = e.svc
         /\ ~e.repeated => f = e
         /\ e.repeated /\ findRunning => f.end > now
<1> DEFINE due == IF findRunning THEN e.end ELSE e.begin
           k   == IF due > now THEN 0 ELSE ((now - due) \div Day) + 1
           b   == e.begin + k * Day
           n   == e.end + k * Day
           m   == IF n = b THEN n + 1 ELSE n
           g   == [e EXCEPT !.begin = b, !.end = m]
<1>1. e.begin \in Int /\ e.end \in Int /\ due \in Int
  BY DEF Entry
<1>2. k \in Int /\ due + k * Day > now
  <2>1. CASE due > now
    BY <1>1, <2>1, Numbers
  <2>2. CASE due <= now
    <3>1. k = ((now - due) \div Day) + 1
      BY <1>1, <2>2
    <3> HIDE DEF k, due
    <3> QED
      BY <1>1, <2>2, <3>1, DaysPass
  <2> QED
    BY <1>1, <2>1, <2>2
<1>3. b \in Int /\ n \in Int /\ m \in Int /\ (findRunning => m > now)
  <2> HIDE DEF k
  <2>1. k * Day \in Int
    BY <1>2, Numbers
  <2> QED
    BY <1>1, <1>2, <2>1
<1> HIDE DEF b, m
<1>4. /\ g \in Entry /\ SameKind(e, g) /\ g.state = e.state /\ g.svc = e.svc
      /\ g.end = m
  BY <1>3 DEF Entry, SameKind
<1>5. processRepeated(e, findRunning) = IF e.repeated THEN timeChanged(g) ELSE e
  BY DEF processRepeated, b, m
<1> HIDE DEF g
<1> QED
  BY <1>3, <1>4, <1>5, TimeChangedIs DEF SameKind

LEMMA BackoffIs ==
  ASSUME NEW e \in Entry
  PROVE  LET f == do_backoff(e) IN
         /\ f \in Entry /\ SameKind(e, f) /\ f.state = e.state /\ f.svc = e.svc
         /\ f.begin = e.begin /\ f.end = e.end /\ f.backoff \in Nat
<1> DEFINE n == IF e.backoff = 0 THEN Backoffs[1]
                ELSE IF 2 * e.backoff > Backoffs[2] THEN Backoffs[2] ELSE 2 * e.backoff
           f == [e EXCEPT !.backoff = n]
<1>1. n \in Nat
  BY Numbers DEF Entry
<1>2. do_backoff(e) = f
  BY DEF do_backoff
<1> HIDE DEF n
<1>3. /\ f \in Entry /\ SameKind(e, f) /\ f.state = e.state /\ f.svc = e.svc
      /\ f.begin = e.begin /\ f.end = e.end /\ f.backoff \in Nat
  BY <1>1 DEF Entry, SameKind
<1> QED
  BY <1>2, <1>3

(* The entry f is what an activation may have made of the entry e of w.    *)
Advanced(w, e, f) ==
  /\ f \in Entry /\ SameKind(e, f) /\ Held(w, f) /\ f.end = e.end
  /\ e.state = "running" => f.state = "ended"
  /\ Cancelled(w) /\ e.state = "prepared" => f.state = "running" /\ f.begin = e.begin
  /\ e.state # "prepared" => f.begin = e.begin

LEMMA PrepareIs ==
  ASSUME now \in Nat, NEW w \in Timer, NEW e \in Entry, e.state = "waiting", Held(w, e),
         NEW f \in tryPrepare(w, e)
  PROVE  Advanced(w, e, f)
<1> DEFINE b == do_backoff(e)  n == now + b.backoff
<1>1. CASE w \in Zap /\ f = [e EXCEPT !.state = "prepared", !.backoff = 0]
  BY <1>1 DEF Advanced, Entry, State, SameKind, Held
<1>2. CASE f = e
  BY <1>2 DEF Advanced, SameKind
<1>3. CASE w \notin Zap /\ f = [e EXCEPT !.state = "prepared", !.backoff = 0, !.svc = "prepared"]
  BY <1>3 DEF Advanced, Entry, State, SameKind, Held
<1>4. CASE f = [b EXCEPT !.prep = n]
  <2>1. /\ b \in Entry /\ SameKind(e, b) /\ b.state = e.state /\ b.svc = e.svc
        /\ b.begin = e.begin /\ b.end = e.end /\ n \in Int
    BY BackoffIs
  <2> HIDE DEF b, n
  <2> QED
    BY <1>4, <2>1 DEF Advanced, Entry, SameKind, Held
<1> QED
  BY <1>1, <1>2, <1>3, <1>4 DEF tryPrepare

LEMMA StartIs ==
  ASSUME now \in Nat, NEW w \in Timer, NEW e \in Entry, e.state = "prepared", Held(w, e),
         NEW f \in start(w, e)
  PROVE  Advanced(w, e, f)
<1> DEFINE b == do_backoff(e)  n == now + b.backoff
<1>1. CASE f = [e EXCEPT !.state = "running"]
  BY <1>1 DEF Advanced, Entry, State, SameKind, Held
<1>2. CASE ~Cancelled(w) /\ w \notin Zap /\ f = [e EXCEPT !.state = "running", !.svc = "recording"]
  BY <1>2 DEF Advanced, Entry, State, SameKind, Held
<1>3. CASE ~Cancelled(w) /\ f = [b EXCEPT !.begin = n]
  <2>1. /\ b \in Entry /\ SameKind(e, b) /\ b.state = e.state /\ b.svc = e.svc
        /\ b.begin = e.begin /\ b.end = e.end /\ n \in Int
    BY BackoffIs
  <2> HIDE DEF b, n
  <2> QED
    BY <1>3, <2>1 DEF Advanced, Entry, SameKind, Held
<1> QED
  BY <1>1, <1>2, <1>3 DEF start

LEMMA ActivateIs ==
  ASSUME now \in Nat, NEW w \in Timer, tm \in [Timer -> Entry], Held(w, tm[w]),
         NEW f \in activate(w)
  PROVE  Advanced(w, tm[w], f)
<1> DEFINE e == tm[w]
<1>0. e \in Entry /\ e.state \in State /\ Held(w, e)
  BY DEF Entry
<1>1. CASE shouldSkip(e)
  <2>1. f = [e EXCEPT !.state = "ended"] /\ e.state = "waiting"
    BY <1>1 DEF activate, shouldSkip
  <2> HIDE DEF e
  <2>2. Advanced(w, e, f)
    BY <1>0, <2>1 DEF Advanced, Entry, State, SameKind, Held
  <2> QED
    BY <2>2 DEF e
<1>2. CASE ~shouldSkip(e) /\ e.state = "waiting"
  <2>1. f \in tryPrepare(w, e)
    BY <1>2 DEF activate
  <2> QED
    BY <1>0, <1>2, <2>1, PrepareIs
<1>3. CASE e.state = "prepared"
  <2>1. f \in start(w, e)
    BY <1>3 DEF activate, shouldSkip
  <2> QED
    BY <1>0, <1>3, <2>1, StartIs
<1>4. CASE e.state = "running"
  <2>1. f = [e EXCEPT !.state = "ended", !.svc = "none"]
    BY <1>4 DEF activate, shouldSkip, stop
  <2> HIDE DEF e
  <2>2. Advanced(w, e, f)
    BY <1>0, <1>4, <2>1 DEF Advanced, Entry, State, SameKind, Held
  <2> QED
    BY <2>2 DEF e
<1>5. CASE e.state = "ended"
  <2>1. f = e
    BY <1>5 DEF activate, shouldSkip
  <2> QED
    BY <1>0, <1>5, <2>1 DEF Advanced, SameKind
<1> QED
  BY <1>0, <1>1, <1>2, <1>3, <1>4, <1>5 DEF State

-----------------------------------------------------------------------------
(***************************************************************************)
(* Where an entry is put.                                                  *)
(***************************************************************************)
Placed ==
  /\ list \in Seq(Timer) /\ processed \subseteq Timer /\ tm \in [Timer -> Entry]
  /\ Distinct(list) /\ Listed \cap processed = {}
  /\ \A x \in Timer : (tm[x].state = "ended" <=> x \notin Listed) /\ Held(x, tm[x])

(* The lists L and P, from which w was taken, are sound.                   *)
Others(w, L, P) ==
  /\ L \in Seq(Timer) /\ Distinct(L) /\ P \subseteq Timer
  /\ ToSet(L) \cap P = {} /\ w \notin ToSet(L) \cup P
  /\ tm \in [Timer -> Entry]
  /\ \A x \in Timer \ {w} :
       (tm[x].state = "ended" <=> x \notin ToSet(L)) /\ Held(x, tm[x])

(* Another entry is left alone, or is one that has ended and is dropped.   *)
AsBefore(w) ==
  /\ tm' \in [Timer -> Entry]
  /\ \A x \in Timer \ {w} : tm'[x] = tm[x] \/ (tm[x].state = "ended" /\ tm'[x] = Blank)

(* w is put among the done entries, or in its place of the list.           *)
PutAway(w, L, P) ==
  /\ list' = L /\ processed' \subseteq P \cup {w}
  /\ tm'[w].state = "ended" /\ tm'[w].svc = "none"
PutInList(w, L, P) ==
  /\ list' \in Insorted(L, w, tm') /\ processed' \subseteq P
  /\ tm'[w].state # "ended" /\ Held(w, tm'[w])
Put(w, L, P) == AsBefore(w) /\ (PutAway(w, L, P) \/ PutInList(w, L, P))

LEMMA BlankIs == Blank \in Entry /\ Blank.state = "ended" /\ Blank.svc = "none"
BY DEF Blank, Entry, State

LEMMA PutPlaces ==
  ASSUME NEW w \in Timer, NEW L, NEW P, Others(w, L, P), Put(w, L, P)
  PROVE  /\ Placed' /\ Known' \subseteq ToSet(L) \cup P \cup {w}
         /\ ToSet(L) \subseteq Listed'
         /\ PutAway(w, L, P) => Listed' = ToSet(L)
         /\ PutInList(w, L, P) => Listed' = ToSet(L) \cup {w}
<1>0. /\ L \in Seq(Timer) /\ Distinct(L) /\ P \subseteq Timer
      /\ ToSet(L) \cap P = {} /\ w \notin ToSet(L) /\ w \notin P
      /\ \A x \in Timer \ {w} :
           (tm[x].state = "ended" <=> x \notin ToSet(L)) /\ Held(x, tm[x])
  BY DEF Others
<1>1. /\ tm' \in [Timer -> Entry]
      /\ \A x \in Timer \ {w} : tm'[x] = tm[x] \/ (tm[x].state = "ended" /\ tm'[x] = Blank)
  BY DEF Put, AsBefore
<1>2. \A x \in Timer \ {w} : (tm'[x].state = "ended" <=> x \notin ToSet(L)) /\ Held(x, tm'[x])
  BY <1>0, <1>1, BlankIs DEF Held
<1>3. PutAway(w, L, P) => Listed' = ToSet(L)
  BY DEF PutAway, Listed
<1>4. PutInList(w, L, P) => Listed' = ToSet(L) \cup {w} /\ list' \in Seq(Timer) /\ Distinct(list')
  BY <1>0, InsortedSet DEF PutInList, Listed
<1>5. CASE PutAway(w, L, P)
  <2>1. Held(w, tm'[w]) /\ tm'[w].state = "ended" /\ list' = L /\ processed' \subseteq P \cup {w}
    BY <1>5 DEF PutAway, Held
  <2> QED
    BY <1>0, <1>1, <1>2, <1>3, <1>5, <2>1 DEF Placed, Known, PutInList
<1>6. CASE PutInList(w, L, P)
  <2>1. Held(w, tm'[w]) /\ tm'[w].state # "ended" /\ processed' \subseteq P
    BY <1>6 DEF PutInList
  <2> QED
    BY <1>0, <1>1, <1>2, <1>4, <1>6, <2>1 DEF Placed, Known, PutAway
<1> QED
  BY <1>5, <1>6 DEF Put

(* The list is in the order of the activations, apart from x.              *)
OrderedBut(L, T, x) ==
  \A i, j \in DOMAIN L :
    i < j /\ L[i] # x /\ L[j] # x => Key(T[L[i]]) <= Key(T[L[j]])
Ordered(L, T) == \A i, j \in DOMAIN L : i < j => Key(T[L[i]]) <= Key(T[L[j]])

LEMMA WithoutOrder ==
  ASSUME NEW L \in Seq(Timer), Distinct(L), NEW w \in Timer, NEW T, OrderedBut(L, T, w)
  PROVE  Ordered(Without(L, w), T)
<1>1. CASE w \notin ToSet(L)
  <2>1. Without(L, w) = L /\ \A i \in DOMAIN L : L[i] # w
    BY <1>1 DEF Without, ToSet
  <2> QED
    BY <2>1 DEF Ordered, OrderedBut
<1>2. CASE w \in ToSet(L)
  <2> DEFINE p == CHOOSE p \in DOMAIN L : L[p] = w
             M == Without(L, w)
  <2>1. p \in 1 .. Len(L) /\ L[p] = w
    BY <1>2 DEF ToSet
  <2>2. M = RemoveAt(L, p)
    BY <1>2 DEF Without
  <2> HIDE DEF p, M
  <2>3. Closed(L, M, p)
    BY <2>1, <2>2, RemoveCloses
  <2>4. /\ Len(L) \in Nat /\ DOMAIN L = 1 .. Len(L) /\ DOMAIN M = 1 .. Len(M)
        /\ Len(M) = Len(L) - 1
        /\ \A i \in 1 .. Len(M) : M[i] = IF i < p THEN L[i] ELSE L[i + 1]
    BY <2>3 DEF Closed
  <2> SUFFICES ASSUME NEW i \in 1 .. Len(M), NEW j \in 1 .. Len(M), i < j
               PROVE  Key(T[M[i]]) <= Key(T[M[j]])
    BY <2>4 DEF Ordered, M
  <2> DEFINE a == IF i < p THEN i ELSE i + 1
             b == IF j < p THEN j ELSE j + 1
  <2>5. /\ a \in 1 .. Len(L) /\ b \in 1 .. Len(L) /\ a < b /\ a # p /\ b # p
        /\ M[i] = L[a] /\ M[j] = L[b]
    BY <2>1, <2>4
  <2> HIDE DEF a, b
  <2>6. L[a] # w /\ L[b] # w
    BY <2>1, <2>4, <2>5 DEF Distinct
  <2> QED
    BY <2>4, <2>5, <2>6 DEF OrderedBut
<1> QED
  BY <1>1, <1>2

LEMMA InsortedOrder ==
  ASSUME NEW L \in Seq(Timer), NEW w \in Timer, NEW T \in [Timer -> Entry], Ordered(L, T),
         NEW M \in Insorted(L, w, T)
  PROVE  Ordered(M, T)
<1>1. PICK p \in 1 .. Len(L) + 1 :
        /\ M = InsertAt(L, p, w)
        /\ p > 1 => Key(T[L[p - 1]]) <= Key(T[w])
        /\ p <= Len(L) => Key(T[w]) < Key(T[L[p]])
  BY DEF Insorted
<1>2. Opened(L, M, w, p)
  BY <1>1, InsertOpens
<1>3. /\ Len(L) \in Nat /\ DOMAIN L = 1 .. Len(L) /\ DOMAIN M = 1 .. Len(M)
      /\ Len(M) = Len(L) + 1
      /\ \A i \in 1 .. Len(M) : M[i] = IF i < p THEN L[i] ELSE IF i = p THEN w ELSE L[i - 1]
  BY <1>2 DEF Opened
<1> DEFINE K(i) == Key(T[L[i]])
<1>4. Key(T[w]) \in Int /\ \A i \in 1 .. Len(L) : K(i) \in Int
  BY <1>3, KeyIsInt
<1>5. /\ \A i, j \in 1 .. Len(L) : i < j => K(i) <= K(j)
      /\ p > 1 => K(p - 1) <= Key(T[w])
      /\ p <= Len(L) => Key(T[w]) < K(p)
  BY <1>1, <1>3 DEF Ordered
<1>6. /\ \A i \in 1 .. Len(L) : i < p => K(i) <= Key(T[w])
      /\ \A i \in 1 .. Len(L) : i >= p => Key(T[w]) < K(i)
  <2> HIDE DEF K
  <2>1. ASSUME NEW i \in 1 .. Len(L), i < p PROVE K(i) <= Key(T[w])
    <3>1. p - 1 \in 1 .. Len(L) /\ (i < p - 1 \/ i = p - 1)
      BY <1>3, <2>1
    <3> QED
      BY <1>3, <1>4, <1>5, <3>1
  <2>2. ASSUME NEW i \in 1 .. Len(L), i >= p PROVE Key(T[w]) < K(i)
    <3>1. p \in 1 .. Len(L) /\ (i > p \/ i = p)
      BY <1>3, <2>2
    <3> QED
      BY <1>3, <1>4, <1>5, <3>1
  <2> QED
    BY <2>1, <2>2
<1>7. SUFFICES ASSUME NEW i \in 1 .. Len(M), NEW j \in 1 .. Len(M), i < j
               PROVE  Key(T[M[i]]) <= Key(T[M[j]])
  BY <1>3 DEF Ordered
<1>8. \A k \in 1 .. Len(M) :
        /\ k < p => k \in 1 .. Len(L) /\ Key(T[M[k]]) = K(k)
        /\ k = p => Key(T[M[k]]) = Key(T[w])
        /\ k > p => k - 1 \in 1 .. Len(L) /\ k - 1 >= p /\ Key(T[M[k]]) = K(k - 1)
  BY <1>3
<1> HIDE DEF K
<1>9. CASE i < p
  <2>1. Key(T[M[i]]) = K(i) /\ i \in 1 .. Len(L)
    BY <1>8, <1>9
  <2>2. CASE j < p
    BY <1>5, <1>7, <1>8, <2>1, <2>2
  <2>3. CASE j = p
    BY <1>6, <1>8, <1>9, <2>1, <2>3
  <2>4. CASE j > p
    <3>1. Key(T[M[j]]) = K(j - 1) /\ j - 1 \in 1 .. Len(L) /\ i < j - 1
      BY <1>3, <1>8, <1>9, <2>4
    <3> QED
      BY <1>5, <2>1, <3>1
  <2> QED
    BY <1>3, <2>2, <2>3, <2>4
<1>10. CASE i >= p
  <2>1. Key(T[M[j]]) = K(j - 1) /\ j - 1 \in 1 .. Len(L) /\ j - 1 >= p
    BY <1>3, <1>7, <1>8, <1>10
  <2>2. CASE i = p
    <3>1. Key(T[M[i]]) = Key(T[w])
      BY <1>8, <2>2
    <3>2. Key(T[w]) < K(j - 1)
      BY <1>6, <2>1
    <3> QED
      BY <1>4, <2>1, <3>1, <3>2
  <2>3. CASE i > p
    <3>1. Key(T[M[i]]) = K(i - 1) /\ i - 1 \in 1 .. Len(L) /\ i - 1 < j - 1
      BY <1>3, <1>7, <1>8, <2>3
    <3> QED
      BY <1>5, <2>1, <3>1
  <2> QED
    BY <1>3, <1>10, <2>2, <2>3
<1> QED
  BY <1>3, <1>9, <1>10

LEMMA PutOrders ==
  ASSUME NEW w \in Timer, NEW L, NEW P, Others(w, L, P), Put(w, L, P), Ordered(L, tm)
  PROVE  Ordered(list', tm')
<1>1. /\ L \in Seq(Timer) /\ tm' \in [Timer -> Entry]
      /\ \A i \in DOMAIN L : L[i] \in ToSet(L) /\ L[i] \in Timer
  BY DEF Others, Put, AsBefore, ToSet
<1>2. \A x \in ToSet(L) : x # w /\ x \in Timer /\ tm[x].state # "ended"
  BY <1>1, ToSetIs DEF Others
<1>3. \A i \in DOMAIN L : tm'[L[i]] = tm[L[i]]
  BY <1>1, <1>2 DEF Put, AsBefore
<1>4. Ordered(L, tm')
  BY <1>3 DEF Ordered
<1>5. PutInList(w, L, P) => Ordered(list', tm')
  BY <1>1, <1>4, InsortedOrder DEF PutInList
<1> QED
  BY <1>4, <1>5 DEF Put, PutAway

-----------------------------------------------------------------------------
(***************************************************************************)
(* The calls that put an entry somewhere.                                  *)
(***************************************************************************)

(* f is what addTimerEntry makes of an entry with the fields e.            *)
Added(e, f) ==
  /\ f \in Entry /\ SameKind(e, f) /\ f.svc = e.svc
  /\ f.state = e.state \/ (f.state = "ended" /\ e.state = "waiting")
  /\ ~e.repeated => f.begin = e.begin /\ f.end = e.end

(* What addTimerEntry of w with the fields e to the lists L and P does.    *)
Adding(w, e, L, P, noRecalc, cont) ==
  /\ Put(w, L, P) /\ Added(e, tm'[w])
  /\ \A x \in Timer \ {w} : tm'[x] = tm[x]
  /\ PutAway(w, L, P) => processed' = P \cup {w} /\ pc' = cont
  /\ PutInList(w, L, P) => processed' = P /\ pc' = IF noRecalc THEN cont ELSE "calc"
  /\ e.state \notin {"waiting", "ended"} => PutInList(w, L, P)
  /\ e.repeated /\ ~e.disabled /\ e.state # "ended" => PutInList(w, L, P)
  /\ ~e.repeated /\ e.state = "waiting" /\ e.end <= now => PutAway(w, L, P)

LEMMA Adds ==
  ASSUME now \in Nat, NEW w \in Timer, NEW e0 \in Entry, Held(w, e0), NEW L, NEW P,
         NEW noRecalc, NEW cont, Others(w, L, P),
         addTimerEntry(w, e0, L, P, noRecalc, cont)
  PROVE  Adding(w, e0, L, P, noRecalc, cont)
<1> DEFINE e == processRepeated(e0, TRUE)
           d == [e EXCEPT !.state = "ended"]
           T == [tm EXCEPT ![w] = e]
<1>0. tm \in [Timer -> Entry]
  BY DEF Others
<1>1. /\ e \in Entry /\ SameKind(e0, e) /\ e.state = e0.state /\ e.svc = e0.svc
      /\ ~e0.repeated => e = e0
      /\ e0.repeated => e.end > now
  BY ProcessRepeatedIs
<1>2. IF Done(e)
      THEN /\ processed' = P \cup {w} /\ list' = L
           /\ tm' = [T EXCEPT ![w].state = "ended"]
           /\ pc' = cont
      ELSE /\ processed' = P /\ list' \in Insorted(L, w, T)
           /\ tm' = T
           /\ pc' = IF noRecalc THEN cont ELSE "calc"
  BY DEF addTimerEntry
<1> HIDE DEF e
<1>3. T \in [Timer -> Entry] /\ T[w] = e /\ \A x \in Timer \ {w} : T[x] = tm[x]
  BY <1>0, <1>1
<1>4. /\ d \in Entry /\ SameKind(e, d) /\ d.state = "ended" /\ d.svc = e.svc
      /\ d.begin = e.begin /\ d.end = e.end
  BY <1>1 DEF Entry, State, SameKind
<1>5. Done(e) <=> (e.end <= now /\ e.state = "waiting") \/ e.state = "ended"
                  \/ (e.state = "waiting" /\ e.disabled)
  BY DEF Done, shouldSkip
<1> HIDE DEF T, d
<1>6. CASE Done(e)
  <2>1. e0.state \in {"waiting", "ended"} /\ e0.svc = "none"
    BY <1>1, <1>5, <1>6 DEF Held, Entry
  <2>2. /\ processed' = P \cup {w} /\ list' = L /\ pc' = cont
        /\ tm' = [T EXCEPT ![w].state = "ended"]
    BY <1>2, <1>6
  <2>3. tm' = [T EXCEPT ![w] = d]
    BY <1>3, <2>2 DEF d
  <2>4. tm' \in [Timer -> Entry] /\ tm'[w] = d /\ \A x \in Timer \ {w} : tm'[x] = tm[x]
    BY <1>3, <1>4, <2>3
  <2>5. PutAway(w, L, P) /\ ~PutInList(w, L, P)
    BY <1>1, <1>4, <2>1, <2>2, <2>4 DEF PutAway, PutInList
  <2>6. Put(w, L, P)
    BY <2>4, <2>5 DEF Put, AsBefore
  <2>7. Added(e0, tm'[w])
    BY <1>1, <1>4, <2>1, <2>4 DEF Added, SameKind
  <2>8. ~(e0.repeated /\ ~e0.disabled /\ e0.state # "ended")
    BY <1>1, <1>5, <1>6 DEF SameKind, Entry
  <2> QED
    BY <2>1, <2>2, <2>4, <2>5, <2>6, <2>7, <2>8 DEF Adding
<1>7. CASE ~Done(e)
  <2>2. /\ processed' = P /\ list' \in Insorted(L, w, T) /\ tm' = T
        /\ pc' = IF noRecalc THEN cont ELSE "calc"
    BY <1>2, <1>7
  <2>3. tm'[w].state # "ended" /\ Held(w, tm'[w])
    BY <1>1, <1>3, <1>5, <1>7, <2>2 DEF Held
  <2>5. PutInList(w, L, P) /\ ~PutAway(w, L, P)
    BY <2>2, <2>3 DEF PutAway, PutInList
  <2>6. Put(w, L, P)
    BY <1>3, <2>2, <2>5 DEF Put, AsBefore
  <2>7. Added(e0, tm'[w])
    BY <1>1, <1>3, <2>2 DEF Added
  <2>8. ~(~e0.repeated /\ e0.state = "waiting" /\ e0.end <= now)
    BY <1>1, <1>5, <1>7
  <2> QED
    BY <1>3, <2>2, <2>5, <2>6, <2>7, <2>8 DEF Adding
<1> QED
  BY <1>6, <1>7

(* The lists without w.                                                    *)
LEMMA TakenOut ==
  ASSUME Placed, NEW w \in Timer
  PROVE  Others(w, Without(list, w), processed \ {w})
BY WithoutSet DEF Placed, Others, Listed

(* The fields that Timer.timeChanged adds an entry with.                   *)
Again(e) == IF e.state = "ended" THEN [timeChanged(e) EXCEPT !.state = "waiting"]
            ELSE timeChanged(e)

LEMMA AgainIs ==
  ASSUME NEW w, NEW e \in Entry, Held(w, e)
  PROVE  /\ Again(e) \in Entry /\ Held(w, Again(e)) /\ SameKind(e, Again(e))
         /\ Again(e).begin = e.begin /\ Again(e).end = e.end /\ Again(e).svc = e.svc
         /\ Again(e).state = IF e.state = "ended" THEN "waiting" ELSE e.state
<1> DEFINE t == timeChanged(e)
<1>1. /\ t \in Entry /\ SameKind(e, t) /\ t.state = e.state /\ t.svc = e.svc
      /\ t.begin = e.begin /\ t.end = e.end
  BY TimeChangedIs
<1>2. Again(e) = IF e.state = "ended" THEN [t EXCEPT !.state = "waiting"] ELSE t
  BY DEF Again
<1> HIDE DEF t
<1> QED
  BY <1>1, <1>2 DEF Entry, State, SameKind, Held

(* What Timer.timeChanged of w with the fields e does.                     *)
ReAdding(w, e, cont) ==
  /\ w \in Known /\ Others(w, Without(list, w), processed \ {w})
  /\ Adding(w, Again(e), Without(list, w), processed \ {w}, FALSE, cont)

LEMMA ReAdds ==
  ASSUME Placed, now \in Nat, NEW w \in Timer, NEW e \in Entry, Held(w, e),
         e.state = tm[w].state, NEW cont, ReAdd(w, e, cont)
  PROVE  ReAdding(w, e, cont)
<1>0. /\ list \in Seq(Timer) /\ Distinct(list) /\ Listed \cap processed = {}
      /\ (tm[w].state = "ended" <=> w \notin Listed)
  BY DEF Placed
<1>1. Others(w, Without(list, w), processed \ {w})
  BY TakenOut
<1>2. Again(e) \in Entry /\ Held(w, Again(e))
  BY AgainIs
<1>3. CASE e.state = "ended"
  <2>1. w \notin Listed /\ Without(list, w) = list
    BY <1>0, <1>3 DEF Without, Listed
  <2>2. w \in processed /\ addTimerEntry(w, Again(e), list, processed \ {w}, FALSE, cont)
    BY <1>3 DEF ReAdd, Again
  <2> QED
    BY <1>1, <1>2, <2>1, <2>2, Adds DEF ReAdding, Known
<1>4. CASE e.state # "ended"
  <2>1. w \in Listed /\ processed \ {w} = processed
    BY <1>0, <1>4
  <2>2. addTimerEntry(w, Again(e), Without(list, w), processed, FALSE, cont)
    BY <1>4 DEF ReAdd, Again
  <2> QED
    BY <1>1, <1>2, <2>1, <2>2, Adds DEF ReAdding, Known
<1> QED
  BY <1>3, <1>4

(* What doActivate of w does.                                              *)
Acting(w, cont) ==
  /\ Put(w, Without(list, w), processed)
  /\ \A x \in Timer \ {w} : x \in processed' \/ x \notin processed => tm'[x] = tm[x]
  /\ Recent \subseteq processed'
  /\ SameKind(tm[w], tm'[w])
  /\ tm[w].repeated /\ ~tm[w].disabled => PutInList(w, Without(list, w), processed)
  /\ PutAway(w, Without(list, w), processed) => w \in processed'
  /\ ~tm[w].repeated => tm'[w].end = tm[w].end
  /\ ~tm[w].repeated /\ Cancelled(w) /\ tm[w].state \in {"prepared", "running"} =>
       tm'[w].state \in {"running", "ended"} /\ tm'[w].begin = tm[w].begin
  /\ pc' \in {cont, "calc"}

LEMMA Acts ==
  ASSUME Placed, now \in Nat, NEW w \in Listed, NEW cont, doActivate(w, cont)
  PROVE  Others(w, Without(list, w), processed) /\ Acting(w, cont)
<1> DEFINE L == Without(list, w)
<1>0. /\ w \in Timer /\ w \notin processed /\ tm \in [Timer -> Entry] /\ Held(w, tm[w])
      /\ processed \subseteq Timer
      /\ \A x \in Timer : (tm[x].state = "ended" <=> x \notin Listed)
  BY ToSetIs DEF Placed, Listed
<1>1. Others(w, L, processed) /\ w \notin ToSet(L)
  <2>1. processed \ {w} = processed
    BY <1>0
  <2> QED
    BY <1>0, <2>1, TakenOut DEF Others
<1>2. PICK e \in activate(w) :
        IF e.state # "ended"
        THEN /\ list' \in Insorted(L, w, [tm EXCEPT ![w] = e]) /\ tm' = [tm EXCEPT ![w] = e]
             /\ pc' = cont /\ UNCHANGED processed
        ELSE IF e.repeated
        THEN addTimerEntry(w, [processRepeated(e, TRUE) EXCEPT !.state = "waiting"],
                           L, processed, FALSE, cont)
        ELSE /\ processed' = Recent \cup {w}
             /\ tm' = [x \in Timer |-> IF x \in processed \ Recent THEN Blank
                                       ELSE [tm EXCEPT ![w] = e][x]]
             /\ list' = L /\ pc' = cont
  BY DEF doActivate
<1>3. /\ e \in Entry /\ SameKind(tm[w], e) /\ Held(w, e) /\ e.end = tm[w].end
      /\ tm[w].state = "running" => e.state = "ended"
      /\ Cancelled(w) /\ tm[w].state = "prepared" => e.state = "running" /\ e.begin = tm[w].begin
      /\ tm[w].state # "prepared" => e.begin = tm[w].begin
  BY <1>0, ActivateIs DEF Advanced
<1>4. Recent \subseteq processed
  BY DEF Recent
<1> HIDE DEF L
<1>5. CASE e.state # "ended"
  <2>1. /\ list' \in Insorted(L, w, tm') /\ tm' = [tm EXCEPT ![w] = e]
        /\ pc' = cont /\ processed' = processed
    BY <1>2, <1>5
  <2>2. tm' \in [Timer -> Entry] /\ tm'[w] = e /\ \A x \in Timer \ {w} : tm'[x] = tm[x]
    BY <1>0, <1>3, <2>1
  <2>3. PutInList(w, L, processed) /\ ~PutAway(w, L, processed)
    BY <1>3, <1>5, <2>1, <2>2 DEF PutAway, PutInList
  <2>4. Put(w, L, processed)
    BY <2>2, <2>3 DEF Put, AsBefore
  <2> QED
    BY <1>0, <1>1, <1>3, <1>4, <1>5, <2>1, <2>2, <2>3, <2>4 DEF Acting, L
<1>6. CASE e.state = "ended" /\ e.repeated
  <2> DEFINE r == processRepeated(e, TRUE)  f == [r EXCEPT !.state = "waiting"]
  <2>1. r \in Entry /\ SameKind(e, r) /\ r.state = "ended" /\ r.svc = e.svc
    BY <1>3, <1>6, ProcessRepeatedIs
  <2>2. e.svc = "none"
    BY <1>3, <1>6 DEF Held, Entry
  <2>3. addTimerEntry(w, f, L, processed, FALSE, cont)
    BY <1>2, <1>6
  <2> HIDE DEF r
  <2>4. f \in Entry /\ SameKind(e, f) /\ f.state = "waiting" /\ f.svc = "none" /\ Held(w, f)
    BY <2>1, <2>2 DEF Entry, State, SameKind, Held
  <2> HIDE DEF f
  <2>5. Adding(w, f, L, processed, FALSE, cont)
    BY <1>0, <1>1, <2>3, <2>4, Adds
  <2>6. /\ Put(w, L, processed) /\ Added(f, tm'[w])
        /\ \A x \in Timer \ {w} : tm'[x] = tm[x]
        /\ PutAway(w, L, processed) => processed' = processed \cup {w} /\ pc' = cont
        /\ PutInList(w, L, processed) => processed' = processed /\ pc' = "calc"
        /\ f.repeated /\ ~f.disabled => PutInList(w, L, processed)
    BY <2>4, <2>5 DEF Adding
  <2>7. processed \subseteq processed' /\ pc' \in {cont, "calc"}
    BY <2>6 DEF Put
  <2>8. SameKind(tm[w], tm'[w])
    BY <1>3, <2>4, <2>6 DEF Added, SameKind
  <2> QED
    BY <1>1, <1>3, <1>4, <1>6, <2>4, <2>6, <2>7, <2>8 DEF Acting, L, SameKind
<1>7. CASE e.state = "ended" /\ ~e.repeated
  <2>1. /\ processed' = Recent \cup {w} /\ list' = L /\ pc' = cont
        /\ tm' = [x \in Timer |-> IF x \in processed \ Recent THEN Blank
                                  ELSE [tm EXCEPT ![w] = e][x]]
    BY <1>2, <1>7
  <2>2. /\ tm'[w] = e
        /\ \A x \in Timer \ {w} : tm'[x] = IF x \in processed \ Recent THEN Blank ELSE tm[x]
    BY <1>0, <2>1
  <2>3. tm' \in [Timer -> Entry]
    <3>1. \A x \in Timer : (IF x \in processed \ Recent THEN Blank
                            ELSE [tm EXCEPT ![w] = e][x]) \in Entry
      BY <1>0, <1>3, BlankIs
    <3> QED
      BY <2>1, <3>1
  <2>4. e.svc = "none"
    BY <1>3, <1>7 DEF Held, Entry
  <2>5. PutAway(w, L, processed) /\ ~PutInList(w, L, processed)
    BY <1>4, <1>7, <2>1, <2>2, <2>4 DEF PutAway, PutInList
  <2>6. \A x \in processed : tm[x].state = "ended"
    BY <1>0 DEF Placed
  <2>7. Put(w, L, processed)
    BY <2>2, <2>3, <2>5, <2>6 DEF Put, AsBefore
  <2> QED
    BY <1>0, <1>1, <1>3, <1>7, <2>1, <2>2, <2>5, <2>7 DEF Acting, L, SameKind, Entry
<1> QED
  BY <1>5, <1>6, <1>7

-----------------------------------------------------------------------------
(***************************************************************************)
(* The invariant.                                                          *)
(***************************************************************************)
Times ==
  /\ now \in 0 .. MaxTime /\ last \in 0 .. MaxTime
  /\ wait \in 0 .. MaxWaitTime /\ jumped \in BOOLEAN /\ jumps \in 0 .. MaxJumps

(* What calcNextActivation returns to, and what the dialogs are about.     *)
Flow ==
  /\ pc \in After \cup {"calc", "revive", "loop", "stop"} /\ then \in After
  /\ who \in Timer \cup {NoTimer} /\ dialog \in {"none", "edited", "asked", "stopall"}
  /\ pc \in After => pc = then
  /\ pc = "stop" => then = "rearm"
  /\ then \in {"forget", "rearm"} => who \in Timer
  /\ dialog # "none" => who \in Timer
  /\ then \in {"save", "forget", "load"} => dialog = "none"

(* The done entries that are looked at again are in none of the lists.     *)
Revived ==
  /\ tl \subseteq Timer /\ tl \cap Known = {}
  /\ tl # {} => pc = "revive"

(* Only a new entry is not in timers.xml, until record() saves it.         *)
Kept ==
  /\ file \in [Timer -> Stored]
  /\ then # "save" => \A w \in Known \cup tl : file[w].saved

(* An entry that the user is asked about is not lost meanwhile: at its end *)
(* it is enqueued again.                                                   *)
Asked ==
  /\ dialog = "asked" => who \in Listed /\ tm[who].repeated /\ ~tm[who].disabled
  /\ pc = "stop" => who \in Listed

Inv == Times /\ Flow /\ Placed /\ Revived /\ Kept /\ Asked

(* What a step may do to a recording.                                      *)
Ends ==
  \A w \in Timer : tm[w].state = "running" /\ tm'[w].state # "running" =>
    tm[w].end <= now \/ pc = "stop" \/ pc' = "load"

LEMMA InvImplies == Inv => TypeOK /\ EntryPlaced /\ ServiceHeld /\ EntriesSaved
<1> SUFFICES ASSUME Inv PROVE TypeOK /\ EntryPlaced /\ ServiceHeld /\ EntriesSaved
  OBVIOUS
<1>1. TypeOK
  BY DEF Inv, Times, Flow, Placed, Revived, Kept, TypeOK
<1>2. EntryPlaced
  BY DEF Inv, Placed, Distinct, EntryPlaced
<1>3. ServiceHeld
  BY DEF Inv, Placed, Held, ServiceHeld
<1>4. EntriesSaved
  BY DEF Inv, Flow, Kept, EntriesSaved, After
<1> QED
  BY <1>1, <1>2, <1>3, <1>4

LEMMA InitPauseIs == now \in 0 .. MaxTime => InitialPause \in 0 .. MaxWaitTime
BY Numbers DEF InitialPause

LEMMA EmptyPlaced ==
  ASSUME list = <<>>, processed = {}, tm = [w \in Timer |-> Blank]
  PROVE  Placed /\ Known = {}
<1>1. list \in Seq(Timer) /\ Listed = {} /\ Distinct(list)
  BY DEF Listed, ToSet, Distinct
<1>2. \A x \in Timer : tm[x] = Blank
  OBVIOUS
<1>3. tm \in [Timer -> Entry]
  BY BlankIs
<1> QED
  BY <1>1, <1>2, <1>3, BlankIs DEF Placed, Known, Held

LEMMA InitInv == Init => Inv
<1> SUFFICES ASSUME Init PROVE Inv
  OBVIOUS
<1> USE DEF Init
<1>1. Times
  <2>1. now \in 0 .. MaxTime
    BY Numbers
  <2>2. wait \in 0 .. MaxWaitTime
    BY <2>1, InitPauseIs
  <2> QED
    <3>1. last = now /\ jumps = 0
      OBVIOUS
    <3>2. jumped \in BOOLEAN
      BY Zenon
    <3> HIDE DEF Init
    <3> QED
      BY <2>1, <2>2, <3>1, <3>2, Numbers DEF Times
<1>2. Flow
  BY DEF Flow, After
<1>3. Placed /\ Known = {}
  BY EmptyPlaced
<1>4. Revived
  BY <1>3 DEF Revived
<1>5. Kept
  <2>1. NotSaved \in Stored
    BY DEF NotSaved, Stored
  <2> QED
    BY <1>3, <2>1 DEF Kept
<1>6. Asked
  BY DEF Asked
<1> QED
  BY <1>1, <1>2, <1>3, <1>4, <1>5, <1>6 DEF Inv

LEMMA StillPlaced ==
  ASSUME Placed, UNCHANGED <<list, processed, tm>>
  PROVE  Placed' /\ Listed' = Listed /\ Known' = Known
BY DEF Placed, Listed, Known, Distinct, Held

LEMMA ReAddKeeps ==
  ASSUME Placed, NEW w \in Timer, NEW e \in Entry, Held(w, e), e.state = tm[w].state,
         NEW cont, ReAdding(w, e, cont)
  PROVE  /\ Placed' /\ w \in Known /\ Known' \subseteq Known
         /\ \A x \in Timer : tm[x].state = "running" => tm'[x].state = "running"
         /\ pc' \in {cont, "calc"}
         /\ SameKind(e, tm'[w])
         /\ e.state \notin {"waiting", "ended"} => w \in Listed'
<1> DEFINE L == Without(list, w)  P == processed \ {w}  a == Again(e)
<1>1. Others(w, L, P) /\ Adding(w, a, L, P, FALSE, cont) /\ w \in Known
  BY DEF ReAdding
<1>2. /\ a \in Entry /\ SameKind(e, a)
      /\ a.state = IF e.state = "ended" THEN "waiting" ELSE e.state
  BY AgainIs
<1>3. ToSet(L) \cup P \cup {w} \subseteq Known
  BY <1>1, WithoutSet DEF Placed, Known, Listed
<1> HIDE DEF L, P, a
<1>4. /\ Put(w, L, P) /\ Added(a, tm'[w])
      /\ \A x \in Timer \ {w} : tm'[x] = tm[x]
      /\ PutAway(w, L, P) => pc' = cont
      /\ PutInList(w, L, P) => pc' = "calc"
      /\ a.state \notin {"waiting", "ended"} => PutInList(w, L, P)
  BY <1>1 DEF Adding
<1>5. Placed' /\ Known' \subseteq Known /\ (PutInList(w, L, P) => w \in Listed')
  BY <1>1, <1>3, <1>4, PutPlaces
<1>6. SameKind(e, tm'[w]) /\ (tm[w].state = "running" => tm'[w].state = "running")
  BY <1>2, <1>4 DEF Added, SameKind
<1> QED
  BY <1>1, <1>2, <1>4, <1>5, <1>6 DEF Put

LEMMA TimesStay == ASSUME Times, UNCHANGED clockVars PROVE Times'
BY DEF Times, clockVars

LEMMA KeptStays ==
  ASSUME Kept, UNCHANGED file, then' = "save" \/ then # "save",
         (Known \cup tl)' \subseteq Known \cup tl
  PROVE  Kept'
BY DEF Kept

-----------------------------------------------------------------------------
(***************************************************************************)
(* The steps of calcNextActivation.                                        *)
(***************************************************************************)
LEMMA CalcStep == Inv /\ calcNextActivation => Inv' /\ Ends
<1> SUFFICES ASSUME Inv, calcNextActivation PROVE Inv' /\ Ends
  OBVIOUS
<1> USE DEF Inv
<1>0. /\ pc = "calc" /\ UNCHANGED <<clockVars, list, tm, then, who, dialog, file>>
      /\ \/ pc' = "revive" /\ tl' = processed /\ processed' = {}
         \/ pc' = "loop" /\ tl' = tl /\ processed' = processed
      /\ tl = {}
  BY DEF calcNextActivation, Revived
<1>1. Listed' = Listed /\ Known' = Listed \cup processed' /\ (Known \cup tl)' = Known \cup tl
  BY <1>0 DEF Listed, Known
<1>2. Times'
  BY <1>0, TimesStay
<1>3. Flow'
  BY <1>0 DEF Flow, After
<1>4. Placed'
  <2>1. processed' \subseteq processed
    BY <1>0
  <2> QED
    BY <1>0, <1>1, <2>1 DEF Placed, Distinct, Held
<1>5. Revived'
  BY <1>0, <1>1 DEF Revived, Placed
<1>6. Kept'
  BY <1>0, <1>1, KeptStays
<1>7. Asked'
  BY <1>0, <1>1 DEF Asked
<1>8. Ends
  BY <1>0 DEF Ends
<1> QED
  BY <1>2, <1>3, <1>4, <1>5, <1>6, <1>7, <1>8

LEMMA ReevaluateStep == Inv /\ Reevaluate => Inv' /\ Ends
<1> SUFFICES ASSUME Inv, Reevaluate PROVE Inv' /\ Ends
  OBVIOUS
<1> USE DEF Inv
<1>0. pc = "revive" /\ UNCHANGED <<clockVars, then, who, dialog, file>>
  BY DEF Reevaluate
<1>1. Times'
  BY <1>0, TimesStay
<1>2. CASE tl = {} /\ pc' = "loop" /\ UNCHANGED <<tl, list, processed, tm>>
  <2>1. Placed' /\ Listed' = Listed /\ Known' = Known
    BY <1>2, StillPlaced
  <2>2. Flow' /\ Revived' /\ Asked'
    BY <1>0, <1>2, <2>1 DEF Flow, Revived, Asked, After
  <2>3. Kept'
    BY <1>0, <1>2, <2>1, KeptStays
  <2>4. Ends
    BY <1>2 DEF Ends
  <2> QED
    BY <1>1, <2>1, <2>2, <2>3, <2>4
<1>3. ASSUME NEW w \in tl, tl' = tl \ {w},
             addTimerEntry(w, [timeChanged(tm[w]) EXCEPT !.state = "waiting"],
                           list, processed, TRUE, "revive")
      PROVE  Inv' /\ Ends
  <2> DEFINE a == [timeChanged(tm[w]) EXCEPT !.state = "waiting"]
  <2>1. /\ w \in Timer /\ w \notin Known /\ tm[w] \in Entry /\ Held(w, tm[w])
        /\ tm[w].state = "ended" /\ now \in Nat
    BY Numbers DEF Revived, Placed, Known, Times
  <2>2. a = Again(tm[w])
    BY <2>1 DEF Again
  <2>3. a \in Entry /\ Held(w, a)
    BY <2>1, <2>2, AgainIs
  <2> HIDE DEF a
  <2>4. Others(w, list, processed)
    BY <2>1 DEF Others, Placed, Known, Listed
  <2>5. Adding(w, a, list, processed, TRUE, "revive")
    BY <1>3, <2>1, <2>3, <2>4, Adds DEF a
  <2>6. /\ Put(w, list, processed) /\ pc' = "revive"
        /\ \A x \in Timer \ {w} : tm'[x] = tm[x]
    BY <2>5 DEF Adding, Put
  <2>7. Placed' /\ Known' \subseteq Known \cup {w} /\ Listed \subseteq Listed'
    BY <2>1, <2>4, <2>6, PutPlaces DEF Known, Listed
  <2>8. Flow' /\ Revived'
    BY <1>0, <1>3, <2>6, <2>7 DEF Flow, Revived, After
  <2>9. Kept'
    BY <1>0, <1>3, <2>7, KeptStays
  <2>10. Asked'
    <3>1. \A x \in Listed : x \in Listed' /\ tm'[x] = tm[x]
      BY <2>1, <2>6, <2>7, ToSetIs DEF Known, Placed, Listed
    <3> QED
      BY <1>0, <2>6, <3>1 DEF Asked
  <2>11. Ends
    BY <2>1, <2>6 DEF Ends
  <2> QED
    BY <1>1, <2>7, <2>8, <2>9, <2>10, <2>11
<1> QED
  BY <1>2, <1>3 DEF Reevaluate

(* What an activation leaves, of whichever entry.                          *)
LEMMA ActingKeeps ==
  ASSUME Placed, NEW w \in Listed, NEW cont, Others(w, Without(list, w), processed),
         Acting(w, cont)
  PROVE  /\ Placed' /\ Known' \subseteq Known /\ pc' \in {cont, "calc"}
         /\ \A x \in Listed \ {w} : x \in Listed' /\ tm'[x] = tm[x]
         /\ SameKind(tm[w], tm'[w])
         /\ tm[w].repeated /\ ~tm[w].disabled => w \in Listed'
         /\ \A x \in Timer \ {w} : tm[x].state = "running" => tm'[x].state = "running"
<1> DEFINE L == Without(list, w)
<1>1. /\ list \in Seq(Timer) /\ Distinct(list) /\ w \in Timer /\ Listed \subseteq Timer
      /\ Listed \cap processed = {} /\ (\A x \in Timer : tm[x].state = "ended" <=> x \notin Listed)
  BY ToSetIs DEF Placed, Listed
<1>2. ToSet(L) = Listed \ {w}
  BY <1>1, WithoutSet DEF Listed
<1>3. Put(w, L, processed)
  BY DEF Acting
<1>4. /\ Placed' /\ Known' \subseteq ToSet(L) \cup processed \cup {w} /\ ToSet(L) \subseteq Listed'
      /\ PutInList(w, L, processed) => Listed' = ToSet(L) \cup {w}
  BY <1>1, <1>3, PutPlaces
<1>5. \A x \in Listed \ {w} : x \in Listed' /\ tm'[x] = tm[x]
  BY <1>1, <1>2, <1>4 DEF Acting
<1>6. \A x \in Timer \ {w} : tm[x].state = "running" => tm'[x].state = "running"
  BY <1>1, <1>5
<1> HIDE DEF L
<1>7. /\ pc' \in {cont, "calc"} /\ SameKind(tm[w], tm'[w])
      /\ tm[w].repeated /\ ~tm[w].disabled => PutInList(w, L, processed)
  BY DEF Acting, L
<1> QED
  BY <1>2, <1>4, <1>5, <1>6, <1>7 DEF Known

LEMMA HeadIsListed ==
  ASSUME list \in Seq(Timer), list # <<>>
  PROVE  Head(list) \in Listed /\ Head(list) = list[1] /\ 1 \in 1 .. Len(list)
BY DEF Listed, ToSet

LEMMA ActivateStep == Inv /\ Activate => Inv' /\ Ends
<1> SUFFICES ASSUME Inv, Activate PROVE Inv' /\ Ends
  OBVIOUS
<1> USE DEF Inv
<1> DEFINE w == Head(list)
<1>0. /\ pc = "loop" /\ UNCHANGED <<clockVars, tl, then, who, dialog, file>>
      /\ list # <<>> /\ Key(tm[w]) <= now /\ doActivate(w, "loop") /\ tl = {}
  BY DEF Activate, Due, Revived
<1>1. w \in Listed /\ now \in Nat
  BY <1>0, HeadIsListed, Numbers DEF Placed, Times
<1> HIDE DEF w
<1>2. Others(w, Without(list, w), processed) /\ Acting(w, "loop")
  BY <1>0, <1>1, Acts
<1>3. /\ Placed' /\ Known' \subseteq Known /\ pc' \in {"loop", "calc"}
      /\ \A x \in Listed \ {w} : x \in Listed' /\ tm'[x] = tm[x]
      /\ SameKind(tm[w], tm'[w])
      /\ tm[w].repeated /\ ~tm[w].disabled => w \in Listed'
      /\ \A x \in Timer \ {w} : tm[x].state = "running" => tm'[x].state = "running"
  BY <1>1, <1>2, ActingKeeps
<1>4. Times'
  BY <1>0, TimesStay
<1>5. Flow' /\ Revived'
  BY <1>0, <1>3 DEF Flow, Revived, After
<1>6. Kept'
  BY <1>0, <1>3, KeptStays
<1>7. Asked'
  BY <1>0, <1>3 DEF Asked, SameKind
<1>8. Ends
  <2>1. tm[w].state = "running" => Key(tm[w]) = tm[w].end
    BY DEF Key
  <2> QED
    BY <1>0, <1>3, <2>1 DEF Ends
<1> QED
  BY <1>3, <1>4, <1>5, <1>6, <1>7, <1>8

LEMMA PauseIs ==
  ASSUME now \in Nat, Placed, ~Due
  PROVE  /\ Pause \in 0 .. MaxWaitTime
         /\ list # <<>> => now + Pause <= Key(tm[Head(list)])
<1> DEFINE key == IF list = <<>> THEN now + MaxWaitTime ELSE Key(tm[Head(list)])
           p   == IF key < now + MaxWaitTime THEN key - now ELSE MaxWaitTime
<1>1. list # <<>> => Key(tm[Head(list)]) \in Int /\ Key(tm[Head(list)]) > now
  <2> SUFFICES ASSUME list # <<>>
               PROVE  Key(tm[Head(list)]) \in Int /\ Key(tm[Head(list)]) > now
    OBVIOUS
  <2>1. Head(list) \in Timer
    BY HeadIsListed, ToSetIs DEF Placed, Listed
  <2>2. Key(tm[Head(list)]) \in Int
    BY <2>1, KeyIsInt DEF Placed
  <2> QED
    BY <2>2 DEF Due
<1>2. key \in Int /\ key > now
  BY <1>1, Numbers
<1>3. Pause = IF now < ClockSet /\ p > ShortWait THEN ShortWait ELSE p
  BY DEF Pause
<1>4. list # <<>> => key = Key(tm[Head(list)])
  OBVIOUS
<1> HIDE DEF key
<1>5. list = <<>> \/ (Pause \in 0 .. MaxWaitTime /\ now + Pause <= key)
  BY <1>2, <1>3, Numbers
<1>6. Pause \in 0 .. MaxWaitTime
  BY <1>2, <1>3, Numbers
<1> QED
  BY <1>4, <1>5, <1>6

LEMMA FinishStep == Inv /\ Finish => Inv' /\ Ends
<1> SUFFICES ASSUME Inv, Finish PROVE Inv' /\ Ends
  OBVIOUS
<1> USE DEF Inv
<1>0. /\ pc = "loop" /\ ~Due /\ last' = now /\ wait' = Pause /\ pc' = then
      /\ UNCHANGED <<now, jumps, list, processed, tl, tm, then, who, dialog, file>>
  BY DEF Finish
<1>1. Placed' /\ Listed' = Listed /\ Known' = Known
  BY <1>0, StillPlaced
<1>2. Times'
  <2>1. now \in Nat
    BY Numbers DEF Times
  <2>2. jumped' \in BOOLEAN
    BY Zenon DEF Finish
  <2> QED
    BY <1>0, <2>1, <2>2, PauseIs DEF Times
<1>3. Flow' /\ Revived' /\ Asked'
  BY <1>0, <1>1 DEF Flow, Revived, Asked, After
<1>4. Kept'
  BY <1>0, <1>1, KeptStays
<1>5. Ends
  BY <1>0 DEF Ends
<1> QED
  BY <1>1, <1>2, <1>3, <1>4, <1>5

-----------------------------------------------------------------------------
(***************************************************************************)
(* The steps of the clock.                                                 *)
(***************************************************************************)
LEMMA FireStep == Inv /\ Fire => Inv' /\ Ends
<1> SUFFICES ASSUME Inv, Fire PROVE Inv' /\ Ends
  OBVIOUS
<1> USE DEF Inv
<1>0. /\ pc = "idle" /\ pc' = "calc" /\ then' = "idle"
      /\ UNCHANGED <<clockVars, tl, list, processed, tm, who, dialog, file>>
  BY DEF Fire
<1>1. Placed' /\ Listed' = Listed /\ Known' = Known
  BY <1>0, StillPlaced
<1>2. then = "idle"
  BY <1>0 DEF Flow, After
<1>3. Flow' /\ Revived' /\ Asked'
  BY <1>0, <1>1, <1>2 DEF Flow, Revived, Asked, After
<1>4. Kept'
  BY <1>0, <1>1, <1>2, KeptStays
<1> QED
  BY <1>0, <1>1, <1>3, <1>4, TimesStay DEF Ends

LEMMA ClockStep ==
  ASSUME Inv, UNCHANGED <<list, processed, tl, tm, pc, then, who, dialog, file>>, Times'
  PROVE  Inv' /\ Ends
<1> USE DEF Inv
<1>1. Placed' /\ Listed' = Listed /\ Known' = Known
  BY StillPlaced
<1>2. Flow' /\ Revived' /\ Asked'
  BY <1>1 DEF Flow, Revived, Asked, After
<1>3. Kept'
  BY <1>1, KeptStays
<1> QED
  BY <1>1, <1>2, <1>3 DEF Ends

LEMMA TickStep == Inv /\ Tick => Inv' /\ Ends
<1> SUFFICES ASSUME Inv, Tick PROVE Inv' /\ Ends
  OBVIOUS
<1>1. /\ now < MaxTime /\ now' = now + 1 /\ wait' = (IF wait = 0 THEN 0 ELSE wait - 1)
      /\ UNCHANGED <<last, jumps, list, processed, tl, tm, pc, then, who, dialog, file>>
  BY DEF Tick
<1>2. jumped' \in BOOLEAN
  BY Zenon DEF Tick, Inv, Times
<1>3. Times'
  BY <1>1, <1>2, Numbers DEF Inv, Times
<1> QED
  BY <1>1, <1>3, ClockStep

LEMMA WarpStep == ASSUME NEW t \in Warps PROVE Inv /\ Warp(t) => Inv' /\ Ends
<1> SUFFICES ASSUME Inv, Warp(t) PROVE Inv' /\ Ends
  OBVIOUS
<1>1. /\ jumps < MaxJumps /\ now' = t /\ jumps' = jumps + 1
      /\ UNCHANGED <<last, wait, list, processed, tl, tm, pc, then, who, dialog, file>>
  BY DEF Warp
<1>2. jumped' \in BOOLEAN
  BY Zenon DEF Warp
<1>3. t \in 0 .. MaxTime
  BY TimerAssumption DEF TimerAssumption
<1>4. Times'
  BY <1>1, <1>2, <1>3, Numbers DEF Inv, Times
<1> QED
  BY <1>1, <1>4, ClockStep

-----------------------------------------------------------------------------
(***************************************************************************)
(* The steps of the timer screen.                                          *)
(***************************************************************************)
LEMMA WhenReady ==
  ASSUME Inv, pc = "idle"
  PROVE  tl = {} /\ then = "idle" /\ now \in Nat /\ now \in Int
BY Numbers DEF Inv, Flow, Revived, Times, After

LEMMA InputsAreTimes ==
  ASSUME now \in Nat, NEW l \in Leads, NEW d \in Lengths
  PROVE  now + l \in Int /\ now + l + d \in Int
BY TimerAssumption DEF TimerAssumption

LEMMA NewIs ==
  ASSUME NEW w \in Timer, NEW b \in Int, NEW n \in Int, NEW r \in BOOLEAN, NEW d \in BOOLEAN
  PROVE  /\ New(b, n, r, d) \in Entry /\ Held(w, New(b, n, r, d))
         /\ New(b, n, r, d).state = "waiting"
<1> DEFINE e == [begin |-> b, end |-> n, prep |-> 0, state |-> "waiting", repeated |-> r,
                 disabled |-> d, backoff |-> 0, svc |-> "none"]
<1>1. e \in Entry /\ e.state = "waiting" /\ e.svc = "none"
  BY DEF Entry, State
<1>2. New(b, n, r, d) = timeChanged(e)
  BY DEF New
<1> HIDE DEF e
<1> QED
  BY <1>1, <1>2, TimeChangedIs DEF Held

(* A new entry is put into the lists as they are.                          *)
LEMMA AddingKeeps ==
  ASSUME Inv, NEW w \in Timer, w \notin Known, tl = {}, NEW e \in Entry, Held(w, e),
         NEW cont, addTimerEntry(w, e, list, processed, FALSE, cont)
  PROVE  /\ Placed' /\ Known' \subseteq Known \cup {w} /\ Listed \subseteq Listed'
         /\ \A x \in Timer \ {w} : tm'[x] = tm[x]
         /\ Ends /\ pc' \in {cont, "calc"}
<1>1. Others(w, list, processed) /\ now \in Nat
  BY Numbers DEF Inv, Others, Placed, Known, Listed, Times
<1>2. Adding(w, e, list, processed, FALSE, cont)
  BY <1>1, Adds
<1>3. Put(w, list, processed) /\ pc' \in {cont, "calc"} /\ \A x \in Timer \ {w} : tm'[x] = tm[x]
  BY <1>2 DEF Adding, Put
<1>4. Placed' /\ Known' \subseteq Known \cup {w} /\ Listed \subseteq Listed'
  BY <1>1, <1>3, PutPlaces DEF Known, Listed
<1>5. tm[w].state = "ended"
  BY DEF Inv, Placed, Known
<1> QED
  BY <1>3, <1>4, <1>5 DEF Ends

LEMMA RecordStep ==
  ASSUME NEW w \in Timer, NEW b \in Int, NEW n \in Int
  PROVE  Inv /\ record(w, b, n) => Inv' /\ Ends
<1> SUFFICES ASSUME Inv, record(w, b, n) PROVE Inv' /\ Ends
  OBVIOUS
<1> DEFINE e == New(b, n, w \in Repeats, FALSE)
<1>0. /\ pc = "idle" /\ dialog = "none" /\ w \notin Known /\ then' = "save"
      /\ addTimerEntry(w, e, list, processed, FALSE, "save")
      /\ UNCHANGED <<clockVars, tl, who, dialog, file>>
  BY DEF record, Ready
<1>1. tl = {} /\ then = "idle" /\ now \in Nat
  BY <1>0, WhenReady
<1>2. e \in Entry /\ Held(w, e)
  <2> DEFINE r == w \in Repeats
  <2>1. r \in BOOLEAN
    OBVIOUS
  <2>2. e = New(b, n, r, FALSE)
    OBVIOUS
  <2> HIDE DEF r, e
  <2> QED
    BY <2>1, <2>2, NewIs
<1> HIDE DEF e
<1>3. /\ Placed' /\ Known' \subseteq Known \cup {w} /\ Ends /\ pc' \in {"save", "calc"}
  BY <1>0, <1>1, <1>2, AddingKeeps
<1> USE DEF Inv
<1>4. Times'
  BY <1>0, TimesStay
<1>5. Flow' /\ Revived'
  BY <1>0, <1>1, <1>3 DEF Flow, Revived, After
<1>6. Kept'
  BY <1>0, <1>3 DEF Kept
<1>7. Asked'
  BY <1>0, <1>3 DEF Asked
<1> QED
  BY <1>3, <1>4, <1>5, <1>6, <1>7

LEMMA StoredIs ==
  ASSUME NEW T \in [Timer -> Entry]
  PROVE  Saved(T) \in [Timer -> Stored] /\ \A w \in Timer : w \in Known => Saved(T)[w].saved
<1>1. NotSaved \in Stored
  BY DEF NotSaved, Stored
<1>2. \A w \in Timer : T[w].begin \in Int /\ T[w].end \in Int /\ T[w].repeated \in BOOLEAN
                       /\ T[w].disabled \in BOOLEAN
  BY DEF Entry
<1>3. \A w \in Timer : [saved |-> TRUE, begin |-> T[w].begin, end |-> T[w].end,
                        repeated |-> T[w].repeated, disabled |-> T[w].disabled] \in Stored
  BY <1>2 DEF Stored
<1> QED
  BY <1>1, <1>3 DEF Saved

LEMMA KnownIs == Placed => Known \subseteq Timer /\ Listed \subseteq Timer
BY ToSetIs DEF Placed, Known, Listed

LEMMA SaveStep == Inv /\ Save => Inv' /\ Ends
<1> SUFFICES ASSUME Inv, Save PROVE Inv' /\ Ends
  OBVIOUS
<1> USE DEF Inv
<1>0. /\ pc = "save" /\ pc' = "idle" /\ then' = "idle" /\ file' = Saved(tm)
      /\ UNCHANGED <<clockVars, tl, list, processed, tm, who, dialog>>
  BY DEF Save
<1>1. Placed' /\ Listed' = Listed /\ Known' = Known /\ Known \subseteq Timer
  BY <1>0, StillPlaced, KnownIs
<1>2. Flow' /\ Revived' /\ Asked'
  BY <1>0, <1>1 DEF Flow, Revived, Asked, After
<1>3. Kept'
  <2>1. tl = {} /\ tm \in [Timer -> Entry]
    BY <1>0 DEF Revived, Placed
  <2> QED
    BY <1>0, <1>1, <2>1, StoredIs DEF Kept
<1> QED
  BY <1>0, <1>1, <1>2, <1>3, TimesStay DEF Ends

(* The fields that the user may change.                                    *)
Edited(e, b, n, r) == [e EXCEPT !.begin = b, !.end = n, !.repeated = r]

LEMMA EditedIs ==
  ASSUME NEW e \in Entry, NEW b \in Int, NEW n \in Int, NEW r \in BOOLEAN
  PROVE  /\ Edited(e, b, n, r) \in Entry
         /\ Edited(e, b, n, r).state = e.state /\ Edited(e, b, n, r).svc = e.svc
         /\ Edited(e, b, n, r).begin = b /\ Edited(e, b, n, r).end = n
         /\ (Edited(e, b, n, r).repeated <=> r)
BY DEF Edited, Entry

Switched(e, d) == [e EXCEPT !.disabled = d]

LEMMA SwitchedIs ==
  ASSUME NEW w, NEW e \in Entry, NEW d \in BOOLEAN, Held(w, e)
  PROVE  /\ Switched(e, d) \in Entry /\ Held(w, Switched(e, d))
         /\ Switched(e, d).state = e.state
         /\ Switched(e, d).repeated = e.repeated /\ Switched(e, d).begin = e.begin
         /\ Switched(e, d).end = e.end /\ (Switched(e, d).disabled <=> d)
BY DEF Switched, Entry, Held

(* abort leaves a recording to its end, which is now.                      *)
LEMMA AbortIs ==
  ASSUME NEW w, NEW e \in Entry, Held(w, e), now \in Nat
  PROVE  /\ abort(e) \in Entry /\ Held(w, abort(e)) /\ abort(e).state = e.state
         /\ abort(e).svc = e.svc
         /\ abort(e).end = now /\ abort(e).begin <= now /\ ~abort(e).repeated
<1> DEFINE b == IF e.begin > now THEN now ELSE e.begin
           r == FALSE
           f == Edited(e, b, now, r)
<1>1. b \in Int /\ b <= now /\ now \in Int /\ r \in BOOLEAN /\ ~r
  BY DEF Entry
<1>2. abort(e) = f
  BY Zenon DEF abort, Edited
<1> HIDE DEF b, r
<1>3. /\ f \in Entry /\ f.state = e.state /\ f.svc = e.svc
      /\ f.begin = b /\ f.end = now /\ (f.repeated <=> r)
  BY <1>1, EditedIs
<1> QED
  BY <1>1, <1>2, <1>3 DEF Held

(* The fields of one entry change where it is.                             *)
LEMMA InPlace ==
  ASSUME Placed, NEW w \in Timer, NEW e \in Entry, Held(w, e), e.state = tm[w].state,
         tm' = [tm EXCEPT ![w] = e], UNCHANGED <<list, processed>>
  PROVE  Placed' /\ Listed' = Listed /\ Known' = Known /\ Ends
<1>1. Listed' = Listed /\ Known' = Known
  BY DEF Listed, Known
<1>2. /\ tm' \in [Timer -> Entry] /\ tm'[w] = e
      /\ \A x \in Timer \ {w} : tm'[x] = tm[x]
  BY DEF Placed
<1>3. \A x \in Timer : (tm'[x].state = "ended" <=> x \notin Listed) /\ Held(x, tm'[x])
  BY <1>2 DEF Placed
<1>4. Distinct(list') /\ list' \in Seq(Timer) /\ processed' \subseteq Timer
      /\ Listed' \cap processed' = {}
  BY <1>1 DEF Placed, Distinct
<1>5. Placed'
  BY <1>1, <1>2, <1>3, <1>4 DEF Placed
<1> QED
  BY <1>1, <1>2, <1>5 DEF Ends

LEMMA RemoveEntryStep ==
  ASSUME NEW w \in Timer
  PROVE  Inv /\ removeEntry(w) => Inv' /\ Ends
<1> SUFFICES ASSUME Inv, removeEntry(w) PROVE Inv' /\ Ends
  OBVIOUS
<1> DEFINE e == abort(tm[w])
<1>0. /\ pc = "idle" /\ dialog = "none" /\ w \in Known /\ who' = w /\ then' = "forget"
      /\ UNCHANGED <<clockVars, tl, dialog, file>>
  BY DEF removeEntry, Ready
<1>1. tl = {} /\ then = "idle" /\ now \in Nat
  BY <1>0, WhenReady
<1> USE DEF Inv
<1>2. tm \in [Timer -> Entry] /\ Held(w, tm[w])
  BY DEF Placed
<1>3. e \in Entry /\ Held(w, e) /\ e.state = tm[w].state
  BY <1>1, <1>2, AbortIs
<1>4. Placed' /\ Known' \subseteq Known /\ Ends /\ pc' \in {"forget", "calc"}
  <2>1. CASE tm[w].state = "ended"
    <3>1. /\ pc' = "forget" /\ tm' = [tm EXCEPT ![w] = e] /\ UNCHANGED <<list, processed>>
      BY <2>1 DEF removeEntry
    <3> HIDE DEF e
    <3> QED
      BY <1>3, <3>1, InPlace
  <2>2. CASE tm[w].state # "ended"
    <3>1. ReAdd(w, e, "forget")
      BY <2>2 DEF removeEntry
    <3> HIDE DEF e
    <3>2. ReAdding(w, e, "forget")
      BY <1>1, <1>3, <3>1, ReAdds
    <3> QED
      BY <1>3, <3>2, ReAddKeeps DEF Ends
  <2> QED
    BY <2>1, <2>2
<1>5. Times'
  BY <1>0, TimesStay
<1>6. Flow' /\ Revived' /\ Asked'
  BY <1>0, <1>1, <1>4 DEF Flow, Revived, Asked, After
<1>7. Kept'
  BY <1>0, <1>1, <1>4, KeptStays
<1> QED
  BY <1>4, <1>5, <1>6, <1>7

(* Done entries are dropped.                                               *)
LEMMA Dropped ==
  ASSUME Placed, NEW D, D \subseteq processed, processed' = processed \ D, UNCHANGED list,
         tm' = [w \in Timer |-> IF w \in D THEN Blank ELSE tm[w]]
  PROVE  Placed' /\ Listed' = Listed /\ Known' = Known \ D /\ Ends
<1>1. Listed' = Listed /\ Known' = Known \ D
  BY DEF Placed, Listed, Known
<1>2. \A w \in Timer : tm'[w] = IF w \in D THEN Blank ELSE tm[w]
  OBVIOUS
<1>3. \A w \in D : w \notin Listed /\ w \in Timer /\ tm[w].state = "ended"
  BY DEF Placed
<1>4. tm' \in [Timer -> Entry]
  BY BlankIs DEF Placed
<1>5. \A x \in Timer : (tm'[x].state = "ended" <=> x \notin Listed) /\ Held(x, tm'[x])
  BY <1>2, <1>3, BlankIs DEF Placed, Held
<1>6. Distinct(list') /\ list' \in Seq(Timer) /\ processed' \subseteq Timer
      /\ Listed' \cap processed' = {}
  BY <1>1 DEF Placed, Distinct
<1>7. Placed'
  BY <1>1, <1>4, <1>5, <1>6 DEF Placed
<1> QED
  BY <1>1, <1>2, <1>3, <1>7 DEF Ends

LEMMA ForgetStep == Inv /\ Forget => Inv' /\ Ends
<1> SUFFICES ASSUME Inv, Forget PROVE Inv' /\ Ends
  OBVIOUS
<1> USE DEF Inv
<1>0. /\ pc = "forget" /\ who \in processed /\ processed' = processed \ {who}
      /\ tm' = [tm EXCEPT ![who] = Blank] /\ file' = [Saved(tm) EXCEPT ![who] = NotSaved]
      /\ pc' = "idle" /\ then' = "idle" /\ who' = NoTimer
      /\ UNCHANGED <<clockVars, tl, list, dialog>>
  BY DEF Forget
<1>1. /\ tm \in [Timer -> Entry] /\ who \in Timer /\ then = "forget" /\ tl = {}
      /\ Known \subseteq Timer
  BY <1>0, KnownIs DEF Placed, Flow, Revived, After
<1>2. tm' = [w \in Timer |-> IF w \in {who} THEN Blank ELSE tm[w]]
  BY <1>0, <1>1
<1>3. Placed' /\ Listed' = Listed /\ Known' = Known \ {who} /\ Ends
  <2> DEFINE D == {who}
  <2>1. /\ D \subseteq processed /\ processed' = processed \ D
        /\ tm' = [w \in Timer |-> IF w \in D THEN Blank ELSE tm[w]]
    BY <1>0, <1>2
  <2>2. Known \ D = Known \ {who}
    OBVIOUS
  <2> HIDE DEF D
  <2> QED
    BY <1>0, <2>1, <2>2, Dropped
<1>4. dialog = "none"
  BY <1>1 DEF Flow
<1>5. Times'
  BY <1>0, TimesStay
<1>6. Flow' /\ Asked'
  BY <1>0, <1>4 DEF Flow, Asked, After
<1>7. Revived'
  BY <1>0, <1>1 DEF Revived
<1>8. Kept'
  <2>1. NotSaved \in Stored
    BY DEF NotSaved, Stored
  <2>2. Saved(tm) \in [Timer -> Stored] /\ \A w \in Timer : w \in Known => Saved(tm)[w].saved
    BY <1>1, StoredIs
  <2>3. /\ file' \in [Timer -> Stored]
        /\ \A w \in Timer : w # who => file'[w] = Saved(tm)[w]
    BY <1>0, <1>1, <2>1, <2>2
  <2> QED
    BY <1>0, <1>1, <1>3, <2>2, <2>3 DEF Kept
<1> QED
  BY <1>3, <1>5, <1>6, <1>7, <1>8

LEMMA KeyGoStep ==
  ASSUME NEW w \in Timer, NEW b \in Int, NEW n \in Int
  PROVE  Inv /\ keyGo(w, b, n) => Inv' /\ Ends
<1> SUFFICES ASSUME Inv, keyGo(w, b, n) PROVE Inv' /\ Ends
  OBVIOUS
<1> USE DEF Inv
<1> DEFINE r == w \in Repeats
           e == Edited(tm[w], b, n, r)
<1>0. /\ pc = "idle" /\ dialog = "none" /\ w \in Known
      /\ file' = Saved(tm') /\ who' = w /\ dialog' = "edited"
      /\ UNCHANGED <<clockVars, tl, list, processed, pc, then>>
  BY DEF keyGo, Ready
<1>1. tl = {} /\ then = "idle"
  BY <1>0, WhenReady
<1>2. tm \in [Timer -> Entry] /\ tm[w] \in Entry /\ Held(w, tm[w])
  BY DEF Placed
<1>3. tm' = [tm EXCEPT ![w] = e]
  BY Zenon DEF keyGo, Edited
<1>4. r \in BOOLEAN
  OBVIOUS
<1> HIDE DEF r
<1>5. e \in Entry /\ e.state = tm[w].state /\ e.svc = tm[w].svc
  BY <1>2, <1>4, EditedIs
<1>6. Held(w, e)
  BY <1>2, <1>5 DEF Held
<1> HIDE DEF e
<1>7. Placed' /\ Listed' = Listed /\ Known' = Known /\ Ends
  BY <1>0, <1>3, <1>5, <1>6, InPlace
<1>8. Times'
  BY <1>0, TimesStay
<1>9. Flow' /\ Revived' /\ Asked'
  BY <1>0, <1>1, <1>7 DEF Flow, Revived, Asked, After
<1>10. Kept'
  <2>1. Known \subseteq Timer
    BY KnownIs
  <2>2. tm' \in [Timer -> Entry]
    BY <1>7 DEF Placed
  <2>3. file' \in [Timer -> Stored] /\ \A x \in Timer : x \in Known => file'[x].saved
    BY <1>0, <2>2, StoredIs
  <2> QED
    BY <1>0, <1>1, <1>7, <2>1, <2>3 DEF Kept
<1> QED
  BY <1>7, <1>8, <1>9, <1>10

LEMMA FinishedEditStep == Inv /\ finishedEdit => Inv' /\ Ends
<1> SUFFICES ASSUME Inv, finishedEdit PROVE Inv' /\ Ends
  OBVIOUS
<1> USE DEF Inv
<1>0. /\ pc = "idle" /\ dialog = "edited" /\ dialog' = "none" /\ who' = NoTimer
      /\ UNCHANGED <<clockVars, tl, then, file>>
  BY DEF finishedEdit
<1>1. tl = {} /\ then = "idle" /\ now \in Nat
  BY <1>0, WhenReady
<1>2. who \in Timer /\ tm[who] \in Entry /\ Held(who, tm[who])
  BY <1>0 DEF Flow, Placed
<1>3. Placed' /\ Known' \subseteq Known /\ Ends /\ pc' \in {"idle", "calc"}
  <2>1. CASE ReAdd(who, tm[who], "idle")
    <3>1. ReAdding(who, tm[who], "idle")
      BY <1>1, <1>2, <2>1, ReAdds
    <3> QED
      BY <1>2, <3>1, ReAddKeeps DEF Ends
  <2>2. CASE UNCHANGED <<list, processed, tm, pc>>
    BY <1>0, <2>2, StillPlaced DEF Ends
  <2> QED
    BY <2>1, <2>2 DEF finishedEdit
<1>4. Times'
  BY <1>0, TimesStay
<1>5. Flow' /\ Revived' /\ Asked'
  BY <1>0, <1>1, <1>3 DEF Flow, Revived, Asked, After
<1>6. Kept'
  BY <1>0, <1>1, <1>3, KeptStays
<1> QED
  BY <1>3, <1>4, <1>5, <1>6

LEMMA ToggleStep ==
  ASSUME NEW w \in Timer
  PROVE  Inv /\ toggleDisabledState(w) => Inv' /\ Ends
<1> SUFFICES ASSUME Inv, toggleDisabledState(w) PROVE Inv' /\ Ends
  OBVIOUS
<1> USE DEF Inv
<1> DEFINE running == ~tm[w].disabled /\ tm[w].state = "running"
<1>0. /\ pc = "idle" /\ dialog = "none" /\ w \in Known
      /\ dialog' = (IF running /\ tm[w].repeated THEN "asked" ELSE "none")
      /\ who' = (IF running /\ tm[w].repeated THEN w ELSE NoTimer)
      /\ UNCHANGED <<clockVars, tl, then, file>>
  BY DEF toggleDisabledState, Ready
<1>1. tl = {} /\ then = "idle" /\ now \in Nat
  BY <1>0, WhenReady
<1>2. tm[w] \in Entry /\ Held(w, tm[w])
  BY DEF Placed
<1>3. PICK d \in BOOLEAN :
        ReAdd(w, Switched(tm[w], d), "idle") /\ (running => ~d)
  BY DEF toggleDisabledState, Switched
<1> DEFINE e == Switched(tm[w], d)
<1>4. /\ e \in Entry /\ Held(w, e) /\ e.state = tm[w].state
      /\ e.repeated = tm[w].repeated /\ (e.disabled <=> d)
  BY <1>2, SwitchedIs
<1>5. ReAdd(w, e, "idle")
  BY <1>3
<1> HIDE DEF e
<1>6. ReAdding(w, e, "idle")
  BY <1>1, <1>4, <1>5, ReAdds
<1>7. /\ Placed' /\ Known' \subseteq Known /\ Ends /\ pc' \in {"idle", "calc"}
      /\ SameKind(e, tm'[w])
      /\ e.state \notin {"waiting", "ended"} => w \in Listed'
  BY <1>4, <1>5, <1>6, ReAddKeeps DEF Ends
<1>8. Times'
  BY <1>0, TimesStay
<1>9. Flow' /\ Revived'
  BY <1>0, <1>1, <1>7 DEF Flow, Revived, After
<1>10. Kept'
  BY <1>0, <1>1, <1>7, KeptStays
<1>11. Asked'
  BY <1>0, <1>3, <1>4, <1>7 DEF Asked, SameKind
<1> QED
  BY <1>7, <1>8, <1>9, <1>10, <1>11

LEMMA AnswerStep == Inv /\ Answer => Inv' /\ Ends
<1> SUFFICES ASSUME Inv, Answer PROVE Inv' /\ Ends
  OBVIOUS
<1> USE DEF Inv
<1>0. pc = "idle" /\ dialog = "asked" /\ UNCHANGED <<clockVars, tl, file>>
  BY DEF Answer
<1>1. tl = {} /\ then = "idle" /\ now \in Nat
  BY <1>0, WhenReady
<1>2. who \in Timer /\ tm \in [Timer -> Entry] /\ tm[who] \in Entry /\ Held(who, tm[who])
  BY <1>0 DEF Flow, Placed
<1>3. Times'
  BY <1>0, TimesStay
<1>4. CASE /\ \/ UNCHANGED <<list, processed, tm, pc>>
              \/ ReAdd(who, [tm[who] EXCEPT !.disabled = TRUE], "idle")
           /\ dialog' = "none" /\ who' = NoTimer /\ UNCHANGED then
  <2>1. Placed' /\ Known' \subseteq Known /\ Ends /\ pc' \in {"idle", "calc"}
    <3>1. CASE UNCHANGED <<list, processed, tm, pc>>
      BY <1>0, <3>1, StillPlaced DEF Ends
    <3>2. CASE ReAdd(who, [tm[who] EXCEPT !.disabled = TRUE], "idle")
      <4> DEFINE d == TRUE  e == Switched(tm[who], d)
      <4>1. d \in BOOLEAN
        OBVIOUS
      <4>2. ReAdd(who, e, "idle")
        BY <3>2 DEF Switched
      <4> HIDE DEF d
      <4>3. e \in Entry /\ Held(who, e) /\ e.state = tm[who].state
        BY <1>2, <4>1, SwitchedIs
      <4> HIDE DEF e
      <4>4. ReAdding(who, e, "idle")
        BY <1>1, <1>2, <4>2, <4>3, ReAdds
      <4> QED
        BY <1>2, <4>3, <4>4, ReAddKeeps DEF Ends
    <3> QED
      BY <1>4, <3>1, <3>2
  <2>2. Flow' /\ Revived' /\ Asked'
    BY <1>0, <1>1, <1>4, <2>1 DEF Flow, Revived, Asked, After
  <2>3. Kept'
    BY <1>0, <1>1, <1>4, <2>1, KeptStays
  <2> QED
    BY <1>3, <2>1, <2>2, <2>3
<1>5. CASE /\ tm' = [tm EXCEPT ![who] = processRepeated([@ EXCEPT !.disabled = FALSE], FALSE)]
           /\ dialog' \in {"none", "stopall"} /\ pc' = "stop" /\ then' = "rearm"
           /\ UNCHANGED <<list, processed, who>>
  <2> DEFINE d == FALSE  s == Switched(tm[who], d)  e == processRepeated(s, d)
  <2>1. d \in BOOLEAN
    OBVIOUS
  <2>2. tm' = [tm EXCEPT ![who] = e]
    BY <1>5, Zenon DEF Switched
  <2> HIDE DEF d
  <2>3. s \in Entry /\ Held(who, s) /\ s.state = tm[who].state
    BY <1>2, <2>1, SwitchedIs
  <2> HIDE DEF s
  <2>4. e \in Entry /\ e.state = s.state /\ e.svc = s.svc
    BY <1>1, <2>1, <2>3, ProcessRepeatedIs
  <2>5. Held(who, e)
    BY <2>3, <2>4 DEF Held
  <2> HIDE DEF e
  <2>6. Placed' /\ Listed' = Listed /\ Known' = Known /\ Ends
    BY <1>2, <1>5, <2>2, <2>3, <2>4, <2>5, InPlace
  <2>7. Flow' /\ Revived' /\ Asked'
    BY <1>0, <1>1, <1>2, <1>5, <2>6 DEF Flow, Revived, Asked, After
  <2>8. Kept'
    BY <1>0, <1>1, <1>5, <2>6, KeptStays
  <2> QED
    BY <1>3, <2>6, <2>7, <2>8
<1> QED
  BY <1>4, <1>5 DEF Answer

LEMMA StopNowStep == Inv /\ StopNow => Inv' /\ Ends
<1> SUFFICES ASSUME Inv, StopNow PROVE Inv' /\ Ends
  OBVIOUS
<1> USE DEF Inv
<1>0. /\ pc = "stop" /\ who \in Listed /\ doActivate(who, "rearm")
      /\ UNCHANGED <<clockVars, tl, then, who, dialog, file>>
  BY DEF StopNow
<1>1. then = "rearm" /\ tl = {} /\ now \in Nat
  BY <1>0, Numbers DEF Flow, Revived, Times, After
<1>2. Others(who, Without(list, who), processed) /\ Acting(who, "rearm")
  BY <1>0, <1>1, Acts
<1>3. /\ Placed' /\ Known' \subseteq Known /\ pc' \in {"rearm", "calc"}
      /\ SameKind(tm[who], tm'[who])
      /\ tm[who].repeated /\ ~tm[who].disabled => who \in Listed'
  BY <1>0, <1>2, ActingKeeps
<1>4. Flow' /\ Revived'
  BY <1>0, <1>1, <1>3 DEF Flow, Revived, After
<1>5. Asked'
  BY <1>0, <1>3 DEF Asked, SameKind
<1>6. Kept'
  BY <1>0, <1>1, <1>3, KeptStays
<1>7. Ends
  BY <1>0 DEF Ends
<1> QED
  BY <1>0, <1>3, <1>4, <1>5, <1>6, <1>7, TimesStay

LEMMA RearmStep == Inv /\ Rearm => Inv' /\ Ends
<1> SUFFICES ASSUME Inv, Rearm PROVE Inv' /\ Ends
  OBVIOUS
<1> USE DEF Inv
<1> DEFINE d == tm[who].disabled \/ dialog = "stopall"  e == Switched(tm[who], d)
<1>0. /\ pc = "rearm" /\ ReAdd(who, e, "idle")
      /\ dialog' = "none" /\ who' = NoTimer /\ then' = "idle"
      /\ UNCHANGED <<clockVars, tl, file>>
  BY DEF Rearm, Switched
<1>1. then = "rearm" /\ tl = {} /\ now \in Nat /\ who \in Timer
  BY <1>0, Numbers DEF Flow, Revived, Times, After
<1>2. tm[who] \in Entry /\ Held(who, tm[who])
  BY <1>1 DEF Placed
<1>3. d \in BOOLEAN
  OBVIOUS
<1> HIDE DEF d
<1>4. e \in Entry /\ Held(who, e) /\ e.state = tm[who].state
  BY <1>2, <1>3, SwitchedIs
<1> HIDE DEF e
<1>5. ReAdding(who, e, "idle")
  BY <1>0, <1>1, <1>4, ReAdds
<1>6. Placed' /\ Known' \subseteq Known /\ Ends /\ pc' \in {"idle", "calc"}
  BY <1>1, <1>4, <1>5, ReAddKeeps DEF Ends
<1>7. Flow' /\ Revived' /\ Asked'
  BY <1>0, <1>1, <1>6 DEF Flow, Revived, Asked, After
<1>8. Kept'
  BY <1>0, <1>1, <1>6, KeptStays
<1> QED
  BY <1>0, <1>6, <1>7, <1>8, TimesStay

LEMMA CleanupStep == Inv /\ cleanup => Inv' /\ Ends
<1> SUFFICES ASSUME Inv, cleanup PROVE Inv' /\ Ends
  OBVIOUS
<1> USE DEF Inv
<1> DEFINE D == {w \in processed : ~tm[w].disabled}
<1>0. /\ pc = "idle" /\ dialog = "none" /\ processed' = processed \ D
      /\ tm' = [w \in Timer |-> IF w \in D THEN Blank ELSE tm[w]]
      /\ UNCHANGED <<clockVars, tl, list, pc, then, who, dialog, file>>
  BY DEF cleanup, Ready
<1>1. Placed' /\ Listed' = Listed /\ Known' = Known \ D /\ Ends
  <2>1. D \subseteq processed
    OBVIOUS
  <2> HIDE DEF D
  <2> QED
    BY <1>0, <2>1, Dropped
<1> HIDE DEF D
<1>2. Flow' /\ Revived' /\ Asked'
  BY <1>0, <1>1 DEF Flow, Revived, Asked, After
<1>3. Kept'
  BY <1>0, <1>1, KeptStays
<1> QED
  BY <1>0, <1>1, <1>2, <1>3, TimesStay

-----------------------------------------------------------------------------
(***************************************************************************)
(* The restart.                                                            *)
(***************************************************************************)
LEMMA RestartStep == Inv /\ Restart => Inv' /\ Ends
<1> SUFFICES ASSUME Inv, Restart PROVE Inv' /\ Ends
  OBVIOUS
<1> USE DEF Inv
<1>0. /\ \/ pc = "idle" /\ file' = Saved(tm)
         \/ UNCHANGED file
      /\ list' = <<>> /\ processed' = {} /\ tl' = {} /\ tm' = [w \in Timer |-> Blank]
      /\ last' = now /\ wait' = InitialPause
      /\ pc' = "load" /\ then' = "load" /\ who' = NoTimer /\ dialog' = "none"
      /\ UNCHANGED <<now, jumps>>
  BY DEF Restart
<1>1. Listed' = {} /\ Known' = {} /\ list' \in Seq(Timer) /\ Distinct(list')
  BY <1>0 DEF Listed, Known, ToSet, Distinct
<1>2. \A x \in Timer : tm'[x] = Blank
  BY <1>0
<1>3. tm' \in [Timer -> Entry]
  BY <1>0, BlankIs
<1>4. Placed'
  BY <1>0, <1>1, <1>2, <1>3, BlankIs DEF Placed, Held
<1>5. Times'
  <2>1. jumped' \in BOOLEAN
    BY Zenon DEF Restart
  <2>2. InitialPause \in 0 .. MaxWaitTime
    BY InitPauseIs DEF Times
  <2> QED
    BY <1>0, <2>1, <2>2 DEF Times
<1>6. Flow' /\ Revived' /\ Asked'
  BY <1>0, <1>1 DEF Flow, Revived, Asked, After
<1>7. Kept'
  <2>1. file' \in [Timer -> Stored]
    BY <1>0, StoredIs DEF Kept, Placed
  <2> QED
    BY <1>0, <1>1, <2>1 DEF Kept
<1> QED
  BY <1>0, <1>4, <1>5, <1>6, <1>7 DEF Ends

LEMMA LoadStep == Inv /\ Load => Inv' /\ Ends
<1> SUFFICES ASSUME Inv, Load PROVE Inv' /\ Ends
  OBVIOUS
<1> USE DEF Inv
<1>0. pc = "load" /\ UNCHANGED <<clockVars, tl, who, dialog, file>>
  BY DEF Load
<1>1. then = "load" /\ tl = {}
  BY <1>0 DEF Flow, Revived, After
<1>2. Times'
  BY <1>0, TimesStay
<1>3. CASE pc' = "idle" /\ then' = "idle" /\ UNCHANGED <<list, processed, tm>>
  <2>1. Placed' /\ Listed' = Listed /\ Known' = Known
    BY <1>3, StillPlaced
  <2>2. Flow' /\ Revived' /\ Asked'
    BY <1>0, <1>1, <1>3, <2>1 DEF Flow, Revived, Asked, After
  <2>3. Kept'
    BY <1>0, <1>1, <1>3, <2>1, KeptStays
  <2> QED
    BY <1>2, <1>3, <2>1, <2>2, <2>3 DEF Ends
<1>4. ASSUME NEW w \in Timer, file[w].saved, w \notin Known, UNCHANGED then,
             addTimerEntry(w, New(file[w].begin, file[w].end, file[w].repeated,
                                  file[w].disabled), list, processed, FALSE, "load")
      PROVE  Inv' /\ Ends
  <2> DEFINE e == New(file[w].begin, file[w].end, file[w].repeated, file[w].disabled)
  <2>1. e \in Entry /\ Held(w, e)
    <3>1. /\ file[w].begin \in Int /\ file[w].end \in Int
          /\ file[w].repeated \in BOOLEAN /\ file[w].disabled \in BOOLEAN
      BY DEF Kept, Stored
    <3> QED
      BY <3>1, NewIs
  <2> HIDE DEF e
  <2>2. addTimerEntry(w, e, list, processed, FALSE, "load")
    BY <1>4 DEF e
  <2>3. /\ Placed' /\ Known' \subseteq Known \cup {w} /\ Ends /\ pc' \in {"load", "calc"}
    BY <1>1, <1>4, <2>1, <2>2, AddingKeeps
  <2>4. Flow' /\ Revived'
    BY <1>0, <1>1, <1>4, <2>3 DEF Flow, Revived, After
  <2>5. Kept'
    BY <1>0, <1>1, <1>4, <2>3 DEF Kept
  <2>6. Asked'
    BY <1>0, <1>1, <2>3 DEF Asked, Flow
  <2> QED
    BY <1>2, <2>3, <2>4, <2>5, <2>6
<1> QED
  BY <1>3, <1>4 DEF Load

-----------------------------------------------------------------------------
(***************************************************************************)
(* The theorems.                                                           *)
(***************************************************************************)
LEMMA StepIs == Inv /\ Next => Inv' /\ Ends
<1> SUFFICES ASSUME Inv, Next PROVE Inv' /\ Ends
  OBVIOUS
<1>1. CASE Loop
  BY <1>1, CalcStep, ReevaluateStep, ActivateStep, FinishStep DEF Loop
<1>2. ASSUME NEW t \in Warps, Warp(t) PROVE Inv' /\ Ends
  BY <1>2, WarpStep
<1>3. ASSUME NEW w \in Timer, NEW l \in Leads, NEW d \in Lengths,
             record(w, now + l, now + l + d) \/ keyGo(w, now + l, now + l + d)
      PROVE  Inv' /\ Ends
  <2>1. now \in Nat
    BY Numbers DEF Inv, Times
  <2>2. now + l \in Int /\ now + l + d \in Int
    BY <2>1, InputsAreTimes
  <2> QED
    BY <1>3, <2>2, RecordStep, KeyGoStep
<1>4. ASSUME NEW w \in Timer, removeEntry(w) \/ toggleDisabledState(w) PROVE Inv' /\ Ends
  BY <1>4, RemoveEntryStep, ToggleStep
<1>5. CASE Fire \/ Tick \/ Save \/ Forget \/ finishedEdit
  BY <1>5, FireStep, TickStep, SaveStep, ForgetStep, FinishedEditStep
<1>6. CASE Answer \/ StopNow \/ Rearm \/ cleanup \/ Restart \/ Load
  BY <1>6, AnswerStep, StopNowStep, RearmStep, CleanupStep, RestartStep, LoadStep
<1> QED
  BY <1>1, <1>2, <1>3, <1>4, <1>5, <1>6 DEF Next

LEMMA StutterIs == Inv /\ UNCHANGED vars => Inv' /\ Ends
<1> SUFFICES ASSUME Inv, UNCHANGED vars PROVE Inv' /\ Ends
  OBVIOUS
<1>1. UNCHANGED <<list, processed, tl, tm, pc, then, who, dialog, file>> /\ Times'
  BY TimesStay DEF vars, Inv
<1> QED
  BY <1>1, ClockStep

LEMMA Invariance == Spec => []Inv
<1>1. Inv /\ [Next]_vars => Inv'
  BY StepIs, StutterIs
<1> QED
  BY <1>1, InitInv, PTL DEF Spec

(* Types: the eTimer is never started with a negative time or for longer   *)
(* than MaxWaitTime (Timer.setNextActivation), and calcNextActivation      *)
(* always returns to a caller.                                             *)
THEOREM TypeCorrect == Spec => []TypeOK
<1>1. Inv => TypeOK
  BY InvImplies
<1> QED
  BY <1>1, Invariance, PTL

(* Every entry is in one place, through all that Timer.doActivate,         *)
(* addTimerEntry, timeChanged and the timer screen do to the lists.        *)
THEOREM EntriesArePlaced == Spec => []EntryPlaced
<1>1. Inv => EntryPlaced
  BY InvImplies
<1> QED
  BY <1>1, Invariance, PTL

(* No record service is leaked and none is given up early by               *)
(* RecordTimerEntry.activate and what is done to an entry around it.       *)
THEOREM ServiceAlwaysHeld == Spec => []ServiceHeld
<1>1. Inv => ServiceHeld
  BY InvImplies
<1> QED
  BY <1>1, Invariance, PTL

(* RecordTimer.saveTimer is called wherever an entry could otherwise be    *)
(* lost by a restart.                                                      *)
THEOREM EntriesAlwaysSaved == Spec => []EntriesSaved
<1>1. Inv => EntriesSaved
  BY InvImplies
<1> QED
  BY <1>1, Invariance, PTL

(* A recording goes on to its end, unless the user stops it or the program *)
(* ends: no other entry, no edit and no change of the clock stops it.      *)
THEOREM RecordingsReachTheirEnd == Spec => RecordsToTheEnd
<1>1. Inv /\ [Next]_vars =>
        [\A w \in Timer : tm[w].state = "running" /\ tm'[w].state # "running" =>
           tm[w].end <= now \/ pc = "stop" \/ pc' = "load"]_vars
  BY StepIs DEF Ends
<1> QED
  BY <1>1, Invariance, PTL DEF Spec, RecordsToTheEnd

-----------------------------------------------------------------------------
(***************************************************************************)
(* The order of the list.  bisect finds the place of an entry only in a    *)
(* list that is sorted, which it is while no edit is given up and no entry *)
(* is activated while one is open; the entry that is edited or stopped     *)
(* (Loose) is the only one out of its place then.                          *)
(***************************************************************************)
Undisturbed == ~Refused /\ ~Interleaved

Loose == IF dialog = "edited" \/ pc \in {"stop", "rearm"} THEN who ELSE NoTimer

(* When the eTimer fires, nothing in S has been due for long.              *)
Wakes(S) == ~jumped => \A x \in S : wait = 0 \/ now + wait <= Key(tm[x])

Orderly ==
  /\ OrderedBut(list, tm, Loose)
  /\ dialog = "edited" => pc = "idle"
  /\ pc \in After \cup {"stop"} => Wakes(Listed \ {Loose})

LEMMA AllInOrder ==
  ASSUME NEW L \in Seq(Timer), NEW T
  PROVE  /\ OrderedBut(L, T, NoTimer) <=> Ordered(L, T)
         /\ \A x : Ordered(L, T) => OrderedBut(L, T, x)
<1>1. \A i \in DOMAIN L : L[i] \in Timer /\ L[i] # NoTimer
  BY TimerAssumption DEF TimerAssumption
<1> QED
  BY <1>1 DEF Ordered, OrderedBut

(* When the list and the entries in it stay, apart from x.                 *)
LEMMA StillOrdered ==
  ASSUME Placed, UNCHANGED list, NEW x, \A y \in Listed \ {x} : tm'[y] = tm[y],
         OrderedBut(list, tm, x)
  PROVE  OrderedBut(list', tm', x)
<1>1. \A i \in DOMAIN list : list[i] \in Listed
  BY DEF Listed, ToSet
<1> QED
  BY <1>1 DEF OrderedBut

LEMMA StillWakes ==
  ASSUME NEW S, NEW R, R \subseteq S, UNCHANGED clockVars, \A y \in R : tm'[y] = tm[y], Wakes(S)
  PROVE  (~jumped => \A y \in R : wait = 0 \/ now + wait <= Key(tm[y]))'
BY DEF Wakes, clockVars, Key

(* When one entry is put in its place and only it was out of it.           *)
LEMMA PutSorts ==
  ASSUME Placed, NEW w \in Timer, NEW P, Others(w, Without(list, w), P),
         Put(w, Without(list, w), P), OrderedBut(list, tm, w) \/ OrderedBut(list, tm, NoTimer)
  PROVE  /\ Ordered(list', tm') /\ \A x : OrderedBut(list', tm', x)
         /\ Listed' \subseteq Listed \cup {w} /\ Listed \ {w} \subseteq Listed'
         /\ \A x \in Listed' \ {w} : tm'[x] = tm[x]
         /\ PutAway(w, Without(list, w), P) => w \notin Listed'
<1>1. list \in Seq(Timer) /\ Distinct(list) /\ OrderedBut(list, tm, w)
  BY AllInOrder DEF Placed
<1>2. Ordered(Without(list, w), tm)
  BY <1>1, WithoutOrder
<1>3. Ordered(list', tm') /\ Placed'
  BY <1>2, PutOrders, PutPlaces
<1>4. ToSet(Without(list, w)) = Listed \ {w}
  BY <1>1, WithoutSet DEF Listed
<1>5. /\ Listed \ {w} \subseteq Listed' /\ Listed' \subseteq Listed \cup {w}
      /\ PutAway(w, Without(list, w), P) => w \notin Listed'
  BY <1>4, PutPlaces DEF Put
<1>6. \A x \in Listed' \ {w} : tm'[x] = tm[x]
  <2> SUFFICES ASSUME NEW x \in Listed' \ {w} PROVE tm'[x] = tm[x]
    OBVIOUS
  <2>1. x \in Timer /\ tm[x].state # "ended"
    BY <1>5, KnownIs DEF Placed
  <2> QED
    BY <2>1 DEF Put, AsBefore
<1>7. \A x : OrderedBut(list', tm', x)
  BY <1>3, AllInOrder DEF Placed
<1> QED
  BY <1>3, <1>5, <1>6, <1>7

(* The steps of calcNextActivation keep the list sorted ...                *)
LEMMA LoopOrderly ==
  ASSUME Inv, Inv', Orderly, calcNextActivation \/ Reevaluate \/ Activate
  PROVE  Orderly'
<1>0. /\ pc \in {"calc", "revive", "loop"} /\ pc' \in {"calc", "revive", "loop"}
      /\ UNCHANGED <<who, dialog>> /\ dialog # "edited"
      /\ Loose = NoTimer /\ Loose' = NoTimer /\ Placed /\ now \in Nat
  <2>1. pc \in {"calc", "revive", "loop"} /\ UNCHANGED <<who, dialog>>
    BY DEF calcNextActivation, Reevaluate, Activate
  <2>2. dialog # "edited"
    BY <2>1 DEF Orderly
  <2>3. pc' \in {"calc", "revive", "loop"}
    <3>1. CASE calcNextActivation
      BY <3>1 DEF calcNextActivation
    <3>2. CASE Reevaluate
      BY <3>2 DEF Reevaluate, addTimerEntry
    <3>3. CASE Activate
      BY <3>3 DEF Activate, doActivate, addTimerEntry
    <3> QED
      BY <3>1, <3>2, <3>3
  <2> QED
    BY <2>1, <2>2, <2>3, Numbers DEF Loose, Inv, Times
<1>1. OrderedBut(list, tm, NoTimer)
  BY <1>0 DEF Orderly
<1>2. SUFFICES OrderedBut(list', tm', NoTimer)
  BY <1>0 DEF Orderly, After
<1>3. CASE UNCHANGED <<list, tm>>
  BY <1>1, <1>3
<1>4. CASE Reevaluate /\ ~UNCHANGED <<list, tm>>
  <2>1. PICK w \in tl : addTimerEntry(w, [timeChanged(tm[w]) EXCEPT !.state = "waiting"],
                                      list, processed, TRUE, "revive")
    BY <1>4 DEF Reevaluate
  <2>2. w \in Timer /\ w \notin Known /\ tm[w].state = "ended" /\ tm[w] \in Entry /\ Held(w, tm[w])
    BY DEF Inv, Revived, Placed, Known
  <2>3. Again(tm[w]) \in Entry /\ Held(w, Again(tm[w]))
        /\ Again(tm[w]) = [timeChanged(tm[w]) EXCEPT !.state = "waiting"]
    BY <2>2, AgainIs DEF Again
  <2>4. Without(list, w) = list /\ Others(w, list, processed)
    BY <1>0, <2>2 DEF Without, Others, Placed, Known, Listed
  <2>5. Adding(w, Again(tm[w]), list, processed, TRUE, "revive")
    BY <1>0, <2>1, <2>2, <2>3, <2>4, Adds
  <2>6. Put(w, list, processed)
    BY <2>5 DEF Adding
  <2> QED
    BY <1>0, <1>1, <2>2, <2>4, <2>6, PutSorts
<1>5. CASE Activate
  <2> DEFINE w == Head(list)
  <2>1. w \in Listed /\ w \in Timer /\ doActivate(w, "loop")
    BY <1>0, <1>5, HeadIsListed, KnownIs DEF Activate, Due, Placed
  <2> HIDE DEF w
  <2>2. Others(w, Without(list, w), processed) /\ Put(w, Without(list, w), processed)
    BY <1>0, <2>1, Acts DEF Acting
  <2> QED
    BY <1>0, <1>1, <2>1, <2>2, PutSorts
<1>6. calcNextActivation => UNCHANGED <<list, tm>>
  BY DEF calcNextActivation
<1> QED
  BY <1>3, <1>4, <1>5, <1>6

LEMMA FirstIsLeast ==
  ASSUME Placed, Ordered(list, tm), NEW x \in Listed
  PROVE  list # <<>> /\ Key(tm[Head(list)]) <= Key(tm[x]) /\ Key(tm[x]) \in Int
         /\ Key(tm[Head(list)]) \in Int
<1>1. PICK i \in 1 .. Len(list) : list[i] = x
  BY ToSetIs DEF Placed, Listed
<1>2. list \in Seq(Timer) /\ Len(list) \in Nat /\ DOMAIN list = 1 .. Len(list) /\ list # <<>>
  BY <1>1 DEF Placed
<1>3. Head(list) \in Listed /\ Head(list) = list[1] /\ 1 \in 1 .. Len(list)
  BY <1>2, HeadIsListed
<1>4. Key(tm[Head(list)]) \in Int /\ Key(tm[x]) \in Int
  BY <1>3, KnownIs, KeyIsInt DEF Placed
<1>5. i = 1 \/ 1 < i
  BY <1>2
<1>6. Key(tm[list[1]]) <= Key(tm[list[i]])
  BY <1>1, <1>2, <1>3, <1>4, <1>5 DEF Ordered
<1> QED
  BY <1>1, <1>2, <1>3, <1>4, <1>6

(* ... so that it is enough to wait for the first entry.                   *)
LEMMA FinishOrderly ==
  ASSUME Inv, Inv', Orderly, Finish
  PROVE  Orderly'
<1>0. /\ pc = "loop" /\ ~Due /\ wait' = Pause /\ pc' = then
      /\ UNCHANGED <<now, list, tm, who, dialog>>
  BY DEF Finish
<1>1. dialog # "edited" /\ Loose = NoTimer /\ Placed /\ now \in Nat /\ Listed' = Listed
  BY <1>0, Numbers DEF Orderly, Loose, Inv, Times, Listed
<1>2. Ordered(list, tm)
  BY <1>1, AllInOrder DEF Orderly, Placed
<1>3. OrderedBut(list', tm', Loose')
  BY <1>0, <1>1, <1>2, AllInOrder DEF Placed
<1>4. \A x \in Listed : now + Pause <= Key(tm[x])
  <2> SUFFICES ASSUME NEW x \in Listed PROVE now + Pause <= Key(tm[x])
    OBVIOUS
  <2>1. /\ list # <<>> /\ Key(tm[Head(list)]) <= Key(tm[x]) /\ Key(tm[x]) \in Int
        /\ Key(tm[Head(list)]) \in Int
    BY <1>1, <1>2, FirstIsLeast
  <2>2. Pause \in Int /\ now + Pause <= Key(tm[Head(list)])
    BY <1>0, <1>1, <2>1, PauseIs
  <2> QED
    BY <1>1, <2>1, <2>2
<1>5. Wakes(Listed \ {Loose})'
  BY <1>0, <1>1, <1>4 DEF Wakes
<1> QED
  BY <1>0, <1>1, <1>3, <1>5 DEF Orderly

LEMMA ClockOrderly ==
  ASSUME Inv, Inv', Orderly, Undisturbed, Fire \/ Tick \/ \E t \in Warps : Warp(t)
  PROVE  Orderly'
<1>0. pc = "idle" /\ UNCHANGED <<list, tm, who, dialog>> /\ Listed' = Listed
  BY DEF Fire, Tick, Warp, Listed
<1>1. CASE Fire
  <2>1. dialog # "edited" /\ pc' = "calc"
    BY <1>1 DEF Fire, Undisturbed
  <2> QED
    BY <1>0, <2>1 DEF Orderly, Loose, After
<1>2. CASE Tick
  <2>1. now' = now + 1 /\ wait' = (IF wait = 0 THEN 0 ELSE wait - 1) /\ pc' = pc
        /\ Loose' = Loose
    BY <1>2 DEF Tick, Loose
  <2>2. now \in Int /\ wait \in Int
    BY Numbers DEF Inv, Times
  <2>3. Wakes(Listed \ {Loose})
    BY <1>0 DEF Orderly, After
  <2>4. jumped' <=> jumped
    BY <1>2 DEF Tick
  <2>5. \A x \in Listed : Key(tm[x]) \in Int
    BY KnownIs, KeyIsInt DEF Inv, Placed
  <2>6. Wakes(Listed \ {Loose})'
    BY <1>0, <2>1, <2>2, <2>3, <2>4, <2>5 DEF Wakes
  <2> QED
    BY <1>0, <2>1, <2>6 DEF Orderly
<1>3. CASE \E t \in Warps : Warp(t)
  <2>1. jumped'
    BY <1>3 DEF Warp
  <2>2. pc' = pc
    BY <1>3 DEF Warp
  <2> QED
    BY <1>0, <2>1, <2>2 DEF Orderly, Wakes, Loose
<1> QED
  BY <1>1, <1>2, <1>3

(* Timer.timeChanged of the entry that is out of its place.                *)
LEMMA ReAddSorts ==
  ASSUME Placed, NEW w \in Timer, NEW e, NEW cont, ReAdding(w, e, cont), UNCHANGED clockVars,
         OrderedBut(list, tm, w) \/ OrderedBut(list, tm, NoTimer), Wakes(Listed \ {w})
  PROVE  /\ \A x : OrderedBut(list', tm', x)
         /\ pc' # "calc" => Wakes(Listed)'
<1> DEFINE L == Without(list, w)  P == processed \ {w}  a == Again(e)
<1>1. Others(w, L, P) /\ Adding(w, a, L, P, FALSE, cont)
  BY DEF ReAdding
<1>2. /\ \A x : OrderedBut(list', tm', x)
      /\ Listed' \subseteq Listed \cup {w}
      /\ \A x \in Listed' \ {w} : tm'[x] = tm[x]
      /\ PutAway(w, L, P) => w \notin Listed'
  BY <1>1, PutSorts DEF Adding
<1> HIDE DEF L, P, a
<1>3. pc' # "calc" => PutAway(w, L, P)
  BY <1>1 DEF Adding, Put
<1>4. ASSUME pc' # "calc" PROVE Wakes(Listed)'
  <2>1. Listed' \subseteq Listed \ {w} /\ \A x \in Listed' : tm'[x] = tm[x]
    BY <1>2, <1>3, <1>4
  <2> QED
    BY <2>1 DEF Wakes, clockVars
<1> QED
  BY <1>2, <1>4

LEMMA AddSorts ==
  ASSUME Inv, NEW w \in Timer, w \notin Known, NEW e \in Entry, Held(w, e), NEW cont,
         addTimerEntry(w, e, list, processed, FALSE, cont), UNCHANGED clockVars,
         OrderedBut(list, tm, NoTimer), Wakes(Listed)
  PROVE  /\ \A x : OrderedBut(list', tm', x)
         /\ pc' # "calc" => Wakes(Listed)'
<1>1. Placed /\ now \in Nat /\ Without(list, w) = list
  BY Numbers DEF Inv, Times, Without, Known, Listed
<1>2. Others(w, list, processed)
  BY <1>1 DEF Others, Placed, Known, Listed
<1>3. Adding(w, e, list, processed, FALSE, cont)
  BY <1>1, <1>2, Adds
<1>4. /\ \A x : OrderedBut(list', tm', x)
      /\ Listed' \subseteq Listed \cup {w}
      /\ \A x \in Listed' \ {w} : tm'[x] = tm[x]
      /\ PutAway(w, list, processed) => w \notin Listed'
  BY <1>1, <1>2, <1>3, PutSorts DEF Adding
<1>5. pc' # "calc" => PutAway(w, list, processed)
  BY <1>3 DEF Adding, Put
<1>6. ASSUME pc' # "calc" PROVE Wakes(Listed)'
  <2>1. Listed' \subseteq Listed /\ \A x \in Listed' : tm'[x] = tm[x]
    BY <1>4, <1>5, <1>6
  <2> QED
    BY <2>1 DEF Wakes, clockVars
<1> QED
  BY <1>4, <1>6

(* While no dialog is open and calcNextActivation does not run.            *)
LEMMA AtRest ==
  ASSUME Inv, Orderly, pc \in {"idle", "save", "forget", "load"}, dialog # "edited"
  PROVE  /\ Loose = NoTimer /\ Listed \ {NoTimer} = Listed
         /\ OrderedBut(list, tm, NoTimer) /\ Wakes(Listed) /\ \A x : Wakes(Listed \ {x})
<1>1. Loose = NoTimer
  BY DEF Loose
<1>2. NoTimer \notin Listed
  BY KnownIs, TimerAssumption DEF Inv, TimerAssumption
<1>3. Wakes(Listed)
  BY <1>1, <1>2 DEF Orderly, After
<1> QED
  BY <1>1, <1>2, <1>3 DEF Orderly, Wakes

LEMMA ScreenOrderly ==
  ASSUME Inv, Inv', Orderly, NEW w \in Timer, NEW b \in Int, NEW n \in Int,
         record(w, b, n) \/ keyGo(w, b, n) \/ removeEntry(w) \/ toggleDisabledState(w)
  PROVE  Orderly'
<1>0. pc = "idle" /\ dialog = "none" /\ UNCHANGED clockVars /\ Placed /\ now \in Nat
  <2>1. Ready /\ UNCHANGED clockVars
    BY Zenon DEF record, keyGo, removeEntry, toggleDisabledState
  <2> QED
    BY <2>1, Numbers DEF Ready, Inv, Times
<1>1. /\ OrderedBut(list, tm, NoTimer) /\ Wakes(Listed) /\ Wakes(Listed \ {w})
  BY <1>0, AtRest
<1>2. tm \in [Timer -> Entry] /\ tm[w] \in Entry /\ Held(w, tm[w])
  BY <1>0 DEF Placed
<1>3. CASE record(w, b, n)
  <2> DEFINE e == New(b, n, w \in Repeats, FALSE)
  <2>1. /\ w \notin Known /\ dialog' = "none"
        /\ addTimerEntry(w, e, list, processed, FALSE, "save")
    BY <1>3 DEF record, Ready
  <2>2. e \in Entry /\ Held(w, e)
    <3> DEFINE r == w \in Repeats
    <3>1. r \in BOOLEAN
      OBVIOUS
    <3>2. e = New(b, n, r, FALSE)
      OBVIOUS
    <3> HIDE DEF r, e
    <3> QED
      BY <3>1, <3>2, NewIs
  <2>3. pc' \in {"save", "calc"}
    BY <2>1 DEF addTimerEntry
  <2> HIDE DEF e
  <2>4. (\A x : OrderedBut(list', tm', x)) /\ (pc' # "calc" => Wakes(Listed)')
    BY <1>0, <1>1, <2>1, <2>2, AddSorts
  <2> QED
    BY <2>1, <2>3, <2>4 DEF Orderly, Loose, Wakes, After
<1>4. CASE keyGo(w, b, n)
  <2>1. who' = w /\ dialog' = "edited" /\ UNCHANGED <<list, pc>> /\ Loose' = w
    BY <1>4 DEF keyGo, Loose
  <2>2. \A x \in Listed \ {w} : tm'[x] = tm[x]
    BY <1>0, <1>2, <1>4, KnownIs DEF keyGo
  <2>3. OrderedBut(list, tm, w)
    BY <1>0, <1>1, AllInOrder DEF Placed
  <2>4. OrderedBut(list', tm', w)
    BY <1>0, <2>1, <2>2, <2>3, StillOrdered
  <2>5. Wakes(Listed \ {Loose})'
    BY <1>0, <1>1, <2>1, <2>2 DEF Wakes, Listed, clockVars
  <2> QED
    BY <1>0, <2>1, <2>4, <2>5 DEF Orderly
<1>5. CASE removeEntry(w)
  <2>1. dialog' = "none" /\ w \in Known
    BY <1>0, <1>5 DEF removeEntry, Ready
  <2>2. abort(tm[w]) \in Entry /\ Held(w, abort(tm[w])) /\ abort(tm[w]).state = tm[w].state
    BY <1>0, <1>2, AbortIs
  <2>3. CASE tm[w].state = "ended"
    <3>1. pc' = "forget" /\ tm' = [tm EXCEPT ![w] = abort(@)] /\ UNCHANGED list
      BY <1>5, <2>3 DEF removeEntry
    <3>2. Listed' = Listed /\ w \notin Listed /\ \A x \in Listed : tm'[x] = tm[x]
      BY <1>0, <1>2, <2>3, <3>1, KnownIs DEF Placed, Listed
    <3>3. OrderedBut(list', tm', NoTimer)
      BY <1>0, <1>1, <3>1, <3>2, StillOrdered
    <3>4. Wakes(Listed)'
      BY <1>0, <1>1, <3>2 DEF Wakes, clockVars
    <3> QED
      BY <2>1, <3>1, <3>3, <3>4 DEF Orderly, Loose, Wakes
  <2>4. CASE tm[w].state # "ended"
    <3>1. ReAdd(w, abort(tm[w]), "forget")
      BY <1>5, <2>4 DEF removeEntry
    <3>2. ReAdding(w, abort(tm[w]), "forget")
      BY <1>0, <2>2, <3>1, ReAdds
    <3>3. (\A x : OrderedBut(list', tm', x)) /\ (pc' # "calc" => Wakes(Listed)')
      BY <1>0, <1>1, <3>2, ReAddSorts
    <3>4. pc' \in {"forget", "calc"}
      BY <1>0, <2>2, <3>2, ReAddKeeps
    <3> QED
      BY <2>1, <3>3, <3>4 DEF Orderly, Loose, Wakes, After
  <2> QED
    BY <2>3, <2>4
<1>6. CASE toggleDisabledState(w)
  <2>1. dialog' \in {"none", "asked"}
    BY <1>6 DEF toggleDisabledState
  <2>2. PICK d \in BOOLEAN : ReAdd(w, Switched(tm[w], d), "idle")
    BY <1>6 DEF toggleDisabledState, Switched
  <2>3. Switched(tm[w], d) \in Entry /\ Held(w, Switched(tm[w], d))
        /\ Switched(tm[w], d).state = tm[w].state
    BY <1>2, SwitchedIs
  <2>4. ReAdding(w, Switched(tm[w], d), "idle")
    BY <1>0, <2>2, <2>3, ReAdds
  <2>5. (\A x : OrderedBut(list', tm', x)) /\ (pc' # "calc" => Wakes(Listed)')
    BY <1>0, <1>1, <2>4, ReAddSorts
  <2>6. pc' \in {"idle", "calc"}
    BY <1>0, <2>3, <2>4, ReAddKeeps
  <2> QED
    BY <2>1, <2>5, <2>6 DEF Orderly, Loose, Wakes, After
<1> QED
  BY <1>3, <1>4, <1>5, <1>6

LEMMA DialogOrderly ==
  ASSUME Inv, Inv', Orderly, Undisturbed, finishedEdit \/ Answer \/ StopNow \/ Rearm
  PROVE  Orderly'
<1>0. UNCHANGED clockVars /\ Placed /\ now \in Nat
  <2>1. UNCHANGED clockVars
    BY Zenon DEF finishedEdit, Answer, StopNow, Rearm
  <2> QED
    BY <2>1, Numbers DEF Inv, Times
<1>1. who \in Timer
  BY DEF finishedEdit, Answer, StopNow, Rearm, Inv, Flow, After
<1>2. tm \in [Timer -> Entry] /\ tm[who] \in Entry /\ Held(who, tm[who])
  BY <1>0, <1>1 DEF Placed
<1>3. CASE finishedEdit
  <2>1. pc = "idle" /\ dialog = "edited" /\ dialog' = "none" /\ Loose = who
    BY <1>3 DEF finishedEdit, Loose
  <2>2. ReAdd(who, tm[who], "idle")
    BY <1>3 DEF finishedEdit, Undisturbed
  <2>3. ReAdding(who, tm[who], "idle")
    BY <1>0, <1>1, <1>2, <2>2, ReAdds
  <2>4. OrderedBut(list, tm, who) /\ Wakes(Listed \ {who})
    BY <2>1 DEF Orderly, After
  <2>5. (\A x : OrderedBut(list', tm', x)) /\ (pc' # "calc" => Wakes(Listed)')
    BY <1>0, <1>1, <2>3, <2>4, ReAddSorts
  <2>6. pc' \in {"idle", "calc"}
    BY <1>0, <1>1, <1>2, <2>3, ReAddKeeps
  <2> QED
    BY <2>1, <2>5, <2>6 DEF Orderly, Loose, Wakes, After
<1>4. CASE Answer
  <2>1. pc = "idle" /\ dialog = "asked" /\ dialog' \in {"none", "stopall"}
    BY <1>4 DEF Answer
  <2>2. /\ OrderedBut(list, tm, NoTimer) /\ Wakes(Listed) /\ Wakes(Listed \ {who})
    BY <2>1, AtRest
  <2>3. CASE UNCHANGED <<list, processed, tm, pc>>
    <3>1. Listed' = Listed /\ Loose' = NoTimer
      BY <2>1, <2>3 DEF Listed, Loose
    <3> QED
      BY <1>0, <2>1, <2>2, <2>3, <3>1 DEF Orderly, Wakes, clockVars
  <2>4. CASE ReAdd(who, [tm[who] EXCEPT !.disabled = TRUE], "idle")
    <3> DEFINE d == TRUE  e == Switched(tm[who], d)
    <3>1. d \in BOOLEAN
      OBVIOUS
    <3>2. ReAdd(who, e, "idle")
      BY <2>4 DEF Switched
    <3> HIDE DEF d
    <3>3. e \in Entry /\ Held(who, e) /\ e.state = tm[who].state
      BY <1>2, <3>1, SwitchedIs
    <3> HIDE DEF e
    <3>4. ReAdding(who, e, "idle")
      BY <1>0, <1>1, <3>2, <3>3, ReAdds
    <3>5. (\A x : OrderedBut(list', tm', x)) /\ (pc' # "calc" => Wakes(Listed)')
      BY <1>0, <1>1, <2>2, <3>4, ReAddSorts
    <3>6. pc' \in {"idle", "calc"}
      BY <1>0, <1>1, <3>3, <3>4, ReAddKeeps
    <3> QED
      BY <2>1, <3>5, <3>6 DEF Orderly, Loose, Wakes, After
  <2>5. CASE /\ tm' = [tm EXCEPT ![who] = processRepeated([@ EXCEPT !.disabled = FALSE], FALSE)]
             /\ pc' = "stop" /\ UNCHANGED <<list, processed, who>>
    <3>1. Loose' = who /\ Listed' = Listed
      BY <2>5 DEF Loose, Listed
    <3>2. \A x \in Listed \ {who} : tm'[x] = tm[x]
      BY <1>0, <1>2, <2>5, KnownIs
    <3>3. OrderedBut(list, tm, who)
      BY <1>0, <2>2, AllInOrder DEF Placed
    <3>4. OrderedBut(list', tm', who)
      BY <1>0, <2>5, <3>2, <3>3, StillOrdered
    <3>5. Wakes(Listed \ {Loose})'
      BY <1>0, <2>2, <3>1, <3>2 DEF Wakes, clockVars
    <3> QED
      BY <2>1, <3>1, <3>4, <3>5 DEF Orderly
  <2> QED
    BY <1>4, <2>3, <2>4, <2>5 DEF Answer
<1>5. CASE StopNow
  <2>1. /\ pc = "stop" /\ who \in Listed /\ doActivate(who, "rearm")
        /\ UNCHANGED <<who, dialog>> /\ Loose = who /\ dialog # "edited"
    BY <1>5 DEF StopNow, Loose, Orderly
  <2>2. OrderedBut(list, tm, who) /\ Wakes(Listed \ {who})
    BY <2>1 DEF Orderly
  <2>3. Others(who, Without(list, who), processed) /\ Acting(who, "rearm")
    BY <1>0, <2>1, Acts
  <2>4. /\ \A x : OrderedBut(list', tm', x)
        /\ Listed' \subseteq Listed \cup {who}
        /\ \A x \in Listed' \ {who} : tm'[x] = tm[x]
    BY <1>0, <1>1, <2>2, <2>3, PutSorts DEF Acting
  <2>5. Wakes(Listed \ {who})'
    BY <1>0, <2>1, <2>2, <2>4 DEF Wakes, clockVars
  <2>6. pc' \in {"rearm", "calc"}
    BY <2>3 DEF Acting
  <2>7. pc' = "rearm" => Loose' = who
    BY <2>1 DEF Loose
  <2> QED
    BY <2>1, <2>4, <2>5, <2>6, <2>7 DEF Orderly, After
<1>6. CASE Rearm
  <2> DEFINE d == tm[who].disabled \/ dialog = "stopall"  e == Switched(tm[who], d)
  <2>1. pc = "rearm" /\ ReAdd(who, e, "idle") /\ dialog' = "none" /\ Loose = who
    BY <1>6 DEF Rearm, Switched, Loose
  <2>2. OrderedBut(list, tm, who) /\ Wakes(Listed \ {who})
    BY <2>1 DEF Orderly, After
  <2>3. d \in BOOLEAN
    OBVIOUS
  <2> HIDE DEF d
  <2>4. e \in Entry /\ Held(who, e) /\ e.state = tm[who].state
    BY <1>2, <2>3, SwitchedIs
  <2> HIDE DEF e
  <2>5. ReAdding(who, e, "idle")
    BY <1>0, <1>1, <2>1, <2>4, ReAdds
  <2>6. (\A x : OrderedBut(list', tm', x)) /\ (pc' # "calc" => Wakes(Listed)')
    BY <1>0, <1>1, <2>2, <2>5, ReAddSorts
  <2>7. pc' \in {"idle", "calc"}
    BY <1>0, <1>1, <2>4, <2>5, ReAddKeeps
  <2> QED
    BY <2>1, <2>6, <2>7 DEF Orderly, Loose, Wakes, After
<1> QED
  BY <1>3, <1>4, <1>5, <1>6

LEMMA KeepingOrderly ==
  ASSUME Inv, Inv', Orderly, Save \/ Forget \/ cleanup
  PROVE  Orderly'
<1>0. /\ pc \in {"save", "forget", "idle"} /\ pc' \in {"idle"} /\ UNCHANGED <<clockVars, list>>
      /\ Placed /\ dialog' = dialog
  BY Zenon DEF Save, Forget, cleanup, Ready, Inv
<1>1. dialog # "edited"
  <2>1. Save \/ Forget => then \in {"save", "forget"}
    BY DEF Save, Forget, Inv, Flow, After
  <2> QED
    BY <2>1 DEF cleanup, Ready, Inv, Flow
<1>2. OrderedBut(list, tm, NoTimer) /\ Wakes(Listed)
  BY <1>0, <1>1, AtRest
<1>3. Listed' = Listed /\ \A x \in Listed : tm'[x] = tm[x]
  <2>1. /\ Listed' = Listed /\ Listed \subseteq Timer /\ Listed \cap processed = {}
        /\ tm \in [Timer -> Entry]
    BY <1>0, KnownIs DEF Listed, Placed
  <2>2. CASE Save
    BY <2>1, <2>2 DEF Save
  <2>3. CASE Forget
    BY <2>1, <2>3 DEF Forget
  <2>4. CASE cleanup
    BY <2>1, <2>4 DEF cleanup
  <2> QED
    BY <2>2, <2>3, <2>4
<1>4. OrderedBut(list', tm', NoTimer)
  BY <1>0, <1>2, <1>3, StillOrdered
<1>5. Wakes(Listed)'
  BY <1>0, <1>2, <1>3 DEF Wakes, clockVars
<1> QED
  BY <1>0, <1>1, <1>4, <1>5 DEF Orderly, Loose, Wakes

LEMMA RestartOrderly ==
  ASSUME Inv, Inv', Orderly, Restart \/ Load
  PROVE  Orderly'
<1>1. CASE Restart
  <2>1. list' = <<>> /\ dialog' = "none" /\ Listed' = {}
    BY <1>1 DEF Restart, Listed, ToSet
  <2> QED
    BY <2>1 DEF Orderly, OrderedBut, Wakes
<1>2. CASE Load
  <2>1. pc = "load" /\ dialog = "none" /\ dialog' = "none" /\ UNCHANGED clockVars
    BY <1>2 DEF Load, Inv, Flow, After
  <2>2. OrderedBut(list, tm, NoTimer) /\ Wakes(Listed)
    BY <2>1, AtRest
  <2>3. CASE pc' = "idle" /\ UNCHANGED <<list, processed, tm>>
    BY <2>1, <2>2, <2>3 DEF Orderly, Loose, Wakes, clockVars, Listed
  <2>4. ASSUME NEW w \in Timer, w \notin Known,
               addTimerEntry(w, New(file[w].begin, file[w].end, file[w].repeated,
                                    file[w].disabled), list, processed, FALSE, "load")
        PROVE  Orderly'
    <3> DEFINE e == New(file[w].begin, file[w].end, file[w].repeated, file[w].disabled)
    <3>1. e \in Entry /\ Held(w, e)
      <4>1. /\ file[w].begin \in Int /\ file[w].end \in Int
            /\ file[w].repeated \in BOOLEAN /\ file[w].disabled \in BOOLEAN
        BY DEF Inv, Kept, Stored
      <4> QED
        BY <4>1, NewIs
    <3>2. addTimerEntry(w, e, list, processed, FALSE, "load")
      BY <2>4
    <3> HIDE DEF e
    <3>3. pc' \in {"load", "calc"}
      BY <3>2 DEF addTimerEntry
    <3>4. (\A x : OrderedBut(list', tm', x)) /\ (pc' # "calc" => Wakes(Listed)')
      BY <2>1, <2>2, <2>4, <3>1, <3>2, AddSorts
    <3> QED
      BY <2>1, <3>3, <3>4 DEF Orderly, Loose, Wakes, After
  <2> QED
    BY <1>2, <2>3, <2>4 DEF Load
<1> QED
  BY <1>1, <1>2

LEMMA OrderlyInit == ASSUME Init PROVE Orderly
BY DEF Init, Orderly, OrderedBut, Wakes, Listed, ToSet

LEMMA OrderlyStep ==
  ASSUME Inv, Inv', Orderly, Undisturbed, Next
  PROVE  Orderly'
<1>1. CASE Loop
  BY <1>1, LoopOrderly, FinishOrderly DEF Loop
<1>2. CASE Fire \/ Tick \/ \E t \in Warps : Warp(t)
  BY <1>2, ClockOrderly
<1>3. ASSUME NEW w \in Timer, NEW l \in Leads, NEW d \in Lengths,
             record(w, now + l, now + l + d) \/ keyGo(w, now + l, now + l + d)
      PROVE  Orderly'
  <2>1. now \in Nat
    BY Numbers DEF Inv, Times
  <2>2. now + l \in Int /\ now + l + d \in Int
    BY <2>1, InputsAreTimes
  <2> QED
    BY <1>3, <2>2, ScreenOrderly
<1>4. ASSUME NEW w \in Timer, removeEntry(w) \/ toggleDisabledState(w) PROVE Orderly'
  BY <1>4, ScreenOrderly
<1>5. CASE finishedEdit \/ Answer \/ StopNow \/ Rearm
  BY <1>5, DialogOrderly
<1>6. CASE Save \/ Forget \/ cleanup \/ Restart \/ Load
  BY <1>6, KeepingOrderly, RestartOrderly
<1> QED
  BY <1>1, <1>2, <1>3, <1>4, <1>5, <1>6 DEF Next

LEMMA OrderlyStutter ==
  ASSUME Orderly, UNCHANGED vars
  PROVE  Orderly'
BY DEF Orderly, OrderedBut, Loose, Wakes, Listed, vars, clockVars, Key

OrderInv == Undisturbed => Orderly

LEMMA OrderInvariance == Spec => []OrderInv
<1>1. Init => OrderInv
  BY OrderlyInit DEF OrderInv
<1>2. Inv /\ Inv' /\ OrderInv /\ [Next]_vars => OrderInv'
  BY OrderlyStep, OrderlyStutter DEF OrderInv, Undisturbed
<1> QED
  BY <1>1, <1>2, Invariance, PTL DEF Spec

(* Unless the clock was set, the eTimer fires no later than the first      *)
(* entry becomes due (Timer.calcNextActivation looks at the head of        *)
(* timer_list only): for any number of entries, as long as edits are       *)
(* carried through and no entry is activated while one is open.            *)
THEOREM WakesUpInTime == Spec => [](Undisturbed => WakesInTime)
<1>1. Inv /\ OrderInv => (Undisturbed => WakesInTime)
  <2> SUFFICES ASSUME Inv, Orderly, pc = "idle", dialog # "edited", ~jumped
               PROVE  \A w \in Listed : wait = 0 \/ now + wait <= Key(tm[w])
    BY DEF OrderInv, WakesInTime
  <2>1. Wakes(Listed)
    BY AtRest
  <2> QED
    BY <2>1 DEF Wakes
<1> QED
  BY <1>1, Invariance, OrderInvariance, PTL

-----------------------------------------------------------------------------
(***************************************************************************)
(* A removal.  The entry was brought to its end, so it comes out of every  *)
(* step of calcNextActivation listed and due, or among the done entries;   *)
(* with a list that is sorted the loop does not end before it is done.     *)
(***************************************************************************)
Leaving ==
  then = "forget" =>
    /\ who \in Known \cup tl /\ tm[who].end = now /\ tm[who].begin <= now
    /\ ~tm[who].repeated
    /\ who \in Listed => tm[who].state \in {"prepared", "running"}
    /\ pc = "forget" => who \in processed

LEMMA RemoveLeaves ==
  ASSUME Inv, Inv', NEW w \in Timer, removeEntry(w)
  PROVE  Leaving'
<1> DEFINE e == abort(tm[w])  L == Without(list, w)  P == processed \ {w}  a == Again(e)
<1>0. /\ pc = "idle" /\ w \in Known /\ who' = w /\ now' = now /\ now \in Nat /\ Placed
      /\ tm \in [Timer -> Entry] /\ Held(w, tm[w])
  BY Numbers DEF removeEntry, Ready, Inv, Times, Placed, clockVars
<1>1. /\ e \in Entry /\ Held(w, e) /\ e.state = tm[w].state
      /\ e.end = now /\ e.begin <= now /\ ~e.repeated
  BY <1>0, AbortIs
<1>2. CASE tm[w].state = "ended"
  <2>1. pc' = "forget" /\ tm' = [tm EXCEPT ![w] = e] /\ UNCHANGED <<list, processed>>
    BY <1>2 DEF removeEntry
  <2>2. w \notin Listed /\ w \in processed /\ tm'[w] = e /\ Listed' = Listed
    BY <1>0, <1>2, <2>1 DEF Placed, Known, Listed
  <2> HIDE DEF e
  <2> QED
    BY <1>0, <1>1, <2>1, <2>2 DEF Leaving, Known
<1>3. CASE tm[w].state # "ended"
  <2>1. ReAdd(w, e, "forget")
    BY <1>3 DEF removeEntry
  <2> HIDE DEF e
  <2>2. Others(w, L, P) /\ Adding(w, a, L, P, FALSE, "forget")
    BY <1>0, <1>1, <2>1, ReAdds DEF ReAdding
  <2>3. /\ a \in Entry /\ SameKind(e, a) /\ a.begin = e.begin /\ a.end = e.end
        /\ a.state = e.state
    BY <1>1, <1>3, AgainIs
  <2> HIDE DEF L, P, a
  <2>4. /\ Put(w, L, P) /\ Added(a, tm'[w])
        /\ PutAway(w, L, P) => processed' = P \cup {w} /\ pc' = "forget"
        /\ PutInList(w, L, P) => pc' = "calc"
        /\ ~a.repeated /\ a.state = "waiting" /\ a.end <= now => PutAway(w, L, P)
    BY <2>2 DEF Adding
  <2>5. tm'[w].end = now /\ tm'[w].begin <= now /\ ~tm'[w].repeated
    BY <1>1, <2>3, <2>4 DEF Added, SameKind
  <2>6. /\ PutAway(w, L, P) => Listed' = ToSet(L)
        /\ PutInList(w, L, P) => Listed' = ToSet(L) \cup {w}
        /\ w \notin ToSet(L)
    BY <2>2, <2>4, PutPlaces DEF Others
  <2>7. CASE PutAway(w, L, P)
    BY <1>0, <2>4, <2>5, <2>6, <2>7 DEF Leaving, Known
  <2>8. CASE PutInList(w, L, P) /\ ~PutAway(w, L, P)
    <3>1. a.state \in {"prepared", "running"}
      <4>1. a.state \in State /\ a.state # "ended"
        BY <1>1, <1>3, <2>3 DEF Entry
      <4>2. a.state # "waiting"
        BY <1>0, <1>1, <2>3, <2>4, <2>8 DEF SameKind
      <4> QED
        BY <4>1, <4>2 DEF State
    <3>2. tm'[w].state \in {"prepared", "running"}
      BY <2>4, <3>1 DEF Added
    <3> QED
      BY <1>0, <2>4, <2>5, <2>6, <2>8, <3>2 DEF Leaving, Known
  <2> QED
    BY <2>4, <2>7, <2>8 DEF Put
<1> QED
  BY <1>2, <1>3

LEMMA LoopLeaves ==
  ASSUME Inv, Inv', Leaving, Keep # 0, calcNextActivation \/ Reevaluate \/ Activate
  PROVE  Leaving'
<1>0. /\ UNCHANGED <<clockVars, then, who>> /\ pc' \in {"calc", "revive", "loop"}
      /\ Placed /\ now \in Nat
  <2>1. UNCHANGED <<clockVars, then, who>>
    BY Zenon DEF calcNextActivation, Reevaluate, Activate
  <2>5. Placed /\ now \in Nat
    BY Numbers DEF Inv, Times
  <2>6. pc' \in {"calc", "revive", "loop"}
    <3>1. CASE calcNextActivation
      BY <3>1 DEF calcNextActivation
    <3>2. CASE Reevaluate
      BY <3>2 DEF Reevaluate, addTimerEntry
    <3>3. CASE Activate
      BY <3>3 DEF Activate, doActivate, addTimerEntry
    <3> QED
      BY <3>1, <3>2, <3>3
  <2> QED
    BY <2>1, <2>5, <2>6
<1> SUFFICES ASSUME then = "forget" PROVE Leaving'
  BY <1>0 DEF Leaving
<1>1. /\ who \in Known \cup tl /\ tm[who].end = now /\ tm[who].begin <= now
      /\ ~tm[who].repeated /\ who \in Timer
      /\ who \in Listed => tm[who].state \in {"prepared", "running"}
  BY DEF Leaving, Inv, Flow
<1>2. now' = now /\ who' = who /\ then' = then /\ pc' # "forget"
  BY <1>0 DEF clockVars
<1>3. CASE calcNextActivation
  <2>1. Listed' = Listed /\ (Known \cup tl)' = Known \cup tl /\ tm' = tm
    <3>1. pc = "calc" /\ tl = {}
      BY <1>3 DEF calcNextActivation, Inv, Revived
    <3> QED
      BY <1>3, <3>1 DEF calcNextActivation, Listed, Known
  <2> QED
    BY <1>1, <1>2, <2>1 DEF Leaving
<1>4. CASE Reevaluate /\ tl = {} /\ UNCHANGED <<tl, list, processed, tm>>
  BY <1>1, <1>2, <1>4 DEF Leaving, Known, Listed
<1>5. ASSUME NEW w \in tl, tl' = tl \ {w},
             addTimerEntry(w, [timeChanged(tm[w]) EXCEPT !.state = "waiting"],
                           list, processed, TRUE, "revive")
      PROVE  Leaving'
  <2> DEFINE a == Again(tm[w])
  <2>1. w \in Timer /\ w \notin Known /\ tm[w].state = "ended" /\ tm[w] \in Entry /\ Held(w, tm[w])
    BY DEF Inv, Revived, Placed, Known
  <2>2. /\ a \in Entry /\ Held(w, a) /\ SameKind(tm[w], a) /\ a.state = "waiting"
        /\ a.begin = tm[w].begin /\ a.end = tm[w].end
        /\ a = [timeChanged(tm[w]) EXCEPT !.state = "waiting"]
    BY <2>1, AgainIs DEF Again
  <2>3. Others(w, list, processed)
    BY <1>0, <2>1 DEF Others, Placed, Known, Listed
  <2> HIDE DEF a
  <2>4. Adding(w, a, list, processed, TRUE, "revive")
    BY <1>0, <1>5, <2>1, <2>2, <2>3, Adds
  <2>5. /\ Put(w, list, processed) /\ Added(a, tm'[w])
        /\ \A x \in Timer \ {w} : tm'[x] = tm[x]
        /\ PutAway(w, list, processed) => processed' = processed \cup {w}
        /\ PutInList(w, list, processed) => processed' = processed
        /\ ~a.repeated /\ a.end <= now => PutAway(w, list, processed)
    BY <2>2, <2>4 DEF Adding
  <2>6. /\ PutAway(w, list, processed) => Listed' = Listed
        /\ PutInList(w, list, processed) => Listed' = Listed \cup {w}
    BY <2>1, <2>3, <2>5, PutPlaces DEF Listed
  <2>7. CASE who = w
    <3>1. PutAway(w, list, processed) /\ w \notin Listed
      BY <1>0, <1>1, <2>1, <2>2, <2>5, <2>7 DEF SameKind, Known
    <3>2. tm'[w].end = now /\ tm'[w].begin <= now /\ ~tm'[w].repeated
      BY <1>1, <2>2, <2>5, <2>7 DEF Added, SameKind
    <3> QED
      BY <1>2, <2>5, <2>6, <2>7, <3>1, <3>2 DEF Leaving, Known
  <2>8. CASE who # w
    <3>1. tm'[who] = tm[who] /\ (who \in Listed' <=> who \in Listed) /\ processed \subseteq processed'
      BY <1>1, <2>5, <2>6, <2>8 DEF Put
    <3> QED
      BY <1>1, <1>2, <1>5, <2>8, <3>1 DEF Leaving, Known
  <2> QED
    BY <2>7, <2>8
<1>6. CASE Activate
  <2> DEFINE w == Head(list)  L == Without(list, w)
  <2>1. w \in Listed /\ w \in Timer /\ doActivate(w, "loop") /\ tl = {} /\ tl' = tl
    BY <1>0, <1>6, HeadIsListed, KnownIs DEF Activate, Due, Placed, Inv, Revived
  <2> HIDE DEF w
  <2>2. Others(w, L, processed) /\ Acting(w, "loop")
    BY <1>0, <2>1, Acts
  <2>3. ToSet(L) = Listed \ {w}
    BY <1>0, <2>1, WithoutSet DEF Placed, Listed
  <2> HIDE DEF L
  <2>4. /\ Put(w, L, processed) /\ Recent \subseteq processed'
        /\ \A x \in Timer \ {w} : x \in processed' \/ x \notin processed => tm'[x] = tm[x]
        /\ SameKind(tm[w], tm'[w])
        /\ PutAway(w, L, processed) => w \in processed'
        /\ ~tm[w].repeated => tm'[w].end = tm[w].end
        /\ ~tm[w].repeated /\ Cancelled(w) /\ tm[w].state \in {"prepared", "running"} =>
             tm'[w].state \in {"running", "ended"} /\ tm'[w].begin = tm[w].begin
    BY <2>2 DEF Acting, L
  <2>5. /\ PutAway(w, L, processed) => Listed' = Listed \ {w}
        /\ PutInList(w, L, processed) => Listed' = (Listed \ {w}) \cup {w}
    BY <2>1, <2>2, <2>3, <2>4, PutPlaces DEF L
  <2>6. CASE who = w
    <3>1. Cancelled(w) /\ tm[w].state \in {"prepared", "running"}
      BY <1>1, <2>1, <2>6 DEF Cancelled
    <3>2. tm'[w].end = now /\ tm'[w].begin <= now /\ ~tm'[w].repeated
      BY <1>1, <2>4, <2>6, <3>1 DEF SameKind
    <3>3. CASE PutAway(w, L, processed)
      BY <1>2, <2>4, <2>5, <2>6, <3>2, <3>3 DEF Leaving, Known
    <3>4. CASE PutInList(w, L, processed)
      <4>1. tm'[w].state = "running"
        BY <1>1, <2>4, <2>6, <3>1, <3>4 DEF PutInList
      <4> QED
        BY <1>2, <2>5, <2>6, <3>2, <3>4, <4>1 DEF Leaving, Known
    <3> QED
      BY <2>4, <3>3, <3>4 DEF Put
  <2>7. CASE who # w
    <3>1. who \in Listed' <=> who \in Listed
      BY <2>4, <2>5, <2>7 DEF Put
    <3>2. who \in processed => who \in processed'
      <4>1. Keep \in Nat /\ Keep > 0
        BY Numbers
      <4>2. who \in processed => who \in Recent
        BY <1>0, <1>1, <4>1 DEF Recent
      <4> QED
        BY <2>4, <4>2
    <3>3. tm'[who] = tm[who] /\ who \in Known'
      BY <1>1, <2>1, <2>4, <2>7, <3>1, <3>2 DEF Known
    <3> QED
      BY <1>1, <1>2, <3>1, <3>3 DEF Leaving
  <2> QED
    BY <2>6, <2>7
<1> QED
  BY <1>3, <1>4, <1>5, <1>6 DEF Reevaluate

LEMMA FinishLeaves ==
  ASSUME Inv, Inv', Orderly, Leaving, Finish
  PROVE  Leaving'
<1>0. /\ pc = "loop" /\ ~Due /\ pc' = then
      /\ UNCHANGED <<now, list, processed, tl, tm, then, who, dialog>>
  BY DEF Finish
<1>1. /\ Placed /\ tl = {} /\ dialog # "edited" /\ Loose = NoTimer /\ now \in Nat
      /\ Listed' = Listed /\ Known' = Known
  BY <1>0, Numbers DEF Inv, Revived, Orderly, Loose, Times, Listed, Known
<1>2. Ordered(list, tm)
  BY <1>1, AllInOrder DEF Orderly, Placed
<1>3. ASSUME then = "forget" PROVE who \in processed
  <2>1. ASSUME who \in Listed PROVE FALSE
    <3>1. Key(tm[who]) <= now
      <4>1. /\ tm[who].state = "prepared" \/ tm[who].state = "running"
            /\ tm[who].end = now /\ tm[who].begin <= now
        BY <1>3, <2>1 DEF Leaving
      <4>2. Key(tm[who]) = tm[who].begin \/ Key(tm[who]) = tm[who].end
        BY <4>1 DEF Key
      <4> QED
        BY <1>1, <4>1, <4>2
    <3>2. /\ list # <<>> /\ Key(tm[Head(list)]) <= Key(tm[who])
          /\ Key(tm[who]) \in Int /\ Key(tm[Head(list)]) \in Int
      BY <1>1, <1>2, <2>1, FirstIsLeast
    <3> QED
      BY <1>0, <1>1, <3>1, <3>2 DEF Due
  <2> QED
    BY <1>1, <1>3, <2>1 DEF Leaving, Known
<1> QED
  BY <1>0, <1>1, <1>3 DEF Leaving

LEMMA OthersLeave ==
  ASSUME Inv, Inv', Leaving, Next, ~Loop, ~ \E w \in Timer : removeEntry(w)
  PROVE  Leaving'
<1> SUFFICES then' # "forget"
  BY DEF Leaving
<1>1. pc = "idle" => then = "idle"
  BY DEF Inv, Flow, After
<1>2. CASE Fire \/ Tick \/ \E t \in Warps : Warp(t)
  BY <1>1, <1>2 DEF Fire, Tick, Warp
<1>3. CASE \E w \in Timer, l \in Leads, d \in Lengths :
             record(w, now + l, now + l + d) \/ keyGo(w, now + l, now + l + d)
  BY <1>1, <1>3 DEF record, keyGo, Ready
<1>4. CASE \E w \in Timer : toggleDisabledState(w)
  BY <1>1, <1>4 DEF toggleDisabledState, Ready
<1>5. CASE Save \/ Forget \/ finishedEdit \/ Answer \/ Rearm \/ cleanup \/ Restart
  BY <1>1, <1>5 DEF Save, Forget, finishedEdit, Answer, Rearm, cleanup, Restart, Ready
<1>6. CASE StopNow \/ Load
  BY <1>6 DEF StopNow, Load, Inv, Flow, After
<1> QED
  BY <1>2, <1>3, <1>4, <1>5, <1>6 DEF Next

LeaveInv == Undisturbed /\ Keep # 0 => Leaving

LEMMA LeaveInvariance == Spec => []LeaveInv
<1>1. Init => LeaveInv
  BY DEF Init, LeaveInv, Leaving
<1>2. Inv /\ Inv' /\ OrderInv /\ LeaveInv /\ [Next]_vars => LeaveInv'
  <2> SUFFICES ASSUME Inv, Inv', Orderly, Leaving, Keep # 0, [Next]_vars PROVE Leaving'
    BY DEF OrderInv, LeaveInv, Undisturbed
  <2>1. CASE UNCHANGED vars
    BY <2>1 DEF Leaving, Known, Listed, vars, clockVars
  <2>2. CASE Next /\ Loop
    BY <2>2, LoopLeaves, FinishLeaves DEF Loop
  <2>3. CASE \E w \in Timer : removeEntry(w)
    BY <2>3, RemoveLeaves
  <2>4. CASE Next /\ ~Loop /\ ~ \E w \in Timer : removeEntry(w)
    BY <2>4, OthersLeave
  <2> QED
    BY <2>1, <2>2, <2>3, <2>4
<1> QED
  BY <1>1, <1>2, Invariance, OrderInvariance, PTL DEF Spec

(* removeEntry finds the entry among the processed ones ("now the timer    *)
(* should be in the processed_timers list", RecordTimer.removeEntry), for  *)
(* any number of entries that may be activated or enqueued meanwhile, as   *)
(* long as the list is sorted and done entries are kept for a while; and   *)
(* runningEventCallback finds the entry it stops in timer_list.            *)
THEOREM RemovalAlwaysFinds == Spec => [](Undisturbed /\ Keep # 0 => RemovalFinds)
<1>1. Inv /\ LeaveInv => (Undisturbed /\ Keep # 0 => RemovalFinds)
  BY DEF LeaveInv, Leaving, Inv, Flow, Asked, After, RemovalFinds
<1> QED
  BY <1>1, Invariance, LeaveInvariance, PTL
=============================================================================
