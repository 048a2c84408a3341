--------------------------- MODULE DVBScan_proofs ---------------------------
(***************************************************************************)
(* Theorems about DVBScan, for any transponders, tables and lists.  The    *)
(* functions of the scan call each other and are operators on its record,  *)
(* so each has a lemma of its own.  What the loops over a list or a table  *)
(* do is proved by induction over its length.                              *)
(***************************************************************************)
EXTENDS DVBScan, SequenceTheorems, WellFoundedInduction, TLAPS

-----------------------------------------------------------------------------
(* Induction.                                                              *)

(* A set of numbers that is not empty has a least element.                 *)
LEMMA LeastElement ==
  ASSUME NEW T, T \subseteq Nat, T # {}
  PROVE  \E m \in T : \A k \in T : m <= k
<1> DEFINE R == OpToRel(<, Nat)
<1>0. IsWellFoundedOn(R, Nat)
  BY NatLessThanWellFounded
<1>1. \A x, y \in Nat : x < y => <<x, y>> \in R
  BY DEF OpToRel
<1> HIDE DEF R
<1>2. \E m \in T : \A k \in T : ~(<<k, m>> \in R)
  BY <1>0, WFMin
<1>3. PICK m \in T : \A k \in T : ~(<<k, m>> \in R)
  BY <1>2
<1>4. ASSUME NEW k \in T PROVE m <= k
  <2>1. <<k, m>> \notin R /\ k \in Nat /\ m \in Nat
    BY <1>3
  <2>2. ~(k < m)
    BY <2>1, <1>1
  <2> QED
    BY <2>1, <2>2
<1> QED
  BY <1>4

(* A set that holds 0, and with each number the next one, up to n, holds   *)
(* all of them.                                                            *)
LEMMA Induction ==
  ASSUME NEW n \in Nat, NEW T, 0 \in T, \A k \in 1 .. n : k - 1 \in T => k \in T
  PROVE  \A k \in 0 .. n : k \in T
<1> DEFINE U == (0 .. n) \ T
<1>1. SUFFICES ASSUME U # {} PROVE FALSE
  OBVIOUS
<1>2. U \subseteq Nat /\ U # {}
  BY <1>1
<1> HIDE DEF U
<1>6. PICK m \in U : \A k \in U : m <= k
  BY <1>2, LeastElement
<1> USE DEF U
<1>3. m \in 0 .. n /\ m \notin T /\ \A k \in 0 .. n : k \notin T => m <= k
  BY <1>6
<1>4. m \in 1 .. n /\ m - 1 \in 0 .. n /\ ~(m <= m - 1)
  BY <1>3
<1>5. m - 1 \in T
  BY <1>3, <1>4
<1> QED
  BY <1>3, <1>4, <1>5

(* What is defined by going through a list is a function: the definitions  *)
(* by recursion below say what they seem to say.                           *)
Iterated(n, S, b, step) ==
  \E g \in [0 .. n -> S] : g[0] = b /\ \A i \in 1 .. n : g[i] = step[i][g[i - 1]]

(* A function with a value at 0 and a step from each number to the next    *)
(* exists, and its values are in S.                                        *)
LEMMA Recursion ==
  ASSUME NEW n \in Nat, NEW S, NEW b \in S, NEW step \in [1 .. n -> [S -> S]]
  PROVE  Iterated(n, S, b, step)
<1> DEFINE Good(k, g) == g[0] = b /\ \A i \in 1 .. k : g[i] = step[i][g[i - 1]]
           T == {k \in 0 .. n : \E g \in [0 .. k -> S] : Good(k, g)}
<1>1. 0 \in T
  <2> DEFINE g == [i \in 0 .. 0 |-> b]
  <2>1. g \in [0 .. 0 -> S] /\ g[0] = b /\ \A i \in 1 .. 0 : FALSE
    OBVIOUS
  <2> HIDE DEF g
  <2>2. Good(0, g)
    BY <2>1
  <2> QED
    BY <2>1, <2>2
<1>2. ASSUME NEW k \in 1 .. n, k - 1 \in T PROVE k \in T
  <2>1. PICK g \in [0 .. k - 1 -> S] : Good(k - 1, g)
    BY <1>2
  <2> DEFINE h == [i \in 0 .. k |-> IF i = k THEN step[k][g[k - 1]] ELSE g[i]]
  <2>2. g[k - 1] \in S /\ step[k][g[k - 1]] \in S
    BY <2>1
  <2>3. h \in [0 .. k -> S]
    BY <2>1, <2>2
  <2>4. h[0] = b
    BY <2>1
  <2>5. ASSUME NEW i \in 1 .. k PROVE h[i] = step[i][h[i - 1]]
    <3>1. CASE i = k
      <4>1. h[k] = step[k][g[k - 1]] /\ k - 1 \in 0 .. k /\ k - 1 # k
        OBVIOUS
      <4>2. h[k - 1] = g[k - 1]
        BY <4>1
      <4> QED
        BY <3>1, <4>1, <4>2
    <3>2. CASE i # k
      <4>1. i \in 1 .. k - 1 /\ h[i] = g[i] /\ h[i - 1] = g[i - 1]
        BY <3>2
      <4> QED
        BY <2>1, <4>1
    <3> QED
      BY <3>1, <3>2
  <2>6. Good(k, h)
    BY <2>4, <2>5
  <2> HIDE DEF h
  <2> QED
    BY <2>3, <2>6
<1> HIDE DEF T
<1>3. n \in T
  <2>1. \A k \in 0 .. n : k \in T
    BY <1>1, <1>2, Induction
  <2> QED
    BY <2>1
<1> QED
  BY <1>3 DEF T, Iterated

-----------------------------------------------------------------------------
(* The lists.                                                              *)
LEMMA SameIsSymmetric == \A a, b : Same(a, b) <=> Same(b, a)
BY DEF Same

(* Every transponder is the same as itself.                                *)
LEMMA SameAsItself == \A a \in Param : Same(a, a)
BY ScanAssumption DEF Same

(* One element more in a list.                                             *)
LEMMA RangeAppend ==
  ASSUME NEW S, NEW L \in Seq(S), NEW x \in S
  PROVE  Append(L, x) \in Seq(S) /\ Range(Append(L, x)) = Range(L) \cup {x}
<1>1. /\ Append(L, x) \in Seq(S) /\ DOMAIN L = 1 .. Len(L) /\ Len(L) \in Nat
      /\ DOMAIN Append(L, x) = 1 .. Len(L) + 1
      /\ \A i \in 1 .. Len(L) : Append(L, x)[i] = L[i]
      /\ Append(L, x)[Len(L) + 1] = x
  OBVIOUS

<1>2. Range(L) \cup {x} \subseteq Range(Append(L, x))
  <2>1. \A i \in DOMAIN L : i \in DOMAIN Append(L, x) /\ Append(L, x)[i] = L[i]
    BY <1>1
  <2>2. Len(L) + 1 \in DOMAIN Append(L, x)
    BY <1>1
  <2> QED
    BY <1>1, <2>1, <2>2 DEF Range
<1>3. Range(Append(L, x)) \subseteq Range(L) \cup {x}
  <2> SUFFICES ASSUME NEW i \in 1 .. Len(L) + 1 PROVE Append(L, x)[i] \in Range(L) \cup {x}
    BY <1>1 DEF Range
  <2>1. i \in 1 .. Len(L) \/ i = Len(L) + 1
    BY <1>1
  <2> QED
    BY <1>1, <2>1 DEF Range
<1> QED
  BY <1>1, <1>2, <1>3

(* What is left of a list without a transponder.                           *)
LEMMA WithoutIs ==
  ASSUME NEW L \in Seq(Param), NEW p
  PROVE  /\ Without(L, p) \in Seq(Param)
         /\ Range(Without(L, p)) = {q \in Range(L) : ~Same(q, p)}
<1> DEFINE n == Len(L)
           next(v, k) == IF Same(L[k], p) THEN v ELSE Append(v, L[k])
           body(g) == [k \in 0 .. n |-> IF k = 0 THEN <<>> ELSE next(g[k - 1], k)]
           step == [k \in 1 .. n |-> [v \in Seq(Param) |-> next(v, k)]]
           rest == CHOOSE g : g = body(g)
<1>1. n \in Nat /\ \A k \in 1 .. n : L[k] \in Param
  OBVIOUS
<1>2. step \in [1 .. n -> [Seq(Param) -> Seq(Param)]]
  BY <1>1
<1>3. PICK g \in [0 .. n -> Seq(Param)] :
        g[0] = <<>> /\ \A k \in 1 .. n : g[k] = step[k][g[k - 1]]
  <2> DEFINE S == Seq(Param)  nil == <<>>
  <2>1. nil \in S /\ step \in [1 .. n -> [S -> S]] /\ n \in Nat
    BY <1>1, <1>2
  <2> HIDE DEF n, step, nil, S
  <2>2. Iterated(n, S, nil, step)
    BY <2>1, Recursion
  <2> QED
    BY <2>2 DEF Iterated, S, nil
<1>4. ASSUME NEW k \in 1 .. n PROVE g[k] = next(g[k - 1], k)
  <2>1. g[k - 1] \in Seq(Param)
    BY <1>1
  <2> QED
    BY <1>3, <2>1
<1>5. g = body(g)
  <2> HIDE DEF n, next
  <2>1. \A k \in 0 .. n : g[k] = IF k = 0 THEN <<>> ELSE next(g[k - 1], k)
    BY <1>1, <1>3, <1>4
  <2> QED
    BY <2>1
<1>6. rest = body(rest)
  BY <1>5
<1>7. Without(L, p) = rest[n]
  BY DEF Without
<1>8. rest[0] = <<>> /\ \A k \in 1 .. n : rest[k] = next(rest[k - 1], k)
  <2> HIDE DEF n, next, rest
  <2> QED
    BY <1>1, <1>6
<1> DEFINE Seen(k) == {L[i] : i \in 1 .. k}
           Good(k) == rest[k] \in Seq(Param) /\ Range(rest[k]) = {q \in Seen(k) : ~Same(q, p)}
           T == {k \in 0 .. n : Good(k)}
<1> HIDE DEF rest
<1>9. 0 \in T
  <2>1. Range(<<>>) = {} /\ Seen(0) = {} /\ <<>> \in Seq(Param)
    BY DEF Range
  <2> HIDE DEF Seen, n, next
  <2>2. Good(0)
    BY <1>8, <2>1
  <2> HIDE DEF Good
  <2> QED
    BY <1>1, <2>2
<1>10. ASSUME NEW k \in 1 .. n, k - 1 \in T PROVE k \in T
  <2>0. 1 .. k = (1 .. k - 1) \cup {k}
    BY <1>1
  <2>1. /\ rest[k - 1] \in Seq(Param) /\ L[k] \in Param
        /\ Range(rest[k - 1]) = {q \in Seen(k - 1) : ~Same(q, p)}
    <3>1. Good(k - 1) /\ L[k] \in Param
      BY <1>1, <1>10
    <3> QED
      BY <3>1
  <2>4. Seen(k) = Seen(k - 1) \cup {L[k]}
    BY <2>0
  <2> HIDE DEF Seen
  <2>2. CASE Same(L[k], p)
    <3>1. rest[k] = rest[k - 1]
      BY <1>8, <2>2
    <3>2. Range(rest[k]) = {q \in Seen(k) : ~Same(q, p)}
      BY <2>1, <2>2, <2>4, <3>1
    <3> QED
      BY <2>1, <3>1, <3>2
  <2>3. CASE ~Same(L[k], p)
    <3>1. rest[k] = Append(rest[k - 1], L[k])
      BY <1>8, <2>3
    <3>2. rest[k] \in Seq(Param) /\ Range(rest[k]) = Range(rest[k - 1]) \cup {L[k]}
      BY <2>1, <3>1, RangeAppend
    <3>3. Range(rest[k]) = {q \in Seen(k) : ~Same(q, p)}
      BY <2>1, <2>3, <2>4, <3>2
    <3> QED
      BY <3>2, <3>3
  <2> QED
    BY <2>2, <2>3
<1>11. Good(n)
  <2> HIDE DEF Good
  <2>1. \A k \in 0 .. n : k \in T
    <3> HIDE DEF T, n
    <3> QED
      BY <1>1, <1>9, <1>10, Induction
  <2> QED
    BY <1>1, <2>1
<1>12. Range(L) = {L[i] : i \in 1 .. n}
  BY <1>1 DEF Range
<1> QED
  BY <1>7, <1>11, <1>12

(* What is in a list of transponders is a transponder.                     *)
LEMMA RangeInSeq ==
  ASSUME NEW S, NEW L \in Seq(S)
  PROVE  Range(L) \subseteq S /\ \A T : Range(L) \subseteq T => L \in Seq(T)
<1>1. Len(L) \in Nat /\ DOMAIN L = 1 .. Len(L) /\ L = [i \in 1 .. Len(L) |-> L[i]]
      /\ \A i \in 1 .. Len(L) : L[i] \in S
  OBVIOUS
<1>2. Range(L) \subseteq S
  BY <1>1 DEF Range
<1>3. ASSUME NEW T, Range(L) \subseteq T PROVE L \in Seq(T)
  <2>1. \A i \in 1 .. Len(L) : L[i] \in T
    BY <1>1, <1>3 DEF Range
  <2> QED
    BY <1>1, <2>1, IsASeq
<1> QED
  BY <1>2, <1>3

(* A list in which a transponder was updated.                              *)
LEMMA UpdatedIs ==
  ASSUME NEW L \in Seq(Param), NEW p \in Param, \E q \in Range(L) : Same(q, p)
  PROVE  Updated(L, p) \in Seq(Param) /\ Range(Updated(L, p)) \subseteq Range(L) \cup {p}
<1> DEFINE Place(j) == Same(L[j], p) /\ \A k \in 1 .. j - 1 : ~Same(L[k], p)
           i == CHOOSE j \in DOMAIN L : Place(j)
           T == Range(L) \cup {p}
           rest == SubSeq(L, i + 1, Len(L))
<1>1. Len(L) \in Nat /\ DOMAIN L = 1 .. Len(L)
  OBVIOUS
<1>2. \E j \in DOMAIN L : Place(j)
  <2> DEFINE J == {j \in 1 .. Len(L) : Same(L[j], p)}
  <2>1. J \subseteq Nat /\ J # {}
    BY <1>1 DEF Range
  <2> HIDE DEF J
  <2>2. PICK j \in J : \A k \in J : j <= k
    BY <2>1, LeastElement
  <2> USE DEF J
  <2>3. j \in DOMAIN L /\ Same(L[j], p)
    BY <1>1
  <2>4. ASSUME NEW k \in 1 .. j - 1 PROVE ~Same(L[k], p)
    <3>1. k \in 1 .. Len(L) /\ ~(j <= k)
      BY <1>1, <2>3
    <3> QED
      BY <2>2, <3>1
  <2> QED
    BY <2>3, <2>4
<1>3. i \in 1 .. Len(L)
  BY <1>1, <1>2
<1> HIDE DEF i
<1>4. L \in Seq(T) /\ T \subseteq Param
  BY RangeInSeq
<1> HIDE DEF T
<1>5. SubSeq(L, 1, i - 1) \in Seq(T) /\ rest \in Seq(T)
  BY <1>1, <1>3, <1>4
<1>6. p \in T
  BY DEF T
<1>7. Without(rest, p) \in Seq(T)
  <2>1. rest \in Seq(Param) /\ Range(rest) \subseteq T
    BY <1>4, <1>5, RangeInSeq
  <2> HIDE DEF rest
  <2>2. Without(rest, p) \in Seq(Param) /\ Range(Without(rest, p)) \subseteq T
    BY <2>1, WithoutIs
  <2> QED
    BY <2>2, RangeInSeq
<1>8. Updated(L, p) = SubSeq(L, 1, i - 1) \o <<p>> \o Without(rest, p)
  BY DEF Updated, i
<1> HIDE DEF rest
<1>9. Updated(L, p) \in Seq(T)
  BY <1>5, <1>6, <1>7, <1>8
<1>10. Updated(L, p) \in Seq(Param) /\ Range(Updated(L, p)) \subseteq T
  BY <1>4, <1>9, RangeInSeq
<1> QED
  BY <1>10 DEF T

(* Every entry that is exactly the same as another is left out.            *)
LEMMA DistinctIs ==
  ASSUME NEW L \in Seq(Param)
  PROVE  Distinct(L) \in Seq(Param)
<1> DEFINE n == Len(L)
           next(v, k) == IF \E q \in Range(v) : SameExact(L[k], q) THEN v ELSE Append(v, L[k])
           body(g) == [k \in 0 .. n |-> IF k = 0 THEN <<>> ELSE next(g[k - 1], k)]
           step == [k \in 1 .. n |-> [v \in Seq(Param) |-> next(v, k)]]
           once == CHOOSE g : g = body(g)
<1>1. n \in Nat /\ \A k \in 1 .. n : L[k] \in Param
  OBVIOUS
<1>2. step \in [1 .. n -> [Seq(Param) -> Seq(Param)]]
  BY <1>1
<1>3. PICK g \in [0 .. n -> Seq(Param)] :
        g[0] = <<>> /\ \A k \in 1 .. n : g[k] = step[k][g[k - 1]]
  <2> DEFINE S == Seq(Param)  nil == <<>>
  <2>1. nil \in S /\ step \in [1 .. n -> [S -> S]] /\ n \in Nat
    BY <1>1, <1>2
  <2> HIDE DEF n, step, nil, S
  <2>2. Iterated(n, S, nil, step)
    BY <2>1, Recursion
  <2> QED
    BY <2>2 DEF Iterated, S, nil
<1>4. ASSUME NEW k \in 1 .. n PROVE g[k] = next(g[k - 1], k)
  <2>1. g[k - 1] \in Seq(Param)
    BY <1>1
  <2> QED
    BY <1>3, <2>1
<1>5. g = body(g)
  <2> HIDE DEF n, next
  <2>1. \A k \in 0 .. n : g[k] = IF k = 0 THEN <<>> ELSE next(g[k - 1], k)
    BY <1>1, <1>3, <1>4
  <2> QED
    BY <2>1
<1>6. once = body(once)
  BY <1>5
<1>7. Distinct(L) = once[n]
  BY DEF Distinct
<1>8. once[0] = <<>> /\ \A k \in 1 .. n : once[k] = next(once[k - 1], k)
  <2> HIDE DEF n, next, once
  <2> QED
    BY <1>1, <1>6
<1> HIDE DEF once
<1> DEFINE T == {k \in 0 .. n : once[k] \in Seq(Param)}
<1>9. 0 \in T
  <2>1. <<>> \in Seq(Param)
    OBVIOUS
  <2> HIDE DEF n, next
  <2>2. once[0] \in Seq(Param)
    BY <1>8, <2>1
  <2> QED
    BY <1>1, <2>2
<1>10. ASSUME NEW k \in 1 .. n, k - 1 \in T PROVE k \in T
  <2>1. once[k - 1] \in Seq(Param) /\ once[k] = next(once[k - 1], k) /\ L[k] \in Param
    BY <1>1, <1>8, <1>10
  <2>2. next(once[k - 1], k) \in Seq(Param)
    <3> HIDE DEF n
    <3> QED
      BY <2>1
  <2>3. once[k] \in Seq(Param) /\ k \in 0 .. n
    <3> HIDE DEF n, next
    <3> QED
      BY <1>1, <2>1, <2>2
  <2> QED
    BY <2>3
<1>11. \A k \in 0 .. n : k \in T
  <2> HIDE DEF T, n
  <2> QED
    BY <1>1, <1>9, <1>10, Induction
<1> QED
  BY <1>1, <1>7, <1>11

-----------------------------------------------------------------------------
(* A field of the scan may be given any value of its type.                 *)
LEMMA Update ==
  ASSUME NEW s \in States
  PROVE  /\ \A x \in SUBSET {"network", "bat", "clear", "onlyfree"} : [s EXCEPT !.flags = x] \in States
         /\ \A x \in Seq(Param) : [s EXCEPT !.toScan = x] \in States
         /\ \A x \in Seq(Param) : [s EXCEPT !.scanned = x] \in States
         /\ \A x \in SUBSET Param : [s EXCEPT !.unavailable = x] \in States
         /\ \A x \in Param : [s EXCEPT !.current = x] \in States
         /\ \A x \in BOOLEAN : [s EXCEPT !.locked = x] \in States
         /\ \A x \in SUBSET Table : [s EXCEPT !.ready = x] \in States
         /\ \A x \in SUBSET Table : [s EXCEPT !.valid = x] \in States
         /\ \A x \in [Table -> {"off", "reading", "late"}] : [s EXCEPT !.table = x] \in States
         /\ \A x \in SUBSET Program : [s EXCEPT !.pmts = x] \in States
         /\ \A x \in SUBSET Program : [s EXCEPT !.scrambled = x] \in States
         /\ \A x \in Program \cup {NoProgram} : [s EXCEPT !.at = x] \in States
         /\ \A x \in BOOLEAN : [s EXCEPT !.running = x] \in States
         /\ \A x \in BOOLEAN : [s EXCEPT !.abort = x] \in States
         /\ \A x \in BOOLEAN : [s EXCEPT !.pmt = x] \in States
         /\ \A x \in BOOLEAN : [s EXCEPT !.error = x] \in States
         /\ \A x \in BOOLEAN : [s EXCEPT !.chid = x] \in States
         /\ \A x \in SUBSET Services : [s EXCEPT !.services = x] \in States
         /\ \A x \in SUBSET Ids : [s EXCEPT !.known = x] \in States
         /\ \A x \in {"tuning", "ok", "unavailable"} : [s EXCEPT !.fe = x] \in States
         /\ \A x \in BOOLEAN : [s EXCEPT !.window = x] \in States
         /\ \A x \in {"no", "finish", "crash"} : [s EXCEPT !.end = x] \in States
<1>1. \A x \in SUBSET {"network", "bat", "clear", "onlyfree"} : [s EXCEPT !.flags = x] \in States
  BY DEF States
<1>2. \A x \in Seq(Param) : [s EXCEPT !.toScan = x] \in States
  BY DEF States
<1>3. \A x \in Seq(Param) : [s EXCEPT !.scanned = x] \in States
  BY DEF States
<1>4. \A x \in SUBSET Param : [s EXCEPT !.unavailable = x] \in States
  BY DEF States
<1>5. \A x \in Param : [s EXCEPT !.current = x] \in States
  BY DEF States
<1>6. \A x \in BOOLEAN : [s EXCEPT !.locked = x] \in States
  BY DEF States
<1>7. \A x \in SUBSET Table : [s EXCEPT !.ready = x] \in States
  BY DEF States
<1>8. \A x \in SUBSET Table : [s EXCEPT !.valid = x] \in States
  BY DEF States
<1>9. \A x \in [Table -> {"off", "reading", "late"}] : [s EXCEPT !.table = x] \in States
  BY DEF States
<1>10. \A x \in SUBSET Program : [s EXCEPT !.pmts = x] \in States
  BY DEF States
<1>11. \A x \in SUBSET Program : [s EXCEPT !.scrambled = x] \in States
  BY DEF States
<1>12. \A x \in Program \cup {NoProgram} : [s EXCEPT !.at = x] \in States
  BY DEF States
<1>13. \A x \in BOOLEAN : [s EXCEPT !.running = x] \in States
  BY DEF States
<1>14. \A x \in BOOLEAN : [s EXCEPT !.abort = x] \in States
  BY DEF States
<1>15. \A x \in BOOLEAN : [s EXCEPT !.pmt = x] \in States
  BY DEF States
<1>16. \A x \in BOOLEAN : [s EXCEPT !.error = x] \in States
  BY DEF States
<1>17. \A x \in BOOLEAN : [s EXCEPT !.chid = x] \in States
  BY DEF States
<1>18. \A x \in SUBSET Services : [s EXCEPT !.services = x] \in States
  BY DEF States
<1>19. \A x \in SUBSET Ids : [s EXCEPT !.known = x] \in States
  BY DEF States
<1>20. \A x \in {"tuning", "ok", "unavailable"} : [s EXCEPT !.fe = x] \in States
  BY DEF States
<1>21. \A x \in BOOLEAN : [s EXCEPT !.window = x] \in States
  BY DEF States
<1>22. \A x \in {"no", "finish", "crash"} : [s EXCEPT !.end = x] \in States
  BY DEF States
<1> QED
  BY <1>1, <1>2, <1>3, <1>4, <1>5, <1>6, <1>7, <1>8, <1>9, <1>10, <1>11, <1>12, <1>13, <1>14, <1>15, <1>16, <1>17, <1>18, <1>19, <1>20, <1>21, <1>22

-----------------------------------------------------------------------------
(* What the tables add to the list.                                        *)

(* No transponder of the list was scanned.                                 *)
Ahead(s) == \A x \in Range(s.scanned), q \in Range(s.toScan) : ~Same(x, q)

FarApart == \A a, b, c \in Param : Same(a, b) /\ Same(b, c) => Same(a, c)

(* r is s but for what is still to be scanned.                             *)
Listing(s, r) ==
  /\ r \in States /\ r = [s EXCEPT !.toScan = r.toScan]
  /\ FarApart /\ Ahead(s) => Ahead(r)

(* addChannelToScan changes the list to scan only, and brings nothing that *)
(* was scanned.                                                            *)
LEMMA AddChannelIs ==
  ASSUME NEW s \in States, NEW p \in Param
  PROVE  Listing(s, addChannelToScan(s, p))
<1> DEFINE r == addChannelToScan(s, p)
<1>1. s.toScan \in Seq(Param) /\ s.scanned \in Seq(Param)
  BY DEF States
<1>2. CASE \E q \in Range(s.toScan) : Same(q, p)
  <2>1. r = [s EXCEPT !.toScan = Updated(s.toScan, p)]
    BY <1>2 DEF addChannelToScan
  <2> HIDE DEF r
  <2>2. /\ Updated(s.toScan, p) \in Seq(Param)
        /\ Range(Updated(s.toScan, p)) \subseteq Range(s.toScan) \cup {p}
    BY <1>1, <1>2, UpdatedIs
  <2>3. r \in States /\ r.toScan = Updated(s.toScan, p) /\ r.scanned = s.scanned
    BY <2>1, <2>2 DEF States
  <2>4. ASSUME FarApart, Ahead(s), NEW x \in Range(s.scanned) PROVE ~Same(x, p)
    <3>1. PICK q \in Range(s.toScan) : Same(q, p)
      BY <1>2
    <3>2. q \in Param /\ x \in Param
      BY <1>1, RangeInSeq
    <3>3. ~Same(x, q) /\ Same(p, q)
      BY <2>4, <3>1, SameIsSymmetric DEF Ahead
    <3> QED
      BY <2>4, <3>2, <3>3 DEF FarApart
  <2>5. FarApart /\ Ahead(s) => Ahead(r)
    BY <2>2, <2>3, <2>4 DEF Ahead
  <2>6. r = [s EXCEPT !.toScan = r.toScan]
    BY <2>1, <2>3
  <2> QED
    BY <2>3, <2>5, <2>6 DEF Listing, r
<1>3. CASE ~\E q \in Range(s.toScan) : Same(q, p)
  <2>1. CASE r = s
    BY <2>1 DEF Listing, States
  <2>2. CASE r # s
    <3>1. /\ r = [s EXCEPT !.toScan = <<p>> \o @]
          /\ ~\E q \in Range(s.scanned) : Same(q, p)
      BY <1>3, <2>2 DEF addChannelToScan
    <3> HIDE DEF r
    <3>2. /\ <<p>> \o s.toScan \in Seq(Param)
          /\ Range(<<p>> \o s.toScan) = {p} \cup Range(s.toScan)
      <4> DEFINE first == <<p>>
      <4>1. first \in Seq(Param) /\ Range(first) = {p}
        BY DEF Range
      <4> HIDE DEF first
      <4>2. Range(first \o s.toScan) = Range(first) \cup Range(s.toScan)
        BY <1>1, <4>1, RangeConcatenation
      <4>3. first \o s.toScan \in Seq(Param)
        BY <1>1, <4>1
      <4> QED
        BY <4>1, <4>2, <4>3 DEF first
    <3>3. r \in States /\ r.toScan = <<p>> \o s.toScan /\ r.scanned = s.scanned
      BY <3>1, <3>2 DEF States
    <3>4. FarApart /\ Ahead(s) => Ahead(r)
      BY <3>1, <3>2, <3>3 DEF Ahead
    <3>5. r = [s EXCEPT !.toScan = r.toScan]
      BY <3>1, <3>3
    <3> QED
      BY <3>3, <3>4, <3>5 DEF Listing, r
  <2> QED
    BY <2>1, <2>2
<1> QED
  BY <1>2, <1>3

(* What is received here is something on air.                              *)
LEMMA HereIs ==
  ASSUME NEW s \in States
  PROVE  /\ s.current \in Param /\ s.current.f \in DOMAIN Air /\ Here(s) = Air[s.current.f]
         /\ Here(s).nit \in Seq(Param) /\ Here(s).id \in Ids
         /\ Here(s).pat \subseteq Program /\ Here(s).sdt \subseteq Program
<1>1. s.current \in Param
  BY DEF States
<1>2. s.current.f \in DOMAIN Air
  BY <1>1, ScanAssumption
<1> QED
  BY <1>1, <1>2, ScanAssumption DEF Here, Ids, Program

(* One change of the list after the other is a change of the list.         *)
LEMMA ListingChain ==
  ASSUME NEW s \in States, NEW a, NEW r, Listing(s, a), Listing(a, r)
  PROVE  Listing(s, r)
<1>1. r = [s EXCEPT !.toScan = r.toScan]
  <2>1. a \in States /\ a = [s EXCEPT !.toScan = a.toScan] /\ r = [a EXCEPT !.toScan = r.toScan]
    BY DEF Listing
  <2>2. a.toScan \in Seq(Param) /\ r.toScan \in Seq(Param)
    BY DEF Listing, States
  <2> HIDE DEF Listing
  <2> QED
    BY <2>1, <2>2 DEF States
<1> QED
  BY <1>1 DEF Listing

(* The loop over the transponders of a table, by induction over its length.*)
LEMMA AddedIs ==
  ASSUME NEW s \in States, NEW L \in Seq(Param)
  PROVE  Listing(s, Added(s, L))
<1> DEFINE n == Len(L)
           next(v, k) == addChannelToScan(v, L[k])
           body(g) == [k \in 0 .. n |-> IF k = 0 THEN s ELSE next(g[k - 1], k)]
           step == [k \in 1 .. n |-> [v \in States |-> next(v, k)]]
           with == CHOOSE g : g = body(g)
<1>1. n \in Nat /\ \A k \in 1 .. n : L[k] \in Param
  OBVIOUS
<1>2. \A k \in 1 .. n, v \in States : Listing(v, next(v, k))
  BY <1>1, AddChannelIs
<1>3. step \in [1 .. n -> [States -> States]]
  <2>1. \A k \in 1 .. n, v \in States : next(v, k) \in States
    BY <1>2 DEF Listing
  <2> HIDE DEF next, n
  <2> QED
    BY <2>1
<1>4. PICK g \in [0 .. n -> States] : g[0] = s /\ \A k \in 1 .. n : g[k] = step[k][g[k - 1]]
  <2> HIDE DEF n, step
  <2>1. Iterated(n, States, s, step)
    BY <1>1, <1>3, Recursion
  <2> QED
    BY <2>1 DEF Iterated
<1> HIDE DEF next
<1>5. ASSUME NEW k \in 1 .. n PROVE g[k] = next(g[k - 1], k)
  <2>1. g[k - 1] \in States
    BY <1>1
  <2> QED
    BY <1>4, <2>1
<1>6. g = body(g)
  <2> HIDE DEF n, step
  <2>1. \A k \in 0 .. n : g[k] = IF k = 0 THEN s ELSE next(g[k - 1], k)
    BY <1>1, <1>4, <1>5
  <2> QED
    BY <2>1
<1>7. with = body(with)
  BY <1>6
<1>8. Added(s, L) = with[n]
  BY DEF Added, next
<1>9. with[0] = s /\ \A k \in 1 .. n : with[k] = next(with[k - 1], k)
  <2> HIDE DEF n, with, step
  <2> QED
    BY <1>1, <1>7
<1> HIDE DEF with, step
<1> DEFINE T == {k \in 0 .. n : Listing(s, with[k])}
<1>10. 0 \in T
  <2>1. Listing(s, s)
    BY DEF Listing, States
  <2> HIDE DEF n
  <2> QED
    BY <1>1, <1>9, <2>1
<1>11. ASSUME NEW k \in 1 .. n, k - 1 \in T PROVE k \in T
  <2>1. with[k - 1] \in States /\ Listing(s, with[k - 1]) /\ with[k] = next(with[k - 1], k)
    BY <1>9, <1>11 DEF Listing
  <2>2. Listing(with[k - 1], with[k])
    BY <1>2, <2>1
  <2>3. Listing(s, with[k])
    BY <2>1, <2>2, ListingChain
  <2> QED
    BY <1>1, <2>3
<1>12. \A k \in 0 .. n : k \in T
  <2> HIDE DEF T, n
  <2> QED
    BY <1>1, <1>10, <1>11, Induction
<1> QED
  BY <1>1, <1>8, <1>12

(* What the NIT changes.                                                   *)
Networked(s, d) ==
  /\ d \in States
  /\ d = [s EXCEPT !.valid = @ \ {"NIT"}, !.toScan = d.toScan, !.flags = d.flags]
  /\ d.flags \cup {"clear"} = s.flags \cup {"clear"}
  /\ FarApart /\ Ahead(s) => Ahead(d)

(* The NIT changes the list, the first of them the flag, and it is         *)
(* digested.                                                               *)
LEMMA NITIs ==
  ASSUME NEW s \in States
  PROVE  Networked(s, ProcessNIT(s))
<1> DEFINE d == ProcessNIT(s)
           b == IF "clear" \in s.flags THEN [s EXCEPT !.toScan = <<>>] ELSE s
           r == Added(b, Here(s).nit)
<1>1. b \in States /\ b.scanned = s.scanned /\ (Ahead(s) => Ahead(b))
  <2>1. CASE "clear" \in s.flags
    <3>1. <<>> \in Seq(Param) /\ Range(<<>>) = {}
      BY DEF Range
    <3>2. b \in States /\ b.scanned = s.scanned /\ b.toScan = <<>>
      BY <2>1, <3>1 DEF States
    <3> QED
      BY <3>1, <3>2 DEF Ahead
  <2> QED
    BY <2>1
<1>2. b = [s EXCEPT !.toScan = b.toScan]
  BY DEF States
<1> HIDE DEF b
<1>3. Listing(b, r)
  BY <1>1, HereIs, AddedIs
<1> HIDE DEF r
<1>4. r \in States /\ r = [s EXCEPT !.toScan = r.toScan] /\ r.scanned = s.scanned
  <2>1. r = [b EXCEPT !.toScan = r.toScan] /\ r \in States
    BY <1>3 DEF Listing
  <2> QED
    BY <1>1, <1>2, <2>1 DEF States
<1>5. d = [r EXCEPT !.valid = @ \ {"NIT"},
                    !.toScan = IF "clear" \in s.flags /\ @ = <<>> THEN s.toScan ELSE @,
                    !.flags = IF "clear" \in s.flags /\ r.toScan # <<>> THEN @ \ {"clear"} ELSE @]
  BY DEF ProcessNIT, r, b
<1> HIDE DEF d
<1>6. d \in States /\ d.scanned = s.scanned
      /\ d = [s EXCEPT !.valid = @ \ {"NIT"}, !.toScan = d.toScan, !.flags = d.flags]
      /\ d.flags \in {s.flags, s.flags \ {"clear"}}
      /\ d.toScan \in {s.toScan, r.toScan}
  BY <1>4, <1>5 DEF States
<1>7. FarApart /\ Ahead(s) => Ahead(d)
  BY <1>1, <1>3, <1>4, <1>6 DEF Listing, Ahead
<1> QED
  BY <1>6, <1>7 DEF Networked, d

-----------------------------------------------------------------------------
(* The walk over the programs.                                             *)

(* No transponder was scanned twice, nor is one that was scanned the       *)
(* current one.                                                            *)
Once(s) == \A i, j \in DOMAIN s.scanned : Same(s.scanned[i], s.scanned[j]) => i = j
Fresh(s) == \A x \in Range(s.scanned) : ~Same(x, s.current)
Spaced(s) == FarApart => Once(s) /\ Ahead(s) /\ Fresh(s)

Sound(s) ==
  /\ s \in States
  /\ s.running => s.at \in s.pmts
  /\ s.abort => s.running
  /\ Spaced(s)

(* A list that brings nothing that was scanned keeps what is said of it.   *)
LEMMA SpacedOn ==
  ASSUME NEW s, NEW r, Spaced(s), r.scanned = s.scanned, r.current = s.current,
         FarApart /\ Ahead(s) => Ahead(r)
  PROVE  Spaced(r)
BY DEF Spaced, Once, Fresh

(* So does a step that leaves the lists alone.                             *)
LEMMA SameLists ==
  ASSUME NEW s, NEW r, Spaced(s), r.scanned = s.scanned, r.current = s.current,
         r.toScan = s.toScan
  PROVE  Spaced(r)
BY DEF Spaced, Once, Fresh, Ahead

(* Programs are numbers, and the end of the list is none.                  *)
LEMMA ProgramsAreNumbers == Program \subseteq Nat /\ NoProgram \notin Program
BY ScanAssumption DEF Program

(* The iterator of a walk points to a program.                             *)
LEMMA InWalk ==
  ASSUME NEW s \in States, NEW p \in s.pmts
  PROVE  p \in Program /\ p \in Nat /\ p \in Int
<1>1. s.pmts \subseteq Program
  BY DEF States
<1>2. p \in Program
  BY <1>1
<1>3. p \in Nat
  BY <1>2, ProgramsAreNumbers
<1> QED
  BY <1>2, <1>3

(* The next program is the least of those behind, or there is none.        *)
LEMMA AfterIs ==
  ASSUME NEW s \in States, NEW p \in Int
  PROVE  \/ /\ After(s, p) = NoProgram
            /\ \A q \in s.pmts : q <= p
         \/ /\ After(s, p) \in s.pmts /\ After(s, p) > p
            /\ \A q \in s.pmts : q > p => After(s, p) <= q
<1> DEFINE later == {q \in s.pmts : q > p}
<1>1. s.pmts \subseteq Nat
  BY ProgramsAreNumbers DEF States
<1>2. CASE later = {}
  <2>1. After(s, p) = NoProgram
    BY <1>2 DEF After
  <2> QED
    BY <1>1, <1>2, <2>1
<1>3. CASE later # {}
  <2>1. \E q \in later : \A x \in later : q <= x
    BY <1>1, <1>3, LeastElement
  <2>2. After(s, p) = CHOOSE q \in later : \A x \in later : q <= x
    BY <1>3 DEF After
  <2> DEFINE a == After(s, p)
  <2>3. a \in later /\ \A x \in later : a <= x
    BY <2>1, <2>2
  <2> QED
    BY <2>3
<1> QED
  BY <1>2, <1>3

(* What nextChannel leaves alone, and where it leads.                      *)
Moved(s, r) ==
  /\ r \in States /\ ~r.pmt /\ r.ready = {} /\ r.valid = {} /\ r.table = [x \in Table |-> "off"]
  /\ r.flags = s.flags /\ r.scanned = s.scanned /\ r.pmts = s.pmts /\ r.scrambled = s.scrambled
  /\ r.at = s.at /\ r.running = s.running /\ r.abort = s.abort /\ r.error = s.error
  /\ r.services = s.services /\ r.known = s.known
  /\ Range(r.toScan) \subseteq Range(s.toScan)
  /\ \/ r.end = "finish"
     \/ /\ r.end = s.end /\ r.fe = "tuning" /\ r.window /\ ~r.locked /\ ~r.chid
        /\ r.current \in Range(s.toScan)

(* nextChannel ends the scan or tunes the first transponder that is        *)
(* accepted.                                                               *)
LEMMA NextChannelIs ==
  ASSUME NEW s \in States, NEW r \in NextChannel(s)
  PROVE  Moved(s, r)
<1> DEFINE n == Len(s.toScan)
           b == [s EXCEPT !.table = [x \in Table |-> "off"], !.pmt = FALSE,
                          !.ready = {}, !.valid = {}]
           over == [b EXCEPT !.end = "finish"]
           last == [b EXCEPT !.toScan = <<>>, !.current = s.toScan[n], !.chid = FALSE,
                             !.locked = FALSE, !.end = "finish"]
           to(k) == [b EXCEPT !.toScan = SubSeq(@, k + 2, n), !.current = s.toScan[k + 1],
                              !.chid = FALSE, !.locked = FALSE, !.fe = "tuning", !.window = TRUE]
<1>1. s.toScan \in Seq(Param) /\ n \in Nat /\ DOMAIN s.toScan = 1 .. n
  BY DEF States
<1>2. \/ r = over
      \/ n # 0 /\ r = last
      \/ \E k \in 0 .. n - 1 : r = to(k)
  <2>1. CASE n = 0
    BY <2>1 DEF NextChannel
  <2>2. CASE n # 0
    <3> DEFINE refused == IF "tune" \in Faults THEN 0 .. n ELSE {0}
               next(k) == IF k = n THEN last ELSE to(k)
    <3>1. NextChannel(s) = {next(k) : k \in refused}
      BY <2>2, Zenon DEF NextChannel
    <3>2. refused \subseteq 0 .. n
      BY <1>1
    <3> HIDE DEF refused, next
    <3>5. PICK k \in 0 .. n : r = next(k)
      BY <3>1, <3>2
    <3>3. r = IF k = n THEN last ELSE to(k)
      BY <3>5, Zenon DEF next
    <3> HIDE DEF last, to, n
    <3>4. k # n => k \in 0 .. n - 1
      BY <1>1, <3>3
    <3> QED
      BY <2>2, <3>3, <3>4
  <2> HIDE DEF over, last, to, n
  <2> QED
    BY <2>1, <2>2
<1>3. b \in States
  BY DEF States
<1>4. CASE r = over
  BY <1>4, <1>3 DEF States, Moved
<1> DEFINE Left == /\ b.table = [x \in Table |-> "off"] /\ ~b.pmt /\ b.ready = {} /\ b.valid = {}
                   /\ b.flags = s.flags /\ b.scanned = s.scanned /\ b.pmts = s.pmts
                   /\ b.scrambled = s.scrambled /\ b.at = s.at /\ b.running = s.running
                   /\ b.abort = s.abort /\ b.error = s.error /\ b.services = s.services
                   /\ b.known = s.known /\ b.toScan = s.toScan /\ b.end = s.end
<1>7. Left
  BY DEF States
<1> HIDE DEF b
<1>5. CASE n # 0 /\ r = last
  <2>1. s.toScan[n] \in Param /\ <<>> \in Seq(Param) /\ Range(<<>>) = {}
    BY <1>1, <1>5 DEF Range
  <2>2. r \in States /\ r.toScan = <<>>
    BY <1>3, <1>5, <2>1 DEF States
  <2>3. Range(r.toScan) = {}
    BY <2>1, <2>2
  <2> HIDE DEF n
  <2> QED
    BY <1>3, <1>5, <1>7, <2>2, <2>3 DEF States, Moved
<1>6. ASSUME NEW k \in 0 .. n - 1, r = to(k) PROVE Moved(s, r)
  <2> DEFINE rest == SubSeq(s.toScan, k + 2, n)  T == Range(s.toScan)
  <2>1. s.toScan \in Seq(T) /\ T \subseteq Param
    BY <1>1, RangeInSeq
  <2>2. k + 1 \in DOMAIN s.toScan
    BY <1>1
  <2>3. s.toScan[k + 1] \in T
    BY <2>2 DEF Range
  <2> HIDE DEF T
  <2>4. rest \in Seq(T)
    BY <1>1, <2>1
  <2> HIDE DEF rest
  <2>5. rest \in Seq(Param) /\ Range(rest) \subseteq T
    BY <2>1, <2>4, RangeInSeq
  <2>6. r = [b EXCEPT !.toScan = rest, !.current = s.toScan[k + 1],
                      !.chid = FALSE, !.locked = FALSE, !.fe = "tuning", !.window = TRUE]
    BY <1>6, <1>7 DEF rest
  <2> DEFINE p == s.toScan[k + 1]
  <2>8. p \in Param
    BY <2>1, <2>3
  <2> HIDE DEF n, p
  <2>7. r \in States /\ r.toScan = rest /\ r.current = p
    <3>1. r \in States
      BY <1>3, <2>5, <2>6, <2>8, Update DEF p
    <3> QED
      BY <1>3, <2>6, <3>1 DEF States, p
  <2> HIDE DEF n
  <2> QED
    BY <1>3, <1>7, <2>3, <2>5, <2>6, <2>7 DEF States, Moved, T, p
<1> HIDE DEF over, last, to, n
<1> QED
  BY <1>2, <1>4, <1>5, <1>6

(* What the SDT changes.                                                   *)
Listed(s) == Here(s).sdt
BeingRead(s) == IF s.running THEN {s.at} ELSE {}

(* What processSDT changes and leaves alone.                               *)
LEMMA SDTIs ==
  ASSUME NEW s \in States
  PROVE  LET r == ProcessSDT(s)
             wanted == IF "onlyfree" \in s.flags THEN Listed(s) \cap (s.pmts \ s.scrambled)
                       ELSE Listed(s)
         IN /\ r \in States /\ r.chid /\ r.valid = s.valid \ {"SDT"}
            /\ r.services = s.services \cup {<<Here(s).id, p>> : p \in wanted}
            /\ r.abort = (s.abort \/ BeingRead(s) \cap Listed(s) # {})
            /\ r.pmts = s.pmts \ (Listed(s) \ BeingRead(s))
            /\ r.scrambled = s.scrambled \ (Listed(s) \ BeingRead(s))
            /\ r.running = s.running /\ r.at = s.at /\ r.pmt = s.pmt /\ r.error = s.error
            /\ r.flags = s.flags /\ r.current = s.current /\ r.known = s.known /\ r.end = s.end
            /\ r.fe = s.fe /\ r.locked = s.locked /\ r.ready = s.ready /\ r.table = s.table
            /\ r.scanned = s.scanned /\ r.toScan = s.toScan
<1> DEFINE r == ProcessSDT(s)
           wanted == IF "onlyfree" \in s.flags THEN Listed(s) \cap (s.pmts \ s.scrambled)
                     ELSE Listed(s)
           new == {<<Here(s).id, p>> : p \in wanted}
           needless == s.abort \/ BeingRead(s) \cap Listed(s) # {}
           gone == Listed(s) \ BeingRead(s)
           v == s.valid \ {"SDT"}
           sv == s.services \cup new
           pm == s.pmts \ gone
           sc == s.scrambled \ gone
<1>1. r = [s EXCEPT !.chid = TRUE, !.valid = v, !.services = sv, !.abort = needless,
                    !.pmts = pm, !.scrambled = sc]
  BY Zenon DEF ProcessSDT, Listed, BeingRead
<1>2. Here(s).id \in Ids /\ Listed(s) \subseteq Program
  BY HereIs DEF Listed
<1>3. new \subseteq Services
  BY <1>2 DEF Services
<1> HIDE DEF new
<1>4. needless \in BOOLEAN
  OBVIOUS
<1>5. /\ sv \in SUBSET Services /\ pm \in SUBSET Program /\ sc \in SUBSET Program
      /\ v \in SUBSET Table
  BY <1>3 DEF States
<1> HIDE DEF r, needless, v, sv, pm, sc
<1>6. r \in States
  BY <1>1, <1>4, <1>5, Update
<1>7. /\ r.chid /\ r.valid = v /\ r.services = sv /\ r.abort = needless
      /\ r.pmts = pm /\ r.scrambled = sc
      /\ r.running = s.running /\ r.at = s.at /\ r.pmt = s.pmt /\ r.error = s.error
      /\ r.toScan = s.toScan /\ r.scanned = s.scanned
  BY <1>1 DEF States
<1>8. /\ r.flags = s.flags /\ r.current = s.current /\ r.known = s.known /\ r.end = s.end
      /\ r.fe = s.fe /\ r.locked = s.locked /\ r.ready = s.ready /\ r.table = s.table
  BY <1>1 DEF States
<1> QED
  BY <1>6, <1>7, <1>8 DEF new, r, needless, v, sv, pm, sc

(* The SDT leaves the program the iterator is at.                          *)
LEMMA SDTWalks ==
  ASSUME NEW s, Sound(s)
  PROVE  Sound(ProcessSDT(s))
<1> DEFINE r == ProcessSDT(s)
<1>1. /\ r \in States /\ r.running = s.running /\ r.at = s.at
      /\ r.abort = (s.abort \/ BeingRead(s) \cap Listed(s) # {})
      /\ r.pmts = s.pmts \ (Listed(s) \ BeingRead(s))
      /\ r.current = s.current /\ r.scanned = s.scanned /\ r.toScan = s.toScan
  BY SDTIs DEF Sound
<1> HIDE DEF r
<1>2. r.running => r.at \in r.pmts
  BY <1>1 DEF Sound, BeingRead
<1>3. r.abort => r.running
  BY <1>1 DEF Sound, BeingRead
<1>4. Spaced(r)
  BY <1>1, SameLists DEF Sound
<1> QED
  BY <1>1, <1>2, <1>3, <1>4 DEF Sound, r

(* The NIT has nothing to do with the walk.                                *)
LEMMA NITWalks ==
  ASSUME NEW s, Sound(s)
  PROVE  Sound(ProcessNIT(s))
<1>1. s \in States /\ Networked(s, ProcessNIT(s))
  BY NITIs DEF Sound
<1> DEFINE d == ProcessNIT(s)
<1> HIDE DEF d
<1>2. /\ d.running = s.running /\ d.at = s.at /\ d.pmts = s.pmts /\ d.abort = s.abort
      /\ d.scanned = s.scanned /\ d.current = s.current /\ d \in States
  BY <1>1 DEF Networked, States, d
<1>3. Spaced(d)
  BY <1>1, <1>2, SpacedOn DEF Sound, Networked, d
<1> QED
  BY <1>2, <1>3 DEF Sound, d

(* Both tables together leave a state the walk can go on from.             *)
LEMMA DigestWalks ==
  ASSUME NEW s, Sound(s)
  PROVE  Sound(Digest(s))
BY SDTWalks, NITWalks DEF Digest

(* What the walk, wherever it stands, leaves alone.                        *)
Kept(s, r) ==
  /\ r \in States /\ r.flags = s.flags /\ r.toScan = s.toScan /\ r.scanned = s.scanned
  /\ r.current = s.current /\ r.locked = s.locked /\ r.ready = s.ready /\ r.valid = s.valid
  /\ r.table = s.table /\ r.chid = s.chid /\ r.services = s.services /\ r.known = s.known
  /\ r.fe = s.fe /\ r.abort = s.abort

(* Read changes nothing but m_PMT, its error, the walk and the end.        *)
LEMMA ReadIs ==
  ASSUME NEW s \in States, s.running
  PROVE  /\ Kept(s, Read(s)) /\ Read(s).at = s.at
         /\ Read(s).pmts = s.pmts /\ Read(s).scrambled = s.scrambled
         /\ \/ /\ s.at = NoProgram /\ Read(s).end = s.end
               /\ ~Read(s).running /\ ~Read(s).pmt /\ ~Read(s).error
            \/ /\ s.at # NoProgram /\ Read(s).error = s.error
               /\ Read(s).running /\ Read(s).pmt = s.pmt
               /\ Read(s).end = IF s.pmt THEN s.end ELSE "crash"
<1> DEFINE r == Read(s)
<1>1. CASE s.at = NoProgram
  <2>1. r = [s EXCEPT !.pmt = FALSE, !.error = FALSE, !.running = FALSE]
    BY <1>1 DEF Read
  <2> HIDE DEF r
  <2>2. r \in States
    BY <2>1, Update
  <2>3. /\ ~r.running /\ ~r.pmt /\ ~r.error /\ r.end = s.end /\ r.at = s.at
        /\ r.pmts = s.pmts /\ r.scrambled = s.scrambled
    BY <2>1 DEF States
  <2>4. Kept(s, r)
    BY <2>1, <2>2 DEF Kept, States
  <2> QED
    BY <1>1, <2>3, <2>4 DEF r
<1>2. CASE s.at # NoProgram /\ s.pmt
  <2>1. r = s
    BY <1>2 DEF Read
  <2> HIDE DEF r
  <2> QED
    BY <1>2, <2>1 DEF Kept, r
<1>3. CASE s.at # NoProgram /\ ~s.pmt
  <2>1. r = [s EXCEPT !.end = "crash"]
    BY <1>3 DEF Read
  <2> HIDE DEF r
  <2>2. r \in States
    BY <2>1, Update
  <2>3. /\ r.running = s.running /\ r.pmt = s.pmt /\ r.error = s.error /\ r.end = "crash"
        /\ r.at = s.at /\ r.pmts = s.pmts /\ r.scrambled = s.scrambled
    BY <2>1 DEF States
  <2>4. Kept(s, r)
    BY <2>1, <2>2 DEF Kept, States
  <2> QED
    BY <1>3, <2>3, <2>4 DEF r
<1> QED
  BY <1>1, <1>2, <1>3

(* Where the walk goes from program p of the state s.                      *)
Onward(s, p, r) ==
  \/ /\ ~r.running /\ ~r.pmt /\ ~r.error /\ r.end = s.end /\ r.at = NoProgram
     /\ \A q \in s.pmts : q <= p
  \/ /\ r.running /\ r.at \in s.pmts /\ r.at > p /\ \A q \in s.pmts : q > p => r.at <= q
     /\ r.pmt = s.pmt /\ r.error = s.error /\ r.end = IF s.pmt THEN s.end ELSE "crash"

(* Where the walk is after it has gone on.                                 *)
LEMMA OnwardIs ==
  ASSUME NEW s \in States, NEW p \in Int, NEW t \in States, t.running,
         t.at = After(s, p), t.pmt = s.pmt, t.error = s.error, t.end = s.end
  PROVE  Onward(s, p, Read(t))
<1>1. NoProgram \notin s.pmts
  BY ProgramsAreNumbers DEF States
<1> QED
  BY <1>1, AfterIs, ReadIs DEF Onward

(* PMTready(-1).                                                           *)
LEMMA EraseIs ==
  ASSUME NEW s, Sound(s), s.running
  PROVE  /\ Kept(s, Erase(s)) /\ Onward(s, s.at, Erase(s)) /\ s.at \in s.pmts /\ s.at \in Int
         /\ Erase(s).pmts = s.pmts \ {s.at} /\ Erase(s).scrambled = s.scrambled \ {s.at}
<1>1. s \in States /\ s.at \in s.pmts /\ s.pmts \subseteq Program /\ s.at \in Int
  <2>1. s \in States /\ s.at \in s.pmts
    BY DEF Sound
  <2>2. s.pmts \subseteq Program
    BY <2>1 DEF States
  <2> QED
    BY <2>1, <2>2, InWalk
<1>2. After(s, s.at) \in Program \cup {NoProgram}
  BY <1>1, AfterIs
<1> DEFINE a == After(s, s.at)
           t == [s EXCEPT !.pmts = @ \ {s.at}, !.scrambled = @ \ {s.at}, !.at = a]
<1>3. Erase(s) = Read(t)
  BY DEF Erase
<1> HIDE DEF a
<1>4. t \in States
  <2>1. s.pmts \ {s.at} \subseteq Program /\ s.scrambled \ {s.at} \subseteq Program
    BY <1>1 DEF States
  <2> QED
    BY <1>1, <1>2, <2>1, Update DEF a
<1>5. /\ t.running /\ t.at = a /\ t.pmt = s.pmt /\ t.error = s.error /\ t.end = s.end
      /\ t.pmts = s.pmts \ {s.at} /\ t.scrambled = s.scrambled \ {s.at}
  BY <1>1 DEF States
<1>6. t \in States => Kept(s, t)
  BY <1>1 DEF Kept, States
<1> HIDE DEF t
<1>7. Onward(s, s.at, Read(t))
  BY <1>1, <1>4, <1>5, OnwardIs DEF a
<1>8. Kept(t, Read(t)) /\ Read(t).pmts = t.pmts /\ Read(t).scrambled = t.scrambled
  BY <1>4, <1>5, ReadIs
<1>9. Kept(s, Read(t))
  BY <1>4, <1>6, <1>8 DEF Kept
<1> QED
  BY <1>1, <1>3, <1>5, <1>7, <1>8, <1>9

(* The walk between two events: nothing is left to be aborted.             *)
Steady(s) == Sound(s) /\ ~s.abort

(* A program that is erased is left by the iterator before.                *)
LEMMA EraseWalks ==
  ASSUME NEW s, Steady(s), s.running
  PROVE  Steady(Erase(s))
<1> DEFINE r == Erase(s)
<1> HIDE DEF r
<1>1. Kept(s, r) /\ Onward(s, s.at, r) /\ s.at \in Int /\ r.pmts = s.pmts \ {s.at}
  BY EraseIs DEF Steady, r
<1>2. r \in States /\ ~r.abort
  BY <1>1 DEF Kept, Steady
<1>3. r.running => r.at \in r.pmts
  BY <1>1 DEF Onward
<1>4. Spaced(r)
  BY <1>1, SameLists DEF Kept, Steady, Sound
<1> QED
  BY <1>2, <1>3, <1>4 DEF Steady, Sound, r

(* The last part of channelDone.                                           *)
Finished(s, r) ==
  \E t \in States :
    /\ Moved(t, r) /\ t.pmts = {} /\ t.scrambled = {} /\ t.at = NoProgram
    /\ t.running = s.running /\ t.abort = s.abort /\ t.error = s.error /\ t.end = s.end
    /\ t.flags = s.flags /\ t.scanned = Append(s.scanned, s.current)
    /\ t.toScan = Without(s.toScan, s.current)
    /\ t.services = s.services \cup
         {<<Here(s).id, p>> : p \in IF "onlyfree" \in s.flags THEN s.pmts \ s.scrambled ELSE s.pmts}
    /\ t.known = s.known \cup (IF s.chid \/ s.pmts # {} THEN {Here(s).id} ELSE {})

(* What the end of a transponder leaves.                                   *)
LEMMA CompleteIs ==
  ASSUME NEW s \in States, NEW r \in Complete(s)
  PROVE  Finished(s, r)
<1> DEFINE wanted == IF "onlyfree" \in s.flags THEN s.pmts \ s.scrambled ELSE s.pmts
           named == s.chid \/ s.pmts # {}
           sv == s.services \cup {<<Here(s).id, p>> : p \in wanted}
           kn == s.known \cup (IF named THEN {Here(s).id} ELSE {})
           ts == Without(s.toScan, s.current)
           sd == Append(s.scanned, s.current)
           t == [s EXCEPT !.services = sv, !.pmts = {}, !.scrambled = {}, !.at = NoProgram,
                          !.chid = named, !.known = kn, !.scanned = sd, !.toScan = ts]
<1>1. r \in NextChannel(t)
  BY DEF Complete
<1>2. /\ Here(s).id \in Ids /\ s.pmts \subseteq Program /\ s.current \in Param /\ s.known \subseteq Ids
      /\ s.services \subseteq Services /\ s.toScan \in Seq(Param) /\ s.scanned \in Seq(Param)
  BY HereIs DEF States
<1>3. sv \in SUBSET Services
  BY <1>2 DEF Services
<1>4. kn \in SUBSET Ids /\ named \in BOOLEAN
  BY <1>2
<1>5. ts \in Seq(Param) /\ sd \in Seq(Param)
  BY <1>2, WithoutIs
<1>6. {} \in SUBSET Program /\ NoProgram \in Program \cup {NoProgram}
  OBVIOUS
<1> HIDE DEF sv, kn, ts, sd, named
<1>7. t \in States
  BY <1>3, <1>4, <1>5, <1>6, Update
<1>8. /\ t.pmts = {} /\ t.scrambled = {} /\ t.at = NoProgram /\ t.services = sv /\ t.known = kn
      /\ t.scanned = sd /\ t.toScan = ts
  BY DEF States
<1>9. /\ t.running = s.running /\ t.abort = s.abort /\ t.error = s.error /\ t.end = s.end
      /\ t.flags = s.flags
  BY DEF States
<1> HIDE DEF t
<1>10. Moved(t, r)
  BY <1>1, <1>7, NextChannelIs
<1> QED
  BY <1>7, <1>8, <1>9, <1>10 DEF Finished, sv, kn, ts, sd, named

(* The state after an event.                                               *)
Rested(s) ==
  /\ s \in States /\ ~s.abort
  /\ s.running => s.at \in s.pmts
  /\ FarApart => Once(s) /\ Ahead(s) /\ (s.end = "finish" \/ Fresh(s))

(* What holds in the middle of the scan holds at rest.                     *)
LEMMA SteadyRests == \A s : Steady(s) => Rested(s)
BY DEF Steady, Sound, Rested, Spaced

(* What is tuned next is taken from the list.                              *)
LEMMA MovedApart ==
  ASSUME NEW s, NEW r, Moved(s, r), FarApart, Once(s), Ahead(s)
  PROVE  Once(r) /\ Ahead(r) /\ (r.end = "finish" \/ Fresh(r))
BY DEF Moved, Once, Ahead, Fresh

(* The end of a transponder leaves a state at rest.                        *)
LEMMA CompleteWalks ==
  ASSUME NEW s, Steady(s), ~s.running, NEW r \in Complete(s)
  PROVE  Rested(r)
<1>0. s \in States /\ s.scanned \in Seq(Param) /\ s.toScan \in Seq(Param) /\ s.current \in Param
  BY DEF Steady, Sound, States
<1>1. PICK t \in States :
        /\ Moved(t, r) /\ t.running = s.running /\ t.abort = s.abort
        /\ t.scanned = Append(s.scanned, s.current) /\ t.toScan = Without(s.toScan, s.current)
  BY <1>0, CompleteIs DEF Finished
<1>2. r \in States /\ ~r.running /\ ~r.abort
  BY <1>1 DEF Moved, Steady
<1>3. ASSUME FarApart PROVE Once(t) /\ Ahead(t)
  <2>1. Once(s) /\ Ahead(s) /\ Fresh(s)
    BY <1>3 DEF Steady, Sound, Spaced
  <2>2. Range(t.scanned) = Range(s.scanned) \cup {s.current}
    BY <1>0, <1>1, RangeAppend
  <2>3. Range(t.toScan) = {q \in Range(s.toScan) : ~Same(q, s.current)}
    BY <1>0, <1>1, WithoutIs
  <2>4. Ahead(t)
    BY <2>1, <2>2, <2>3, SameIsSymmetric DEF Ahead
  <2>5. /\ DOMAIN t.scanned = 1 .. Len(s.scanned) + 1 /\ Len(s.scanned) \in Nat
        /\ DOMAIN s.scanned = 1 .. Len(s.scanned)
        /\ \A i \in 1 .. Len(s.scanned) : t.scanned[i] = s.scanned[i]
        /\ t.scanned[Len(s.scanned) + 1] = s.current
    BY <1>0, <1>1
  <2>6. \A i \in DOMAIN s.scanned : ~Same(s.scanned[i], s.current) /\ ~Same(s.current, s.scanned[i])
    BY <2>1, SameIsSymmetric DEF Fresh, Range
  <2>7. ASSUME NEW i \in DOMAIN t.scanned, NEW j \in DOMAIN t.scanned,
               Same(t.scanned[i], t.scanned[j])
        PROVE  i = j
    <3>1. CASE i \in DOMAIN s.scanned /\ j \in DOMAIN s.scanned
      BY <2>1, <2>5, <2>7, <3>1 DEF Once
    <3>2. CASE i = Len(s.scanned) + 1 /\ j = Len(s.scanned) + 1
      BY <3>2
    <3>3. CASE i = Len(s.scanned) + 1 /\ j \in DOMAIN s.scanned
      BY <2>5, <2>6, <2>7, <3>3
    <3>4. CASE j = Len(s.scanned) + 1 /\ i \in DOMAIN s.scanned
      BY <2>5, <2>6, <2>7, <3>4
    <3> QED
      BY <2>5, <3>1, <3>2, <3>3, <3>4
  <2> QED
    BY <2>4, <2>7 DEF Once
<1> QED
  BY <1>1, <1>2, <1>3, MovedApart DEF Rested

(* The PMT that the SDT made needless is aborted.                          *)
Calmed(s, r) ==
  /\ r \in States /\ ~r.abort /\ r.running = s.running /\ r.at = s.at /\ r.pmts = s.pmts
  /\ r.scrambled = s.scrambled /\ r.pmt = s.pmt /\ r.error = s.error /\ r.end = s.end
  /\ r.flags = s.flags /\ r.toScan = s.toScan /\ r.scanned = s.scanned
  /\ r.current = s.current /\ r.locked = s.locked /\ r.ready = s.ready
  /\ r.valid = s.valid /\ r.table = s.table /\ r.chid = s.chid
  /\ r.services = s.services /\ r.known = s.known /\ r.fe = s.fe

(* The abort is over, and nothing else changes.                            *)
LEMMA CalmIs ==
  ASSUME NEW s \in States
  PROVE  Calmed(s, [s EXCEPT !.abort = FALSE])
<1> DEFINE r == [s EXCEPT !.abort = FALSE]
<1>1. r \in States
  BY Update
<1>2. /\ ~r.abort /\ r.running = s.running /\ r.at = s.at /\ r.pmts = s.pmts
      /\ r.scrambled = s.scrambled /\ r.pmt = s.pmt /\ r.error = s.error /\ r.end = s.end
      /\ r.flags = s.flags /\ r.toScan = s.toScan /\ r.scanned = s.scanned
  BY DEF States
<1>3. /\ r.current = s.current /\ r.locked = s.locked /\ r.ready = s.ready
      /\ r.valid = s.valid /\ r.table = s.table /\ r.chid = s.chid
      /\ r.services = s.services /\ r.known = s.known /\ r.fe = s.fe
  BY DEF States
<1> HIDE DEF r
<1> QED
  BY <1>1, <1>2, <1>3 DEF Calmed, r

(* What channelDone does before its last part.                             *)
Digested(s) ==
  IF Digest(s).abort THEN Erase([Digest(s) EXCEPT !.abort = FALSE]) ELSE Digest(s)

(* channelDone goes on to the next transponder or leaves the state to wait *)
(* in.                                                                     *)
LEMMA ChannelDoneIs ==
  ASSUME NEW s
  PROVE  ChannelDone(s) = IF ~Digested(s).running /\ Needed(Digested(s)) \subseteq Digested(s).ready
                          THEN Complete(Digested(s)) ELSE {Digested(s)}
BY Zenon DEF ChannelDone, Digested

(* channelDone leaves a state at rest.                                     *)
LEMMA ChannelDoneWalks ==
  ASSUME NEW s, Steady(s)
  PROVE  Steady(Digested(s)) /\ \A r \in ChannelDone(s) : Rested(r)
<1> DEFINE d == Digest(s)
           c == [d EXCEPT !.abort = FALSE]
<1>1. Sound(d)
  BY DigestWalks DEF Steady
<1> HIDE DEF d
<1>2. CASE d.abort
  <2>1. Calmed(d, c)
    BY <1>1, CalmIs DEF Sound
  <2>2. Digested(s) = Erase(c)
    BY <1>2 DEF Digested, d
  <2> HIDE DEF c
  <2>4. Spaced(c)
    BY <1>1, <2>1, SameLists DEF Calmed, Sound
  <2>3. Steady(c) /\ c.running
    BY <1>1, <1>2, <2>1, <2>4 DEF Calmed, Steady, Sound
  <2> QED
    BY <2>2, <2>3, EraseWalks, ChannelDoneIs, CompleteWalks, SteadyRests
<1>3. CASE ~d.abort
  <2>1. Digested(s) = d /\ Steady(d)
    BY <1>1, <1>3 DEF Digested, d, Steady
  <2> QED
    BY <2>1, ChannelDoneIs, CompleteWalks, SteadyRests
<1> QED
  BY <1>2, <1>3

(* The end of a walk, too.                                                 *)
LEMMA WalkedWalks ==
  ASSUME NEW s, Steady(s), NEW r \in Walked(s)
  PROVE  Rested(r)
BY ChannelDoneWalks, SteadyRests DEF Walked

(* The first program of a PAT.                                             *)
Begun(s) == Read([s EXCEPT !.at = After(s, -1), !.running = TRUE])

(* The walk begins with the first program.                                 *)
LEMMA BegunIs ==
  ASSUME NEW s, Steady(s), ~s.running
  PROVE  /\ Begin(s) = Walked(Begun(s)) /\ Steady(Begun(s))
         /\ Kept(s, Begun(s)) /\ Onward(s, -1, Begun(s))
         /\ Begun(s).pmts = s.pmts /\ Begun(s).scrambled = s.scrambled
<1> DEFINE a == After(s, -1)
           t == [s EXCEPT !.at = a, !.running = TRUE]
           v == Read(t)
<1>0. Begin(s) = Walked(Begun(s))
  BY Zenon DEF Begin, Begun
<1>1. s \in States /\ ~s.abort /\ s.pmts \subseteq Program
  BY DEF Steady, Sound, States
<1>2. a = NoProgram \/ a \in s.pmts
  BY <1>1, AfterIs
<1>3. Begun(s) = v
  BY DEF Begun
<1> HIDE DEF a
<1>4. t \in States
  BY <1>1, <1>2, Update
<1>5. /\ t.running /\ ~t.abort /\ t.pmts = s.pmts /\ t.scrambled = s.scrambled /\ t.at = a
      /\ t.pmt = s.pmt /\ t.error = s.error /\ t.end = s.end
  BY <1>1 DEF States
<1>6. t \in States => Kept(s, t)
  BY <1>1 DEF Kept, States
<1> HIDE DEF t
<1>7. Onward(s, -1, v)
  BY <1>1, <1>4, <1>5, OnwardIs DEF a
<1>8. Kept(t, v) /\ v.pmts = t.pmts /\ v.scrambled = t.scrambled
  BY <1>4, <1>5, ReadIs
<1> HIDE DEF v
<1>9. Kept(s, v)
  BY <1>4, <1>6, <1>8 DEF Kept
<1>10. Spaced(v)
  BY <1>9, SameLists DEF Kept, Steady, Sound
<1>11. Steady(v)
  BY <1>1, <1>5, <1>7, <1>8, <1>9, <1>10 DEF Steady, Sound, Kept, Onward
<1> QED
  BY <1>0, <1>3, <1>5, <1>7, <1>8, <1>9, <1>11

(* The PMTs of a PAT that came leave a state at rest.                      *)
LEMMA BeginWalks ==
  ASSUME NEW s, Steady(s), NEW r \in Begin(s)
  PROVE  Rested(r)
<1>1. s \in States /\ ~s.abort
  BY DEF Steady, Sound
<1>2. CASE s.running
  <2> DEFINE a == After(s, s.at)
             t == [s EXCEPT !.at = a]
  <2>1. s.at \in s.pmts /\ s.pmts \subseteq Program
    BY <1>1, <1>2 DEF Steady, Sound, States
  <2>2. s.at \in Int
    BY <1>1, <2>1, InWalk
  <2>3. a = NoProgram \/ a \in s.pmts
    BY <1>1, <2>2, AfterIs
  <2>4. r \in Walked(Read(t))
    BY <1>2 DEF Begin
  <2> HIDE DEF a
  <2>5. t \in States
    BY <1>1, <2>1, <2>3, Update
  <2>6. t.running /\ ~t.abort /\ t.pmts = s.pmts /\ t.at = a
    BY <1>1, <1>2 DEF States
  <2>8. t.scanned = s.scanned /\ t.current = s.current /\ t.toScan = s.toScan
    BY <1>1 DEF States
  <2> HIDE DEF t
  <2>9. Spaced(Read(t))
    BY <2>5, <2>6, <2>8, ReadIs, SameLists DEF Steady, Sound, Kept
  <2>7. Steady(Read(t))
    BY <2>3, <2>5, <2>6, <2>9, ReadIs DEF Steady, Sound, Kept
  <2> QED
    BY <2>4, <2>7, WalkedWalks
<1>3. CASE ~s.running
  BY <1>3, BegunIs, WalkedWalks
<1> QED
  BY <1>2, <1>3

(* A PMT that came.                                                        *)
Advanced(s) ==
  Read([s EXCEPT !.scrambled = IF s.at \in Here(s).clear THEN @ \ {s.at} ELSE @ \cup {s.at},
                 !.at = After(s, s.at)])

(* A PMT that came marks its program and goes on.                          *)
LEMMA AdvanceIs ==
  ASSUME NEW s, Sound(s), s.running
  PROVE  /\ Advance(s) = Walked(Advanced(s))
         /\ Kept(s, Advanced(s)) /\ Onward(s, s.at, Advanced(s)) /\ s.at \in s.pmts /\ s.at \in Int
         /\ Advanced(s).pmts = s.pmts
         /\ Advanced(s).scrambled = IF s.at \in Here(s).clear THEN s.scrambled \ {s.at}
                                    ELSE s.scrambled \cup {s.at}
<1> DEFINE a == After(s, s.at)
           sc == IF s.at \in Here(s).clear THEN s.scrambled \ {s.at} ELSE s.scrambled \cup {s.at}
           t == [s EXCEPT !.scrambled = sc, !.at = a]
<1>0. Advance(s) = Walked(Advanced(s))
  BY Zenon DEF Advance, Advanced
<1>1. s \in States /\ s.at \in s.pmts /\ s.pmts \subseteq Program /\ s.at \in Int
  BY EraseIs DEF Sound, States
<1>2. a \in Program \cup {NoProgram}
  BY <1>1, AfterIs
<1>3. Advanced(s) = Read(t)
  BY DEF Advanced
<1>4. sc \in SUBSET Program
  BY <1>1 DEF States
<1> HIDE DEF a, sc
<1>5. t \in States
  BY <1>1, <1>2, <1>4, Update
<1>6. /\ t.running /\ t.at = a /\ t.pmt = s.pmt /\ t.error = s.error /\ t.end = s.end
      /\ t.pmts = s.pmts /\ t.scrambled = sc
  BY <1>1 DEF States
<1>7. t \in States => Kept(s, t)
  BY <1>1 DEF Kept, States
<1> HIDE DEF t
<1>8. Onward(s, s.at, Read(t))
  BY <1>1, <1>5, <1>6, OnwardIs DEF a
<1>9. Kept(t, Read(t)) /\ Read(t).pmts = t.pmts /\ Read(t).scrambled = t.scrambled
  BY <1>5, <1>6, ReadIs
<1>10. Kept(s, Read(t))
  BY <1>5, <1>7, <1>9 DEF Kept
<1> QED
  BY <1>0, <1>1, <1>3, <1>6, <1>8, <1>9, <1>10 DEF sc

(* The iterator is valid after that.                                       *)
LEMMA AdvancedSteady ==
  ASSUME NEW s, Steady(s), s.running
  PROVE  Steady(Advanced(s))
<1> DEFINE v == Advanced(s)
<1>1. Kept(s, v) /\ Onward(s, s.at, v) /\ v.pmts = s.pmts
  BY AdvanceIs DEF Steady
<1> HIDE DEF v
<1>2. Spaced(v)
  BY <1>1, SameLists DEF Kept, Steady, Sound
<1>3. Steady(v)
  BY <1>1, <1>2 DEF Steady, Sound, Kept, Onward
<1> QED
  BY <1>3 DEF v

(* A PMT that came leaves a state at rest.                                 *)
LEMMA AdvanceWalks ==
  ASSUME NEW s, Steady(s), s.running, NEW r \in Advance(s)
  PROVE  Rested(r)
<1>1. r \in Walked(Advanced(s))
  BY AdvanceIs DEF Steady
<1>2. Steady(Advanced(s))
  BY AdvancedSteady
<1> QED
  BY <1>1, <1>2, WalkedWalks

(* What has nothing to do with the walk, nor with the lists.               *)
Aside(s, r) ==
  /\ r \in States /\ r.running = s.running /\ r.at = s.at /\ r.pmts = s.pmts
  /\ r.scrambled = s.scrambled /\ r.pmt = s.pmt /\ r.error = s.error /\ r.abort = s.abort
  /\ r.flags = s.flags /\ r.toScan = s.toScan /\ r.scanned = s.scanned /\ r.current = s.current
  /\ r.chid = s.chid /\ r.services = s.services /\ r.known = s.known /\ r.end = s.end

(* Such a step keeps both.                                                 *)
LEMMA AsideWalks ==
  ASSUME NEW s, NEW r, Aside(s, r)
  PROVE  (Steady(s) => Steady(r)) /\ (Rested(s) => Rested(r))
BY DEF Aside, Steady, Sound, Rested, Spaced, Once, Ahead, Fresh

(* A timer of a table has nothing to do with the walk.                     *)
LEMMA TableIs ==
  ASSUME NEW s \in States, NEW x \in Table, NEW t \in {"off", "reading", "late"}
  PROVE  /\ Aside(s, [s EXCEPT !.table[x] = t])
         /\ [s EXCEPT !.table[x] = t].table = [s.table EXCEPT ![x] = t]
<1> DEFINE tb == [s.table EXCEPT ![x] = t]
           r == [s EXCEPT !.table = tb]
<1>1. tb \in [Table -> {"off", "reading", "late"}]
  BY DEF States
<1>2. [s EXCEPT !.table[x] = t] = r
  OBVIOUS
<1> HIDE DEF tb
<1>3. r \in States
  BY <1>1, Update
<1>4. /\ r.running = s.running /\ r.at = s.at /\ r.pmts = s.pmts
      /\ r.scrambled = s.scrambled /\ r.pmt = s.pmt /\ r.error = s.error /\ r.abort = s.abort
      /\ r.flags = s.flags /\ r.toScan = s.toScan /\ r.scanned = s.scanned
  BY DEF States
<1>5. /\ r.current = s.current /\ r.chid = s.chid /\ r.services = s.services
      /\ r.known = s.known /\ r.end = s.end /\ r.table = tb
  BY DEF States
<1> HIDE DEF r
<1> QED
  BY <1>2, <1>3, <1>4, <1>5 DEF Aside, tb

(* startFilter.                                                            *)
Off(s) == [s EXCEPT !.table["SDT"] = "off"]
Mapped(s) == [Off(s) EXCEPT !.pmts = @ \cup Here(s).pat, !.pmt = TRUE, !.error = FALSE]
Asked(s) == [x \in Table |-> IF x \in Needed(s) \ {"SDT"} THEN "reading" ELSE "off"]

(* startFilter asks for the first tables, or for the SDT and the PMTs.     *)
LEMMA StartFilterIs ==
  ASSUME NEW s, NEW r \in StartFilter(s)
  PROVE  \/ /\ "PAT" \in s.ready /\ "PAT" \in s.valid
            /\ \E w \in Begin(Mapped(s)) : r = [w EXCEPT !.table["SDT"] = "reading"]
         \/ /\ "PAT" \in s.ready /\ "PAT" \notin s.valid
            /\ r = [Off(s) EXCEPT !.table["SDT"] = "reading"]
         \/ "PAT" \notin s.ready /\ r = [Off(s) EXCEPT !.table = Asked(s)]
<1> DEFINE walk == IF "PAT" \in s.valid THEN Begin(Mapped(s)) ELSE {Off(s)}
<1>1. CASE "PAT" \in s.ready
  <2>1. StartFilter(s) = {[w EXCEPT !.table["SDT"] = "reading"] : w \in walk}
    BY <1>1, Zenon DEF StartFilter, Mapped, Off
  <2> HIDE DEF walk
  <2>2. PICK w \in walk : r = [w EXCEPT !.table["SDT"] = "reading"]
    BY <2>1, Zenon
  <2> QED
    BY <1>1, <2>2, Zenon DEF walk
<1>2. CASE "PAT" \notin s.ready
  <2>1. StartFilter(s) = {[Off(s) EXCEPT !.table = Asked(s)]}
    BY <1>2, Zenon DEF StartFilter, Off, Asked
  <2> QED
    BY <1>2, <2>1, Zenon
<1> QED
  BY <1>1, <1>2, Zenon

(* Starting and stopping tables has nothing to do with the walk.           *)
LEMMA OffIs ==
  ASSUME NEW s \in States
  PROVE  /\ Aside(s, Off(s)) /\ Aside(s, [Off(s) EXCEPT !.table = Asked(s)])
         /\ [Off(s) EXCEPT !.table = Asked(s)].table = Asked(s)
         /\ Aside(s, [Off(s) EXCEPT !.table["SDT"] = "reading"])
<1>1. Aside(s, Off(s))
  BY TableIs DEF Off, Table
<1> DEFINE o == Off(s)  tb == Asked(s)
           r == [o EXCEPT !.table = tb]
<1>2. o \in States
  BY <1>1 DEF Aside
<1> HIDE DEF o
<1>3. tb \in [Table -> {"off", "reading", "late"}]
  BY DEF Asked
<1> HIDE DEF tb
<1>4. r \in States
  BY <1>2, <1>3, Update
<1>5. /\ r.running = o.running /\ r.at = o.at /\ r.pmts = o.pmts
      /\ r.scrambled = o.scrambled /\ r.pmt = o.pmt /\ r.error = o.error /\ r.abort = o.abort
      /\ r.flags = o.flags /\ r.toScan = o.toScan /\ r.scanned = o.scanned
  BY <1>2 DEF States
<1>6. /\ r.current = o.current /\ r.chid = o.chid /\ r.services = o.services
      /\ r.known = o.known /\ r.end = o.end /\ r.table = tb
  BY <1>2 DEF States
<1>7. Aside(o, [o EXCEPT !.table["SDT"] = "reading"])
  BY <1>2, TableIs DEF Table
<1> HIDE DEF r
<1> QED
  BY <1>1, <1>4, <1>5, <1>6, <1>7 DEF Aside, r, o, tb

(* The PAT adds its programs to the list.                                  *)
LEMMA MappedIs ==
  ASSUME NEW s \in States
  PROVE  LET m == Mapped(s) IN
         /\ m \in States /\ m.pmts = s.pmts \cup Here(s).pat /\ m.pmt /\ ~m.error
         /\ m.running = s.running /\ m.at = s.at /\ m.scrambled = s.scrambled /\ m.abort = s.abort
         /\ m.flags = s.flags /\ m.toScan = s.toScan /\ m.scanned = s.scanned
         /\ m.current = s.current /\ m.chid = s.chid /\ m.services = s.services
         /\ m.known = s.known /\ m.end = s.end
         /\ m.fe = s.fe /\ m.locked = s.locked /\ m.ready = s.ready /\ m.valid = s.valid
         /\ m.table = [s.table EXCEPT !["SDT"] = "off"]
<1> DEFINE o == Off(s)
           all == o.pmts \cup Here(s).pat
           m == [o EXCEPT !.pmts = all, !.pmt = TRUE, !.error = FALSE]
<1>0. Mapped(s) = m
  BY Zenon DEF Mapped
<1>1. Aside(s, o)
  BY OffIs
<1>2. o.fe = s.fe /\ o.locked = s.locked /\ o.ready = s.ready /\ o.valid = s.valid
      /\ o.table = [s.table EXCEPT !["SDT"] = "off"]
  BY DEF States, Off
<1> HIDE DEF o
<1>3. o \in States /\ o.pmts = s.pmts /\ Here(s).pat \subseteq Program /\ s.pmts \subseteq Program
  BY <1>1, HereIs DEF Aside, States
<1>4. all \in SUBSET Program /\ all = s.pmts \cup Here(s).pat
  BY <1>3
<1> HIDE DEF all
<1>5. m \in States
  BY <1>3, <1>4, Update
<1>6. /\ m.pmts = all /\ m.pmt /\ ~m.error
      /\ m.running = o.running /\ m.at = o.at /\ m.scrambled = o.scrambled /\ m.abort = o.abort
      /\ m.flags = o.flags /\ m.toScan = o.toScan /\ m.scanned = o.scanned
  BY <1>3 DEF States
<1>7. /\ m.current = o.current /\ m.chid = o.chid /\ m.services = o.services
      /\ m.known = o.known /\ m.end = o.end
      /\ m.fe = o.fe /\ m.locked = o.locked /\ m.ready = o.ready /\ m.valid = o.valid
      /\ m.table = o.table
  BY <1>3 DEF States
<1> HIDE DEF m
<1> QED
  BY <1>0, <1>1, <1>2, <1>4, <1>5, <1>6, <1>7 DEF Aside

(* startFilter leaves a state at rest.                                     *)
LEMMA StartFilterWalks ==
  ASSUME NEW s, Steady(s), NEW r \in StartFilter(s)
  PROVE  Rested(r)
<1>0. s \in States
  BY DEF Steady, Sound
<1>1. ASSUME NEW w \in Begin(Mapped(s)), r = [w EXCEPT !.table["SDT"] = "reading"] PROVE Rested(r)
  <2> DEFINE m == Mapped(s)
  <2>1. /\ m \in States /\ s.pmts \subseteq m.pmts /\ m.running = s.running /\ m.at = s.at
        /\ m.abort = s.abort /\ m.toScan = s.toScan /\ m.scanned = s.scanned /\ m.current = s.current
    BY <1>0, MappedIs
  <2> HIDE DEF m
  <2>2. Spaced(m)
    BY <2>1, SameLists DEF Steady, Sound
  <2>3. Steady(m)
    BY <2>1, <2>2 DEF Steady, Sound
  <2>4. Rested(w)
    BY <1>1, <2>3, BeginWalks DEF m
  <2>5. Aside(w, r)
    BY <1>1, <2>4, TableIs DEF Rested, Table
  <2> QED
    BY <2>4, <2>5, AsideWalks
<1>2. CASE r = [Off(s) EXCEPT !.table["SDT"] = "reading"]
  BY <1>0, <1>2, OffIs, AsideWalks, SteadyRests
<1>3. CASE r = [Off(s) EXCEPT !.table = Asked(s)]
  BY <1>0, <1>3, OffIs, AsideWalks, SteadyRests
<1> QED
  BY <1>1, <1>2, <1>3, StartFilterIs, Zenon

-----------------------------------------------------------------------------
(* The events.                                                             *)
Tables(s, r) == r.ready = s.ready /\ r.valid = s.valid /\ r.table = s.table

(* The state of the channel has nothing to do with the walk.               *)
LEMMA ChannelIs ==
  ASSUME NEW s \in States, NEW x \in {"tuning", "ok", "unavailable"},
         NEW r, r = [s EXCEPT !.fe = x]
  PROVE  Aside(s, r) /\ Tables(s, r) /\ r.fe = x /\ r.locked = s.locked
<1>1. r \in States
  BY Update
<1>2. Tables(s, r) /\ r.fe = x /\ r.locked = s.locked
  BY DEF Tables, States
<1>3. Aside(s, r)
  BY <1>1 DEF Aside, States
<1> QED
  BY <1>2, <1>3

(* Nor has a lock.                                                         *)
LEMMA LockIs ==
  ASSUME NEW s \in States, NEW r, r = [s EXCEPT !.fe = "ok", !.locked = TRUE]
  PROVE  Aside(s, r) /\ Tables(s, r) /\ r.fe = "ok" /\ r.locked
<1>1. r \in States
  BY Update
<1>2. Tables(s, r) /\ r.fe = "ok" /\ r.locked
  BY DEF Tables, States
<1>3. Aside(s, r)
  BY <1>1 DEF Aside, States
<1> QED
  BY <1>2, <1>3

(* Nor has the end of the time for tuning.                                 *)
LEMMA TimeoutIs ==
  ASSUME NEW s \in States, NEW r, r = [s EXCEPT !.window = FALSE]
  PROVE  Aside(s, r) /\ Tables(s, r) /\ r.fe = s.fe /\ r.locked = s.locked
<1>1. r \in States
  BY Update
<1> QED
  BY <1>1 DEF Aside, Tables, States

(* Nor has what could not be tuned.                                        *)
LEMMA UnavailableIs ==
  ASSUME NEW s \in States, NEW u \in SUBSET Param,
         NEW r, r = [s EXCEPT !.window = FALSE, !.unavailable = u]
  PROVE  Aside(s, r)
<1>1. r \in States
  BY Update
<1> QED
  BY <1>1 DEF Aside, States

(* The ...ready slots: what is noted, before anything is done.             *)
Noted(s, x, ok, t) ==
  [s EXCEPT !.table[x] = t, !.ready = @ \cup {x}, !.valid = IF ok THEN @ \cup {x} ELSE @]

AsNoted(s, x, ok, t, r) ==
  /\ Aside(s, r) /\ r.fe = s.fe /\ r.locked = s.locked
  /\ r.ready = s.ready \cup {x}
  /\ r.valid = (IF ok THEN s.valid \cup {x} ELSE s.valid)
  /\ r.table = [s.table EXCEPT ![x] = t]

(* Noting a table changes its timer and its bits.                          *)
LEMMA NotedIs ==
  ASSUME NEW s \in States, NEW x \in Table, NEW ok \in BOOLEAN, NEW t \in {"off", "late"}
  PROVE  AsNoted(s, x, ok, t, Noted(s, x, ok, t))
<1> DEFINE o == [s EXCEPT !.table[x] = t]
           rd == o.ready \cup {x}
           v == IF ok THEN o.valid \cup {x} ELSE o.valid
           r == [o EXCEPT !.ready = rd, !.valid = v]
<1>1. Noted(s, x, ok, t) = r
  BY Zenon DEF Noted
<1>2. Aside(s, o) /\ o.table = [s.table EXCEPT ![x] = t]
  BY TableIs
<1>3. o.ready = s.ready /\ o.valid = s.valid /\ o.fe = s.fe /\ o.locked = s.locked
  BY DEF States
<1>4. o \in States
  BY <1>2 DEF Aside
<1> HIDE DEF o
<1>5. rd \in SUBSET Table /\ v \in SUBSET Table
  BY <1>4 DEF States
<1> HIDE DEF rd, v
<1>6. r \in States
  BY <1>4, <1>5, Update
<1>7. /\ r.running = o.running /\ r.at = o.at /\ r.pmts = o.pmts
      /\ r.scrambled = o.scrambled /\ r.pmt = o.pmt /\ r.error = o.error /\ r.abort = o.abort
      /\ r.flags = o.flags /\ r.toScan = o.toScan /\ r.scanned = o.scanned
      /\ r.current = o.current /\ r.chid = o.chid /\ r.services = o.services
  BY <1>4 DEF States
<1>8. /\ r.known = o.known /\ r.end = o.end /\ r.fe = o.fe /\ r.locked = o.locked
      /\ r.ready = rd /\ r.valid = v /\ r.table = o.table
  BY <1>4 DEF States
<1> HIDE DEF r
<1> QED
  BY <1>1, <1>2, <1>3, <1>6, <1>7, <1>8 DEF AsNoted, Aside, rd, v

(* A PMT that did not come in time.                                        *)
LEMMA FailedIs ==
  ASSUME NEW s, Sound(s)
  PROVE  LET r == [s EXCEPT !.error = TRUE] IN
         /\ Kept(s, r) /\ Sound(r) /\ r.running = s.running /\ r.at = s.at /\ r.pmts = s.pmts
         /\ r.scrambled = s.scrambled /\ r.pmt = s.pmt /\ r.end = s.end /\ r.error
<1> DEFINE r == [s EXCEPT !.error = TRUE]
<1>1. s \in States /\ r \in States
  BY Update DEF Sound
<1>2. /\ r.running = s.running /\ r.at = s.at /\ r.pmts = s.pmts
      /\ r.scrambled = s.scrambled /\ r.pmt = s.pmt /\ r.end = s.end /\ r.error
  BY <1>1 DEF States
<1>3. Kept(s, r)
  BY <1>1 DEF Kept, States
<1> HIDE DEF r
<1>4. Spaced(r)
  BY <1>3, SameLists DEF Kept, Sound
<1>5. Sound(r)
  BY <1>1, <1>2, <1>3, <1>4 DEF Sound, Kept
<1> QED
  BY <1>2, <1>3, <1>5 DEF r

(* Every state the scan rests in is a sound one, whatever fails.           *)
RestInv == Rested(scan) /\ heard \subseteq Services /\ missed \subseteq Ids

(* A scan starts with the types right.                                     *)
LEMMA StartedIs ==
  ASSUME NEW list \in Initial, NEW g \in FlagSets
  PROVE  Started(list, g) \in States
<1> DEFINE s == Started(list, g)
           d == Distinct(list)
           p == list[1]
           tb == [x \in Table |-> "off"]
<1>1. list \in Seq(Param) /\ list # <<>> /\ g \in SUBSET {"network", "bat", "clear", "onlyfree"}
  BY ScanAssumption
<1>2. p \in Param
  <2>1. Len(list) \in Nat /\ Len(list) # 0
    BY <1>1
  <2> QED
    BY <1>1, <2>1
<1>3. d \in Seq(Param) /\ <<>> \in Seq(Param)
  BY <1>1, DistinctIs
<1>4. tb \in [Table -> {"off", "reading", "late"}]
  OBVIOUS
<1>5. s = [flags |-> g, toScan |-> d, scanned |-> <<>>, unavailable |-> {},
   current |-> p, locked |-> FALSE, ready |-> {}, valid |-> {},
   table |-> tb, pmts |-> {}, scrambled |-> {}, at |-> NoProgram,
   running |-> FALSE, abort |-> FALSE, pmt |-> FALSE, error |-> FALSE,
   chid |-> FALSE, services |-> {}, known |-> {}, fe |-> "tuning", window |-> TRUE, end |-> "no"]
  BY Zenon DEF Started
<1> HIDE DEF d, p, tb, s
<1> QED
  BY <1>1, <1>2, <1>3, <1>4, <1>5 DEF States, s

(* The invariant holds at the start.                                       *)
LEMMA InitRests == Init => RestInv
<1> SUFFICES ASSUME Init PROVE RestInv
  OBVIOUS
<1>1. PICK list \in Initial, g \in FlagSets : scan \in NextChannel(Started(list, g))
  BY DEF Init
<1> DEFINE s == Started(list, g)
<1>2. s \in States
  BY StartedIs
<1>3. s.scanned = <<>> /\ ~s.running /\ ~s.abort
  BY DEF Started
<1> HIDE DEF s
<1>4. Moved(s, scan)
  BY <1>1, <1>2, NextChannelIs DEF s
<1>5. Once(s) /\ Ahead(s)
  BY <1>3 DEF Once, Ahead, Range
<1>6. Rested(scan)
  BY <1>3, <1>4, <1>5, MovedApart DEF Rested, Moved
<1> QED
  BY <1>6 DEF RestInv, Init

(* At rest, before the end, everything holds that a handler needs.         *)
LEMMA RestsSteady ==
  ASSUME NEW s, Rested(s), s.end = "no"
  PROVE  Steady(s) /\ s \in States
BY DEF Rested, Steady, Sound, Spaced

(* A table that came or did not leaves a state at rest.                    *)
LEMMA ReadyRests ==
  ASSUME Rested(scan), scan.end = "no", NEW x \in Table, NEW ok \in BOOLEAN,
         NEW t \in {"off", "late"}, Ready(x, ok, t)
  PROVE  Rested(scan')
<1> DEFINE s == Noted(scan, x, ok, t)
<1>1. scan' \in IF x = "PAT" THEN StartFilter(s) ELSE ChannelDone(s)
  BY Zenon DEF Ready, Noted
<1>2. Steady(scan) /\ scan \in States
  BY RestsSteady
<1>3. AsNoted(scan, x, ok, t, s)
  BY <1>2, NotedIs
<1> HIDE DEF s
<1>4. Steady(s)
  BY <1>2, <1>3, AsideWalks DEF AsNoted
<1> QED
  BY <1>1, <1>4, StartFilterWalks, ChannelDoneWalks

(* Every step keeps the invariant.                                         *)
LEMMA NextRests == RestInv /\ [Next]_vars => RestInv'
<1> SUFFICES ASSUME RestInv, [Next]_vars PROVE RestInv'
  OBVIOUS
<1>1. Rested(scan) /\ heard \subseteq Services /\ missed \subseteq Ids
  BY DEF RestInv
<1>2. CASE UNCHANGED vars
  <2>1. scan' = scan /\ heard' = heard /\ missed' = missed
    BY <1>2 DEF vars
  <2> QED
    BY <1>1, <2>1 DEF RestInv
<1> SUFFICES ASSUME Next PROVE RestInv'
  BY <1>2
<1>3. scan.end = "no" /\ Steady(scan) /\ scan \in States
  BY <1>1, RestsSteady DEF Next
<1>4. Here(scan).id \in Ids
  BY <1>3, HereIs
<1>5. CASE Lock
  <2>1. CASE scan.locked
    <3>1. scan' = [scan EXCEPT !.fe = "ok"]
      BY <1>5, <2>1 DEF Lock
    <3>2. Aside(scan, scan')
      BY <1>3, <3>1, ChannelIs
    <3> QED
      BY <1>1, <1>5, <3>2, AsideWalks DEF RestInv, Lock
  <2>2. CASE ~scan.locked
    <3> DEFINE s == [scan EXCEPT !.fe = "ok", !.locked = TRUE]
    <3>1. scan' \in StartFilter(s)
      BY <1>5, <2>2, Zenon DEF Lock
    <3>4. s = [scan EXCEPT !.fe = "ok", !.locked = TRUE]
      OBVIOUS
    <3> HIDE DEF s
    <3>2. Aside(scan, s)
      BY <1>3, <3>4, LockIs, Zenon
    <3>3. Rested(scan')
      BY <1>3, <3>1, <3>2, AsideWalks, StartFilterWalks
    <3> QED
      BY <1>1, <1>5, <3>3 DEF RestInv, Lock
  <2> QED
    BY <2>1, <2>2
<1>6. CASE LoseLock
  <2>1. PICK x \in {"tuning", "unavailable"} : scan' = [scan EXCEPT !.fe = x]
    BY <1>6 DEF LoseLock
  <2>2. Aside(scan, scan')
    BY <1>3, <2>1, ChannelIs
  <2> QED
    BY <1>1, <1>6, <2>2, AsideWalks DEF RestInv, LoseLock
<1>7. CASE TuneTimeout
  <2> DEFINE s == [scan EXCEPT !.window = FALSE]
             u == scan.unavailable \cup {scan.current}
             t == [scan EXCEPT !.window = FALSE, !.unavailable = u]
  <2>0. s.unavailable = scan.unavailable
    BY <1>3 DEF States
  <2>1. scan' \in NextChannel(t) \/ scan' = s
    BY <1>7, <2>0 DEF TuneTimeout
  <2>2. u \in SUBSET Param
    BY <1>3 DEF States
  <2> HIDE DEF u
  <2>6. /\ s = [scan EXCEPT !.window = FALSE]
        /\ t = [scan EXCEPT !.window = FALSE, !.unavailable = u]
    OBVIOUS
  <2> HIDE DEF s, t
  <2>3. Aside(scan, s) /\ Aside(scan, t)
    BY <1>3, <2>2, <2>6, TimeoutIs, UnavailableIs, Zenon
  <2>4. CASE scan' \in NextChannel(t)
    <3>1. Steady(t) /\ t \in States
      BY <1>3, <2>3, AsideWalks DEF Aside
    <3>2. Moved(t, scan')
      BY <2>4, <3>1, NextChannelIs
    <3>3. scan' \in States /\ ~scan'.abort /\ (scan'.running => scan'.at \in scan'.pmts)
      BY <3>1, <3>2 DEF Moved, Steady, Sound
    <3>4. FarApart => Once(scan') /\ Ahead(scan') /\ (scan'.end = "finish" \/ Fresh(scan'))
      BY <3>1, <3>2, MovedApart DEF Steady, Sound, Spaced
    <3> QED
      BY <1>1, <1>7, <3>3, <3>4 DEF RestInv, TuneTimeout, Rested
  <2>5. CASE scan' = s
    BY <1>1, <1>7, <2>3, <2>5, AsideWalks DEF RestInv, TuneTimeout
  <2> QED
    BY <2>1, <2>4, <2>5
<1>8. ASSUME NEW x \in Table, TableRead(x) \/ TableGivenUp(x) \/ TableTimeout(x) PROVE RestInv'
  <2>1. \E ok \in BOOLEAN, t \in {"off", "late"} : Ready(x, ok, t)
    BY <1>8, Zenon DEF TableRead, TableGivenUp, TableTimeout
  <2>2. Rested(scan')
    BY <1>1, <1>3, <2>1, ReadyRests
  <2>3. UNCHANGED <<heard, missed>>
    BY <1>8, Zenon DEF TableRead, TableGivenUp, TableTimeout
  <2> QED
    BY <1>1, <2>2, <2>3 DEF RestInv
<1>9. CASE PMTRead
  <2>1. scan.running /\ scan' \in IF scan.error THEN Walked(Erase(scan)) ELSE Advance(scan)
    BY <1>9, Zenon DEF PMTRead, Reading
  <2>2. Rested(scan')
    BY <1>3, <2>1, EraseWalks, WalkedWalks, AdvanceWalks
  <2>3. scan.at \in Program
    BY <1>3, <2>1, InWalk DEF Steady, Sound
  <2>4. heard' \subseteq Services /\ missed' = missed
    BY <1>1, <1>4, <1>9, <2>3 DEF PMTRead, Services
  <2> QED
    BY <1>1, <2>2, <2>4 DEF RestInv
<1>10. CASE PMTTimeout
  <2> DEFINE f == [scan EXCEPT !.error = TRUE]
  <2>1. scan.running /\ scan' \in Walked(Erase(f))
    BY <1>10, Zenon DEF PMTTimeout, Reading
  <2>2. Sound(f) /\ f.running /\ ~f.abort
    BY <1>3, <2>1, FailedIs DEF Steady, Kept
  <2> HIDE DEF f
  <2>3. Rested(scan')
    BY <2>1, <2>2, EraseWalks, WalkedWalks DEF Steady
  <2> QED
    BY <1>1, <1>4, <1>10, <2>3 DEF RestInv, PMTTimeout
<1> QED
  BY <1>5, <1>6, <1>7, <1>8, <1>9, <1>10 DEF Next, Timer

(* The invariant holds in every reachable state.                           *)
LEMMA Rests == Spec => []RestInv
<1>1. Init => RestInv
  BY InitRests
<1>2. RestInv /\ [Next]_vars => RestInv'
  BY NextRests
<1> QED
  BY <1>1, <1>2, PTL DEF Spec

(* The types hold, whatever fails.                                         *)
THEOREM TypeCorrect == Spec => []TypeOK
<1>1. RestInv => TypeOK
  BY DEF RestInv, Rested, TypeOK
<1> QED
  BY <1>1, Rests, PTL

(* The iterator into the list of programs is valid while the PMTs are      *)
(* read, in whatever order the PAT fills the list and the SDT erases from  *)
(* it: also where a lock is lost and regained, and the walk was not reset. *)
THEOREM WalkIsValid == Spec => []IteratorValid
<1>1. RestInv => IteratorValid
  BY DEF RestInv, Rested, IteratorValid
<1> QED
  BY <1>1, Rests, PTL

(* addChannelToScan: no transponder is scanned twice, whatever the NITs    *)
(* announce and whichever lists are replaced, if transponders that are the *)
(* same as a third one are the same.                                       *)
THEOREM NoneTwice ==
  ASSUME FarApart
  PROVE  Spec => []ScannedOnce
<1>1. RestInv => ScannedOnce
  BY DEF RestInv, Rested, ScannedOnce, Once
<1> QED
  BY <1>1, Rests, PTL

-----------------------------------------------------------------------------
(* Where no lock is lost before the time for tuning is over, the walk is   *)
(* over whenever a transponder is tuned.                                   *)
Wanted(s) == IF "onlyfree" \in s.flags THEN Carried \cap Clear ELSE Carried

(* A transponder that is being tuned.                                      *)
Untouched(s) ==
  /\ s.end = "no" /\ s.fe = "tuning" /\ ~s.locked /\ ~s.running /\ ~s.pmt /\ ~s.error /\ ~s.chid
  /\ s.pmts = {} /\ s.scrambled = {} /\ s.ready = {} /\ s.valid = {}
  /\ s.table = [x \in Table |-> "off"]

(* Nothing is owed to any transponder: h was heard, and a PMT missed on m. *)
Settled(s, h, m) ==
  /\ s.services \subseteq Wanted(s)
  /\ \A v \in s.services : v[1] \in s.known
  /\ \A v \in h : v \in s.services \/ v[1] \in m

(* A transponder whose tables are read: before the PAT there is no walk;   *)
(* there is an m_PMT for the walk; what is found is wanted, and its        *)
(* transponder will be known; and a program the walk is past was clear and *)
(* is not marked, or is marked, and is still in the list.                  *)
Past(s, p) == p \in s.pmts /\ (s.running => p < s.at)

Phase(s) ==
  /\ s.end = "no" /\ s.locked /\ s.fe # "tuning"
  /\ "PAT" \notin s.ready => /\ ~s.running /\ s.pmts = {}
                             /\ "SDT" \notin s.ready /\ s.table["SDT"] = "off"
  /\ s.table["PAT"] = "reading" => "PAT" \notin s.ready
  /\ "PAT" \in s.valid => s.table["PAT"] = "off"
Paired(s, m) ==
  /\ (s.pmt <=> s.running) /\ (s.error => s.running /\ Here(s).id \in m)
  /\ s.scrambled \subseteq s.pmts /\ s.pmts \subseteq Here(s).pat
Told(s) ==
  /\ s.services \subseteq Wanted(s)
  /\ \A v \in s.services : v[1] \in s.known \/ (s.chid /\ v[1] = Here(s).id)
Accounted(s, h, m) ==
  /\ \A p \in s.pmts : Past(s, p) => p \in s.scrambled \/ p \in Here(s).clear
  /\ \A v \in h : \/ v \in s.services \/ v[1] \in m
                  \/ v[1] = Here(s).id /\ v[2] \notin s.scrambled /\ Past(s, v[2])
Walking(s, h, m) == Phase(s) /\ Paired(s, m) /\ Told(s) /\ Accounted(s, h, m)

(* What is in a PAT or an SDT is carried.                                  *)
LEMMA HereCarries ==
  ASSUME NEW s \in States, NEW p, p \in Here(s).pat \/ p \in Here(s).sdt
  PROVE  /\ <<Here(s).id, p>> \in Carried
         /\ p \in Here(s).clear => <<Here(s).id, p>> \in Clear
<1>1. s.current.f \in DOMAIN Air /\ Here(s) = Air[s.current.f]
  BY HereIs
<1> DEFINE f == s.current.f
<1> HIDE DEF f
<1>2. f \in DOMAIN Air /\ Here(s) = Air[f]
  BY <1>1 DEF f
<1>3. <<Air[f].id, p>> \in {Air[f].id} \X (Air[f].pat \cup Air[f].sdt)
  BY <1>2
<1>4. <<Air[f].id, p>> \in Carried
  BY <1>2, <1>3 DEF Carried
<1>5. p \in Air[f].clear => <<Air[f].id, p>> \in {Air[f].id} \X Air[f].clear
  OBVIOUS
<1>6. p \in Air[f].clear => <<Air[f].id, p>> \in Clear
  BY <1>2, <1>5 DEF Clear
<1> QED
  BY <1>2, <1>4, <1>6

(* The SDT loses no program that was heard.                                *)
LEMMA SDTKeeps ==
  ASSUME NEW s, NEW h, NEW m, Sound(s), Walking(s, h, m), h \subseteq Services,
         "onlyfree" \in s.flags => ~s.running
  PROVE  Walking(ProcessSDT(s), h, m)
<1> DEFINE r == ProcessSDT(s)
           wanted == IF "onlyfree" \in s.flags THEN Listed(s) \cap (s.pmts \ s.scrambled)
                     ELSE Listed(s)
           new == {<<Here(s).id, p>> : p \in wanted}
           gone == Listed(s) \ BeingRead(s)
<1>1. /\ r.chid /\ r.valid = s.valid \ {"SDT"} /\ r.services = s.services \cup new
      /\ r.pmts = s.pmts \ gone /\ r.scrambled = s.scrambled \ gone
      /\ r.running = s.running /\ r.at = s.at /\ r.pmt = s.pmt /\ r.error = s.error
      /\ r.flags = s.flags /\ r.current = s.current /\ r.known = s.known /\ r.end = s.end
      /\ r.fe = s.fe /\ r.locked = s.locked /\ r.ready = s.ready /\ r.table = s.table
  BY SDTIs DEF Sound
<1> HIDE DEF r, new, gone, wanted
<1>2. Here(r) = Here(s) /\ s \in States
  BY <1>1 DEF Here, Sound
<1>3. Phase(r)
  BY <1>1 DEF Walking, Phase
<1>4. Paired(r, m)
  BY <1>1, <1>2 DEF Walking, Paired
<1>5. ASSUME NEW p \in wanted PROVE <<Here(s).id, p>> \in Wanted(s)
  <2>1. p \in Here(s).sdt /\ ("onlyfree" \in s.flags => p \in s.pmts \ s.scrambled)
    BY DEF wanted, Listed
  <2>2. "onlyfree" \in s.flags => p \in Here(s).clear
    BY <2>1 DEF Walking, Accounted, Past
  <2> QED
    BY <1>2, <2>1, <2>2, HereCarries DEF Wanted
<1>6. Told(r)
  <2>1. r.services \subseteq Wanted(r)
    BY <1>1, <1>5 DEF Walking, Told, Wanted, new
  <2>2. ASSUME NEW v \in r.services PROVE v[1] \in r.known \/ (r.chid /\ v[1] = Here(r).id)
    <3>1. v \in new => v[1] = Here(s).id
      BY DEF new
    <3> QED
      BY <1>1, <1>2, <3>1 DEF Walking, Told
  <2> QED
    BY <2>1, <2>2 DEF Told
<1>7. ASSUME NEW p \in r.pmts, Past(r, p) PROVE p \in r.scrambled \/ p \in Here(r).clear
  <2>1. p \in s.pmts /\ Past(s, p) /\ p \notin gone
    BY <1>1, <1>7 DEF Past
  <2> QED
    BY <1>1, <1>2, <2>1 DEF Walking, Accounted
<1>8. ASSUME NEW v \in h
      PROVE  \/ v \in r.services \/ v[1] \in m
             \/ v[1] = Here(r).id /\ v[2] \notin r.scrambled /\ Past(r, v[2])
  <2>1. v = <<v[1], v[2]>>
    BY DEF Services
  <2>2. CASE v \in s.services \/ v[1] \in m
    BY <1>1, <2>2
  <2>3. CASE v[1] = Here(s).id /\ v[2] \notin s.scrambled /\ Past(s, v[2])
    <3>1. CASE v[2] \in gone
      <4>1. v[2] \in wanted
        BY <2>3, <3>1 DEF gone, wanted, Past
      <4>2. v \in new
        BY <2>1, <2>3, <4>1 DEF new
      <4> QED
        BY <1>1, <4>2
    <3>2. CASE v[2] \notin gone
      BY <1>1, <1>2, <2>3, <3>2 DEF Past
    <3> QED
      BY <3>1, <3>2
  <2> QED
    BY <2>2, <2>3 DEF Walking, Accounted
<1> QED
  BY <1>3, <1>4, <1>6, <1>7, <1>8 DEF Walking, Accounted, r

(* The NIT does not touch programs or services.                            *)
LEMMA NITKeeps ==
  ASSUME NEW s, NEW h, NEW m, Sound(s), Walking(s, h, m)
  PROVE  Walking(ProcessNIT(s), h, m)
<1> DEFINE r == ProcessNIT(s)
<1>1. s \in States /\ Networked(s, r)
  BY NITIs DEF Sound
<1> HIDE DEF r
<1>2. r = [s EXCEPT !.valid = @ \ {"NIT"}, !.toScan = r.toScan, !.flags = r.flags]
  BY <1>1 DEF Networked
<1>3. /\ r.valid = s.valid \ {"NIT"} /\ r.services = s.services /\ r.pmts = s.pmts
      /\ r.scrambled = s.scrambled /\ r.running = s.running /\ r.at = s.at /\ r.pmt = s.pmt
      /\ r.error = s.error /\ r.current = s.current /\ r.chid = s.chid
  BY <1>1, <1>2 DEF States
<1>4. /\ r.known = s.known /\ r.end = s.end /\ r.fe = s.fe
      /\ r.locked = s.locked /\ r.ready = s.ready /\ r.table = s.table
  BY <1>1, <1>2 DEF States
<1>5. "onlyfree" \in r.flags <=> "onlyfree" \in s.flags
  BY <1>1 DEF Networked
<1>6. Here(r) = Here(s) /\ Wanted(r) = Wanted(s)
  BY <1>3, <1>5 DEF Here, Wanted
<1>7. Phase(r)
  BY <1>3, <1>4 DEF Walking, Phase
<1>8. Paired(r, m) /\ Told(r)
  BY <1>3, <1>4, <1>6 DEF Walking, Paired, Told
<1>9. Accounted(r, h, m)
  BY <1>3, <1>4, <1>6 DEF Walking, Accounted, Past
<1> QED
  BY <1>7, <1>8, <1>9 DEF Walking, r

(* Both tables together lose nothing.                                      *)
LEMMA DigestKeeps ==
  ASSUME NEW s, NEW h, NEW m, Sound(s), Walking(s, h, m), h \subseteq Services
  PROVE  Walking(Digest(s), h, m)
<1> DEFINE d == IF "SDT" \in s.valid /\ ("onlyfree" \in s.flags => ~s.running)
                THEN ProcessSDT(s) ELSE s
<1>1. Sound(d) /\ Walking(d, h, m)
  BY SDTWalks, SDTKeeps
<1>2. Digest(s) = IF "NIT" \in d.valid THEN ProcessNIT(d) ELSE d
  BY Zenon DEF Digest
<1> HIDE DEF d
<1> QED
  BY <1>1, <1>2, NITKeeps

(* Where the walk went on from program p, none of those it is past is lost.*)
LEMMA Behind ==
  ASSUME NEW s \in States, NEW r, s.running, s.at \in s.pmts, Onward(s, s.at, r),
         NEW p \in s.pmts
  PROVE  (r.running => p < r.at) <=> (p < s.at \/ p = s.at)
<1>1. p \in Int /\ s.at \in Int
  BY InWalk
<1>2. CASE r.running
  <2>1. r.at \in Int /\ r.at > s.at /\ (p > s.at => r.at <= p)
    BY <1>2, InWalk DEF Onward
  <2> QED
    BY <1>1, <1>2, <2>1
<1>3. CASE ~r.running
  <2>1. p <= s.at
    BY <1>3 DEF Onward
  <2> QED
    BY <1>1, <1>3, <2>1
<1> QED
  BY <1>2, <1>3

(* Erasing the program the iterator is at loses nothing that was heard.    *)
LEMMA EraseKeeps ==
  ASSUME NEW s, NEW h, NEW m, Sound(s), s.running, Walking(s, h, m)
  PROVE  Walking(Erase(s), h, m)
<1> DEFINE r == Erase(s)
<1>1. /\ Kept(s, r) /\ Onward(s, s.at, r) /\ s.at \in s.pmts /\ s.at \in Int
      /\ r.pmts = s.pmts \ {s.at} /\ r.scrambled = s.scrambled \ {s.at}
  BY EraseIs
<1> HIDE DEF r
<1>2. s \in States /\ Here(r) = Here(s) /\ Wanted(r) = Wanted(s)
  BY <1>1 DEF Here, Wanted, Kept, Sound
<1>0. s.pmt /\ s.end = "no"
  BY DEF Walking, Paired, Phase
<1>3. r.end = "no" /\ (r.pmt <=> r.running) /\ (r.error => s.error /\ r.running)
  BY <1>0, <1>1 DEF Onward
<1>4. "PAT" \in r.ready
  BY <1>1 DEF Walking, Phase, Kept
<1>5. Phase(r)
  BY <1>1, <1>3, <1>4 DEF Walking, Phase, Kept
<1>6. Paired(r, m)
  BY <1>1, <1>2, <1>3 DEF Walking, Paired
<1>7. Told(r)
  BY <1>1, <1>2 DEF Walking, Told, Kept
<1>8. ASSUME NEW p PROVE Past(r, p) <=> Past(s, p) /\ p # s.at
  <2>1. CASE p \in s.pmts
    <3>1. (r.running => p < r.at) <=> (p < s.at \/ p = s.at)
      BY <1>1, <1>2, <2>1, Behind
    <3> QED
      BY <1>1, <2>1, <3>1 DEF Past
  <2>2. CASE p \notin s.pmts
    BY <1>1, <2>2 DEF Past
  <2> QED
    BY <2>1, <2>2
<1>9. ~Past(s, s.at)
  BY <1>1 DEF Past
<1>10. ASSUME NEW p \in r.pmts, Past(r, p) PROVE p \in r.scrambled \/ p \in Here(r).clear
  <2>1. p \in s.pmts /\ Past(s, p) /\ p # s.at
    BY <1>1, <1>8, <1>10
  <2> QED
    BY <1>1, <1>2, <2>1 DEF Walking, Accounted
<1>11. ASSUME NEW v \in h
       PROVE  \/ v \in r.services \/ v[1] \in m
              \/ v[1] = Here(r).id /\ v[2] \notin r.scrambled /\ Past(r, v[2])
  <2>1. r.services = s.services
    BY <1>1 DEF Kept
  <2>2. CASE v[1] = Here(s).id /\ v[2] \notin s.scrambled /\ Past(s, v[2])
    BY <1>1, <1>2, <1>8, <1>9, <2>2
  <2> QED
    BY <2>1, <2>2 DEF Walking, Accounted
<1> QED
  BY <1>5, <1>6, <1>7, <1>10, <1>11 DEF Walking, Accounted, r

(* A PMT that came: the program was clear, or is marked.                   *)
LEMMA AdvanceKeeps ==
  ASSUME NEW s, NEW h, NEW m, Sound(s), s.running, Walking(s, h, m)
  PROVE  Walking(Advanced(s), IF s.at \in Here(s).clear THEN h \cup {<<Here(s).id, s.at>>} ELSE h, m)
<1> DEFINE r == Advanced(s)
           g == IF s.at \in Here(s).clear THEN h \cup {<<Here(s).id, s.at>>} ELSE h
<1>1. /\ Kept(s, r) /\ Onward(s, s.at, r) /\ s.at \in s.pmts /\ s.at \in Int
      /\ r.pmts = s.pmts
      /\ r.scrambled = IF s.at \in Here(s).clear THEN s.scrambled \ {s.at}
                       ELSE s.scrambled \cup {s.at}
  BY AdvanceIs
<1> HIDE DEF r
<1>2. s \in States /\ Here(r) = Here(s) /\ Wanted(r) = Wanted(s)
  BY <1>1 DEF Here, Wanted, Kept, Sound
<1>0. s.pmt /\ s.end = "no"
  BY DEF Walking, Paired, Phase
<1>3. r.end = "no" /\ (r.pmt <=> r.running) /\ (r.error => s.error /\ r.running)
  BY <1>0, <1>1 DEF Onward
<1>4. "PAT" \in r.ready
  BY <1>1 DEF Walking, Phase, Kept
<1>5. Phase(r)
  BY <1>1, <1>3, <1>4 DEF Walking, Phase, Kept
<1>6. Paired(r, m)
  BY <1>1, <1>2, <1>3 DEF Walking, Paired
<1>7. Told(r)
  BY <1>1, <1>2 DEF Walking, Told, Kept
<1>8. ASSUME NEW p PROVE Past(r, p) <=> Past(s, p) \/ p = s.at
  <2>1. CASE p \in s.pmts
    <3>1. (r.running => p < r.at) <=> (p < s.at \/ p = s.at)
      BY <1>1, <1>2, <2>1, Behind
    <3> QED
      BY <1>1, <2>1, <3>1 DEF Past
  <2>2. CASE p \notin s.pmts
    BY <1>1, <2>2 DEF Past
  <2> QED
    BY <2>1, <2>2
<1>9. ~Past(s, s.at)
  BY <1>1 DEF Past
<1>10. ASSUME NEW p \in r.pmts, Past(r, p) PROVE p \in r.scrambled \/ p \in Here(r).clear
  <2>1. CASE p = s.at
    BY <1>1, <1>2, <2>1
  <2>2. CASE p # s.at
    <3>1. p \in s.pmts /\ Past(s, p)
      BY <1>1, <1>8, <1>10, <2>2
    <3> QED
      BY <1>1, <1>2, <2>2, <3>1 DEF Walking, Accounted
  <2> QED
    BY <2>1, <2>2
<1>11. ASSUME NEW v \in g
       PROVE  \/ v \in r.services \/ v[1] \in m
              \/ v[1] = Here(r).id /\ v[2] \notin r.scrambled /\ Past(r, v[2])
  <2>1. r.services = s.services
    BY <1>1 DEF Kept
  <2>2. CASE v[1] = Here(s).id /\ v[2] \notin s.scrambled /\ Past(s, v[2])
    BY <1>1, <1>2, <1>8, <1>9, <2>2
  <2>3. CASE v = <<Here(s).id, s.at>> /\ s.at \in Here(s).clear
    BY <1>1, <1>2, <1>8, <2>3
  <2> QED
    BY <2>1, <2>2, <2>3 DEF Walking, Accounted
<1> HIDE DEF g
<1>12. Walking(r, g, m)
  BY <1>5, <1>6, <1>7, <1>10, <1>11 DEF Walking, Accounted
<1> QED
  BY <1>12 DEF r, g

(* The state between two events: the scan is over, a transponder is being  *)
(* tuned, or its tables are read.                                          *)
Good(s, h, m) ==
  \/ s.end = "finish" /\ Settled(s, h, m)
  \/ Untouched(s) /\ Settled(s, h, m)
  \/ Walking(s, h, m)

(* An abort that is over changes nothing that matters here.                *)
LEMMA CalmKeeps ==
  ASSUME NEW s, NEW r, NEW h, NEW m, Calmed(s, r), Walking(s, h, m)
  PROVE  Walking(r, h, m)
<1>1. Here(r) = Here(s) /\ Wanted(r) = Wanted(s)
  BY DEF Calmed, Here, Wanted
<1>2. Phase(r)
  BY DEF Calmed, Walking, Phase
<1>3. Paired(r, m) /\ Told(r)
  BY <1>1 DEF Calmed, Walking, Paired, Told
<1>4. Accounted(r, h, m)
  BY <1>1 DEF Calmed, Walking, Accounted, Past
<1> QED
  BY <1>2, <1>3, <1>4 DEF Walking

(* Digesting makes no table ready that was not.                            *)
LEMMA DigestReady ==
  ASSUME NEW s, Sound(s)
  PROVE  Digest(s).ready = s.ready
<1> DEFINE d == IF "SDT" \in s.valid /\ ("onlyfree" \in s.flags => ~s.running)
                THEN ProcessSDT(s) ELSE s
<1>1. d.ready = s.ready
  BY SDTIs DEF Sound
<1>2. d \in States
  BY SDTWalks DEF Sound
<1>3. Digest(s) = IF "NIT" \in d.valid THEN ProcessNIT(d) ELSE d
  BY Zenon DEF Digest
<1> HIDE DEF d
<1> DEFINE r == ProcessNIT(d)
<1>6. Networked(d, r)
  BY <1>2, NITIs
<1> HIDE DEF r
<1>4. r = [d EXCEPT !.valid = @ \ {"NIT"}, !.toScan = r.toScan, !.flags = r.flags]
  BY <1>6 DEF Networked
<1>5. r.ready = d.ready
  BY <1>2, <1>4 DEF States
<1> QED
  BY <1>1, <1>3, <1>5 DEF r

(* The tables and the abort together lose nothing.                         *)
LEMMA DigestedKeeps ==
  ASSUME NEW s, NEW h, NEW m, Steady(s), Walking(s, h, m), h \subseteq Services
  PROVE  Walking(Digested(s), h, m) /\ Digested(s).ready = s.ready
<1> DEFINE d == Digest(s)
           c == [d EXCEPT !.abort = FALSE]
<1>1. Sound(d) /\ Walking(d, h, m) /\ d.ready = s.ready
  BY DigestWalks, DigestKeeps, DigestReady DEF Steady, Sound
<1>2. Digested(s) = IF d.abort THEN Erase(c) ELSE d
  BY Zenon DEF Digested
<1> HIDE DEF d
<1>3. CASE d.abort
  <2>1. Calmed(d, c)
    BY <1>1, CalmIs DEF Sound
  <2> HIDE DEF c
  <2>2. Spaced(c)
    BY <1>1, <2>1, SameLists DEF Calmed, Sound
  <2>3. Sound(c) /\ c.running
    BY <1>1, <1>3, <2>1, <2>2 DEF Calmed, Sound
  <2>4. Walking(c, h, m) /\ c.ready = s.ready
    BY <1>1, <2>1, CalmKeeps DEF Calmed
  <2>5. Erase(c).ready = c.ready
    BY <2>3, EraseIs DEF Kept
  <2> QED
    BY <1>2, <1>3, <2>3, <2>4, <2>5, EraseKeeps
<1>4. CASE ~d.abort
  BY <1>1, <1>2, <1>4
<1> QED
  BY <1>3, <1>4

(* The rest of the programs are services, and the next one is tuned.       *)
LEMMA CompleteKeeps ==
  ASSUME NEW s, NEW h, NEW m, Steady(s), Walking(s, h, m), h \subseteq Services, ~s.running,
         NEW r \in Complete(s)
  PROVE  Good(r, h, m)
<1> DEFINE wanted == IF "onlyfree" \in s.flags THEN s.pmts \ s.scrambled ELSE s.pmts
           new == {<<Here(s).id, p>> : p \in wanted}
<1>0. s \in States
  BY DEF Steady, Sound
<1>1. PICK t \in States :
        /\ Moved(t, r) /\ t.pmts = {} /\ t.scrambled = {}
        /\ t.running = s.running /\ t.error = s.error /\ t.end = s.end /\ t.flags = s.flags
        /\ t.services = s.services \cup new
        /\ t.known = s.known \cup (IF s.chid \/ s.pmts # {} THEN {Here(s).id} ELSE {})
  <2>1. Finished(s, r)
    BY <1>0, CompleteIs
  <2> QED
    BY <2>1, Zenon DEF Finished
<1> HIDE DEF new, wanted
<1>2. ASSUME NEW p \in wanted PROVE <<Here(s).id, p>> \in Wanted(s)
  <2>1. p \in s.pmts /\ ("onlyfree" \in s.flags => p \notin s.scrambled)
    BY DEF wanted
  <2>2. p \in Here(s).pat
    BY <2>1 DEF Walking, Paired
  <2>3. "onlyfree" \in s.flags => p \in Here(s).clear
    BY <2>1 DEF Walking, Accounted, Past
  <2> QED
    BY <1>0, <2>2, <2>3, HereCarries DEF Wanted
<1>3. t.services \subseteq Wanted(t)
  BY <1>1, <1>2 DEF Walking, Told, Wanted, new
<1>4. ASSUME NEW v \in t.services PROVE v[1] \in t.known
  <2>1. CASE v \in new
    <3>1. v[1] = Here(s).id /\ s.pmts # {}
      BY <2>1 DEF new, wanted
    <3> QED
      BY <1>1, <3>1
  <2>2. CASE v \in s.services
    BY <1>1, <2>2 DEF Walking, Told
  <2> QED
    BY <1>1, <2>1, <2>2
<1>5. ASSUME NEW v \in h PROVE v \in t.services \/ v[1] \in m
  <2>1. v = <<v[1], v[2]>>
    BY DEF Services
  <2>2. CASE v[1] = Here(s).id /\ v[2] \notin s.scrambled /\ Past(s, v[2])
    <3>1. v[2] \in wanted
      BY <2>2 DEF wanted, Past
    <3>2. v \in new
      BY <2>1, <2>2, <3>1 DEF new
    <3> QED
      BY <1>1, <3>2
  <2> QED
    BY <1>1, <2>2 DEF Walking, Accounted
<1>6. Settled(r, h, m)
  <2>1. r.services = t.services /\ r.known = t.known /\ r.flags = t.flags
    BY <1>1 DEF Moved
  <2> QED
    BY <1>3, <1>4, <1>5, <2>1 DEF Settled, Wanted
<1>7. ~s.error /\ s.end = "no"
  BY DEF Walking, Paired, Phase
<1>8. r.end = "finish" \/ Untouched(r)
  BY <1>1, <1>7 DEF Moved, Untouched
<1> QED
  BY <1>6, <1>8 DEF Good

(* channelDone keeps the invariant.                                        *)
LEMMA ChannelDoneKeeps ==
  ASSUME NEW s, NEW h, NEW m, Steady(s), Walking(s, h, m), h \subseteq Services,
         NEW r \in ChannelDone(s)
  PROVE  /\ Good(r, h, m)
         /\ "SDT" \notin s.ready => Walking(r, h, m) /\ r.ready = s.ready
<1> DEFINE d == Digested(s)
<1>1. Steady(d) /\ Walking(d, h, m) /\ d.ready = s.ready
  BY ChannelDoneWalks, DigestedKeeps
<1>2. r \in IF ~d.running /\ Needed(d) \subseteq d.ready THEN Complete(d) ELSE {d}
  BY ChannelDoneIs
<1> HIDE DEF d
<1>3. "SDT" \in Needed(d)
  BY DEF Needed
<1>4. CASE ~d.running /\ Needed(d) \subseteq d.ready
  BY <1>1, <1>2, <1>3, <1>4, CompleteKeeps
<1>5. CASE ~(~d.running /\ Needed(d) \subseteq d.ready)
  BY <1>1, <1>2, <1>5 DEF Good
<1> QED
  BY <1>4, <1>5

(* The end of a walk keeps it.                                             *)
LEMMA WalkedKeeps ==
  ASSUME NEW s, NEW h, NEW m, Steady(s), Walking(s, h, m), h \subseteq Services,
         NEW r \in Walked(s)
  PROVE  /\ Good(r, h, m)
         /\ "SDT" \notin s.ready => Walking(r, h, m) /\ r.ready = s.ready
BY ChannelDoneKeeps DEF Walked, Good

(* Only tables, and only that of the SDT, change.                          *)
LEMMA AsideKeeps ==
  ASSUME NEW s, NEW r, NEW h, NEW m, Aside(s, r), Walking(s, h, m), Phase(r)
  PROVE  Walking(r, h, m)
<1>1. Here(r) = Here(s) /\ Wanted(r) = Wanted(s)
  BY DEF Aside, Here, Wanted
<1>2. Paired(r, m) /\ Told(r)
  BY <1>1 DEF Aside, Walking, Paired, Told
<1>3. Accounted(r, h, m)
  BY <1>1 DEF Aside, Walking, Accounted, Past
<1> QED
  BY <1>2, <1>3 DEF Walking

(* So does starting or stopping the SDT.                                   *)
LEMMA SDTTableKeeps ==
  ASSUME NEW s \in States, NEW h, NEW m, Walking(s, h, m), "PAT" \in s.ready,
         NEW t \in {"off", "reading"}
  PROVE  Walking([s EXCEPT !.table["SDT"] = t], h, m)
<1> DEFINE r == [s EXCEPT !.table["SDT"] = t]
<1>1. Aside(s, r) /\ r.table = [s.table EXCEPT !["SDT"] = t]
  BY TableIs DEF Table
<1>2. r.fe = s.fe /\ r.locked = s.locked /\ r.ready = s.ready /\ r.valid = s.valid
  BY DEF States
<1> HIDE DEF r
<1>3. r.table["PAT"] = s.table["PAT"]
  BY <1>1 DEF States, Table
<1>4. Phase(r)
  BY <1>1, <1>2, <1>3 DEF Walking, Phase, Aside
<1> QED
  BY <1>1, <1>4, AsideKeeps DEF r

(* The programs of the PAT are listed, and none of them is passed yet.     *)
LEMMA BeginKeeps ==
  ASSUME NEW s, NEW h, NEW m, Steady(s), Walking(s, h, m), h \subseteq Services,
         ~s.running, s.pmts = {}, "PAT" \in s.ready, "SDT" \notin s.ready,
         NEW r \in Begin(Mapped(s))
  PROVE  Walking(r, h, m) /\ "PAT" \in r.ready
<1> DEFINE b == Mapped(s)
           v == Begun(b)
<1>0. s \in States
  BY DEF Steady, Sound
<1>1. /\ b \in States /\ b.pmts = Here(s).pat /\ b.pmt /\ ~b.error
      /\ b.running = s.running /\ b.at = s.at /\ b.scrambled = s.scrambled /\ b.abort = s.abort
      /\ b.flags = s.flags /\ b.toScan = s.toScan /\ b.scanned = s.scanned
      /\ b.current = s.current /\ b.chid = s.chid /\ b.services = s.services
      /\ b.known = s.known /\ b.end = s.end
      /\ b.fe = s.fe /\ b.locked = s.locked /\ b.ready = s.ready /\ b.valid = s.valid
      /\ b.table = [s.table EXCEPT !["SDT"] = "off"]
  BY <1>0, MappedIs
<1> HIDE DEF b
<1>2. Spaced(b)
  BY <1>1, SameLists DEF Steady, Sound
<1>3. Steady(b) /\ ~b.running
  BY <1>1, <1>2 DEF Steady, Sound
<1>4. /\ r \in Walked(v) /\ Steady(v) /\ Kept(b, v) /\ Onward(b, -1, v)
      /\ v.pmts = b.pmts /\ v.scrambled = b.scrambled
  BY <1>3, BegunIs DEF b
<1> HIDE DEF v
<1>5. Here(v) = Here(s) /\ Wanted(v) = Wanted(s)
  BY <1>1, <1>4 DEF Kept, Here, Wanted
<1>6. b.table["PAT"] = s.table["PAT"]
  BY <1>0, <1>1 DEF States, Table
<1>7. ASSUME NEW p PROVE ~Past(v, p)
  <2>1. SUFFICES ASSUME p \in b.pmts, v.running => p < v.at PROVE FALSE
    BY <1>4 DEF Past
  <2>2. p \in Nat
    BY <1>1, <2>1, InWalk
  <2>3. CASE v.running
    <3>1. v.at <= p /\ v.at \in Int
      BY <1>1, <1>4, <2>1, <2>2, <2>3, InWalk DEF Onward
    <3> QED
      BY <2>1, <2>2, <2>3, <3>1
  <2>4. CASE ~v.running
    BY <1>4, <2>1, <2>2, <2>4 DEF Onward
  <2> QED
    BY <2>3, <2>4
<1>8. Phase(v)
  <2>1. v.end = s.end
    BY <1>1, <1>4 DEF Onward
  <2>2. v.fe = s.fe /\ v.locked = s.locked /\ v.ready = s.ready /\ v.valid = s.valid
        /\ v.table["PAT"] = s.table["PAT"]
    BY <1>1, <1>4, <1>6 DEF Kept
  <2> QED
    BY <2>1, <2>2 DEF Walking, Phase
<1>9. Paired(v, m)
  <2>1. s.scrambled = {}
    BY DEF Walking, Paired
  <2>2. (v.pmt <=> v.running) /\ ~v.error
    BY <1>1, <1>4 DEF Onward
  <2> QED
    BY <1>1, <1>4, <1>5, <2>1, <2>2 DEF Paired
<1>10. Told(v)
  BY <1>1, <1>4, <1>5 DEF Walking, Told, Kept
<1>11. Accounted(v, h, m)
  <2>1. \A v2 \in h : v2 \in s.services \/ v2[1] \in m
    BY DEF Walking, Accounted, Past
  <2> QED
    BY <1>1, <1>4, <1>7, <2>1 DEF Accounted, Kept
<1>12. Walking(v, h, m) /\ v.ready = s.ready
  BY <1>1, <1>4, <1>8, <1>9, <1>10, <1>11 DEF Walking, Kept
<1> QED
  BY <1>4, <1>12, WalkedKeeps

(* startFilter keeps the invariant.                                        *)
LEMMA StartFilterKeeps ==
  ASSUME NEW s, NEW h, NEW m, Steady(s), Walking(s, h, m), h \subseteq Services,
         "PAT" \in s.ready, "PAT" \in s.valid => ~s.running /\ s.pmts = {} /\ "SDT" \notin s.ready,
         NEW r \in StartFilter(s)
  PROVE  Walking(r, h, m)
<1>0. s \in States
  BY DEF Steady, Sound
<1>1. ASSUME "PAT" \in s.valid, NEW w \in Begin(Mapped(s)), r = [w EXCEPT !.table["SDT"] = "reading"]
      PROVE  Walking(r, h, m)
  <2> DEFINE b == Mapped(s)
  <2>1. Walking(w, h, m) /\ "PAT" \in w.ready
    BY <1>1, BeginKeeps
  <2>2. w \in States
    <3>1. /\ b \in States /\ s.pmts \subseteq b.pmts /\ b.running = s.running /\ b.at = s.at
          /\ b.abort = s.abort /\ b.toScan = s.toScan /\ b.scanned = s.scanned
          /\ b.current = s.current
      BY <1>0, MappedIs
    <3> HIDE DEF b
    <3>2. Spaced(b)
      BY <3>1, SameLists DEF Steady, Sound
    <3>3. Steady(b)
      BY <3>1, <3>2 DEF Steady, Sound
    <3> QED
      BY <1>1, <3>3, BeginWalks DEF b, Rested
  <2>3. Walking([w EXCEPT !.table["SDT"] = "reading"], h, m)
    BY <2>1, <2>2, SDTTableKeeps
  <2> QED
    BY <1>1, <2>3, Zenon
<1>2. CASE r = [Off(s) EXCEPT !.table["SDT"] = "reading"]
  <2> DEFINE o == Off(s)
  <2>1. Walking(o, h, m)
    BY <1>0, SDTTableKeeps DEF Off
  <2>2. Aside(s, o) /\ o.ready = s.ready
    <3>1. o.ready = s.ready
      BY <1>0 DEF Off, States
    <3> QED
      BY <1>0, <3>1, OffIs
  <2> HIDE DEF o
  <2>3. Walking([o EXCEPT !.table["SDT"] = "reading"], h, m)
    BY <2>1, <2>2, SDTTableKeeps DEF Aside
  <2> QED
    BY <1>2, <2>3, Zenon DEF o
<1> QED
  BY <1>1, <1>2, StartFilterIs, Zenon

(* The invariant: from event to event.                                     *)
GoodInv == RestInv /\ Good(scan, heard, missed)

(* Whatever was settled stays so when the next transponder is tuned.       *)
LEMMA MovedGood ==
  ASSUME NEW s, NEW r, NEW h, NEW m, Moved(s, r), Settled(s, h, m), s.end = "no",
         ~s.running, ~s.error, s.pmts = {}, s.scrambled = {}
  PROVE  Good(r, h, m)
<1>1. Settled(r, h, m)
  BY DEF Moved, Settled, Wanted
<1>2. r.end = "finish" \/ Untouched(r)
  BY DEF Moved, Untouched
<1> QED
  BY <1>1, <1>2 DEF Good

(* The stronger invariant holds at the start.                              *)
LEMMA InitGood == Init => Good(scan, heard, missed)
<1> SUFFICES ASSUME Init PROVE Good(scan, heard, missed)
  OBVIOUS
<1>1. PICK list \in Initial, g \in FlagSets : scan \in NextChannel(Started(list, g))
  BY DEF Init
<1> DEFINE s == Started(list, g)
<1>2. s \in States
  BY StartedIs
<1>3. /\ s.end = "no" /\ ~s.running /\ ~s.error /\ s.pmts = {} /\ s.scrambled = {}
      /\ s.services = {}
  BY DEF Started
<1> HIDE DEF s
<1>4. heard = {} /\ missed = {}
  BY DEF Init
<1>5. Settled(s, heard, missed)
  BY <1>3, <1>4 DEF Settled
<1>6. Moved(s, scan)
  BY <1>1, <1>2, NextChannelIs DEF s
<1> QED
  BY <1>3, <1>5, <1>6, MovedGood

(* A change of the channel that leaves it locked keeps the invariant.      *)
LEMMA PhaseOn ==
  ASSUME NEW s, NEW r, NEW h, NEW m, Walking(s, h, m), Aside(s, r), Tables(s, r),
         r.fe # "tuning", r.locked
  PROVE  Walking(r, h, m)
<1>1. Phase(r)
  BY DEF Aside, Tables, Walking, Phase
<1> QED
  BY <1>1, AsideKeeps

(* The first lock on a transponder.                                        *)
LEMMA LockKeeps ==
  ASSUME Untouched(scan), Settled(scan, heard, missed), Steady(scan), Lock
  PROVE  Good(scan', heard, missed)
<1> DEFINE s == [scan EXCEPT !.fe = "ok", !.locked = TRUE]
           o == Off(s)
           r == [o EXCEPT !.table = Asked(s)]
<1>1. scan' \in StartFilter(s)
  BY Zenon DEF Lock, Untouched
<1>2. scan \in States
  BY DEF Steady, Sound
<1>3. s = [scan EXCEPT !.fe = "ok", !.locked = TRUE]
  OBVIOUS
<1> HIDE DEF s
<1>4. Aside(scan, s) /\ Tables(scan, s) /\ s.fe = "ok" /\ s.locked
  BY <1>2, <1>3, LockIs, Zenon
<1>5. "PAT" \notin s.ready /\ s.valid = {} /\ s \in States
  BY <1>4 DEF Untouched, Tables, Aside
<1>6. scan' = r
  BY <1>1, <1>5, StartFilterIs, Zenon
<1>7. Aside(s, r) /\ r.table = Asked(s)
  BY <1>5, OffIs
<1>8. o \in States /\ o.fe = s.fe /\ o.locked = s.locked /\ o.ready = s.ready /\ o.valid = s.valid
  <2>1. o \in States
    BY <1>5, OffIs DEF Aside
  <2> QED
    BY <1>5, <2>1 DEF Off, States
<1> HIDE DEF o
<1>9. r.fe = s.fe /\ r.locked = s.locked /\ r.ready = s.ready /\ r.valid = s.valid
  BY <1>8 DEF States
<1> HIDE DEF r
<1>10. r.table["SDT"] = "off"
  BY <1>7 DEF Asked, Table
<1>11. /\ r.end = "no" /\ ~r.running /\ r.pmts = {} /\ r.scrambled = {} /\ ~r.pmt /\ ~r.error
       /\ r.services = scan.services /\ r.known = scan.known /\ r.flags = scan.flags
       /\ r.ready = {} /\ r.valid = {}
  BY <1>4, <1>7, <1>9 DEF Aside, Tables, Untouched
<1>12. Phase(r)
  BY <1>4, <1>9, <1>10, <1>11 DEF Phase
<1>13. Paired(r, missed) /\ Told(r)
  BY <1>11 DEF Paired, Told, Settled, Wanted
<1>14. Accounted(r, heard, missed)
  BY <1>11 DEF Accounted, Settled
<1> QED
  BY <1>6, <1>12, <1>13, <1>14 DEF Good, Walking

(* A table that came or did not.                                           *)
LEMMA ReadyKeeps ==
  ASSUME Walking(scan, heard, missed), Steady(scan), heard \subseteq Services,
         NEW x \in Table, NEW ok \in BOOLEAN, NEW t \in {"off", "late"},
         scan.table[x] # "off", ok => scan.table[x] = "reading" /\ t = "off", Ready(x, ok, t)
  PROVE  Good(scan', heard, missed)
<1> DEFINE s == Noted(scan, x, ok, t)
<1>1. scan' \in IF x = "PAT" THEN StartFilter(s) ELSE ChannelDone(s)
  BY Zenon DEF Ready, Noted
<1>2. scan \in States
  BY DEF Steady, Sound
<1>3a. AsNoted(scan, x, ok, t, s)
  BY <1>2, NotedIs
<1> HIDE DEF s
<1>3. /\ Aside(scan, s) /\ s.fe = scan.fe /\ s.locked = scan.locked
      /\ s.ready = scan.ready \cup {x}
      /\ s.valid = IF ok THEN scan.valid \cup {x} ELSE scan.valid
      /\ s.table = [scan.table EXCEPT ![x] = t]
  BY <1>3a DEF AsNoted
<1>4. /\ s.table[x] = t /\ \A y \in Table \ {x} : s.table[y] = scan.table[y]
      /\ "PAT" \in Table /\ "SDT" \in Table
  BY <1>2, <1>3 DEF States, Table
<1>5. Steady(s)
  BY <1>3, AsideWalks
<1>6. CASE x = "PAT"
  <2>1. s.table["PAT"] # "reading" /\ "PAT" \in s.ready
    BY <1>3, <1>4, <1>6
  <2>2. "PAT" \in s.valid => ok
    BY <1>3, <1>6 DEF Walking, Phase
  <2>3. Phase(s)
    BY <1>3, <1>4, <1>6, <2>1, <2>2 DEF Aside, Walking, Phase
  <2>4. Walking(s, heard, missed)
    BY <1>3, <2>3, AsideKeeps
  <2>5. "PAT" \in s.valid => ~s.running /\ s.pmts = {} /\ "SDT" \notin s.ready
    <3>1. ok => "PAT" \notin scan.ready
      BY <1>6 DEF Walking, Phase
    <3>2. ok => ~scan.running /\ scan.pmts = {} /\ "SDT" \notin scan.ready
      BY <3>1 DEF Walking, Phase
    <3> QED
      BY <1>3, <1>6, <2>2, <3>2 DEF Aside
  <2> QED
    BY <1>1, <1>5, <1>6, <2>1, <2>4, <2>5, StartFilterKeeps DEF Good
<1>7. CASE x # "PAT"
  <2>1. /\ s.table["PAT"] = scan.table["PAT"]
        /\ "PAT" \in s.ready <=> "PAT" \in scan.ready
        /\ "PAT" \in s.valid <=> "PAT" \in scan.valid
    BY <1>3, <1>4, <1>7
  <2>2. "PAT" \notin scan.ready => x # "SDT"
    BY DEF Walking, Phase
  <2>3. Phase(s)
    BY <1>3, <1>4, <2>1, <2>2 DEF Aside, Walking, Phase
  <2>4. Walking(s, heard, missed)
    BY <1>3, <2>3, AsideKeeps
  <2> QED
    BY <1>1, <1>5, <1>7, <2>4, ChannelDoneKeeps
<1> QED
  BY <1>6, <1>7

(* Every step keeps the stronger invariant.                                *)
LEMMA NextGood ==
  ASSUME "drop" \notin Faults, GoodInv, Next, RestInv'
  PROVE  GoodInv'
<1>1. /\ scan.end = "no" /\ Steady(scan) /\ scan \in States
      /\ heard \subseteq Services /\ missed \subseteq Ids
  BY RestsSteady DEF Next, GoodInv, RestInv
<1>2. \/ Untouched(scan) /\ Settled(scan, heard, missed)
      \/ Walking(scan, heard, missed)
  BY <1>1 DEF GoodInv, Good
<1>3. scan.fe = "tuning" \/ ~scan.locked => Untouched(scan) /\ Settled(scan, heard, missed)
  BY <1>2 DEF Walking, Phase
<1>4. scan.fe # "tuning" \/ scan.running \/ (\E x \in Table : scan.table[x] # "off")
        => Walking(scan, heard, missed)
  BY <1>2 DEF Untouched
<1>5. CASE Lock
  <2>1. CASE scan.locked
    <3>1. scan' = [scan EXCEPT !.fe = "ok"] /\ heard' = heard /\ missed' = missed
      BY <1>5, <2>1 DEF Lock
    <3>2. Aside(scan, scan') /\ Tables(scan, scan') /\ scan'.fe = "ok" /\ scan'.locked = scan.locked
      BY <1>1, <3>1, ChannelIs
    <3>3. Walking(scan, heard, missed)
      BY <1>2, <2>1 DEF Untouched
    <3>4. Walking(scan', heard, missed)
      BY <2>1, <3>2, <3>3, PhaseOn
    <3> QED
      BY <3>1, <3>4 DEF GoodInv, Good
  <2>2. CASE ~scan.locked
    <3>1. Good(scan', heard, missed)
      BY <1>1, <1>3, <1>5, <2>2, LockKeeps
    <3> QED
      BY <1>5, <3>1 DEF GoodInv, Lock
  <2> QED
    BY <2>1, <2>2
<1>6. CASE LoseLock
  <2>1. /\ scan.fe = "ok" /\ scan' = [scan EXCEPT !.fe = "unavailable"]
        /\ heard' = heard /\ missed' = missed
    BY <1>6 DEF LoseLock
  <2>2. /\ Aside(scan, scan') /\ Tables(scan, scan') /\ scan'.fe = "unavailable"
        /\ scan'.locked = scan.locked
    BY <1>1, <2>1, ChannelIs
  <2>3. Walking(scan, heard, missed)
    BY <1>4, <2>1
  <2>4. Walking(scan', heard, missed)
    BY <2>2, <2>3, PhaseOn DEF Walking, Phase
  <2> QED
    BY <2>1, <2>4 DEF GoodInv, Good
<1>7. CASE TuneTimeout
  <2> DEFINE s == [scan EXCEPT !.window = FALSE]
             u == scan.unavailable \cup {scan.current}
             t == [scan EXCEPT !.window = FALSE, !.unavailable = u]
  <2>0. s.unavailable = scan.unavailable
    BY <1>1 DEF States
  <2>1. /\ scan' \in IF scan.fe = "tuning" THEN NextChannel(t) ELSE {s}
        /\ heard' = heard /\ missed' = missed
    BY <1>7, <2>0 DEF TuneTimeout
  <2>2. u \in SUBSET Param
    BY <1>1 DEF States
  <2> HIDE DEF u
  <2>3. /\ s = [scan EXCEPT !.window = FALSE]
        /\ t = [scan EXCEPT !.window = FALSE, !.unavailable = u]
    OBVIOUS
  <2> HIDE DEF s, t
  <2>4. CASE scan.fe = "tuning"
    <3>1. Aside(scan, t)
      BY <1>1, <2>2, <2>3, UnavailableIs, Zenon
    <3>2. Untouched(scan) /\ Settled(scan, heard, missed)
      BY <1>3, <2>4
    <3>3. Moved(t, scan')
      BY <2>1, <2>4, <3>1, NextChannelIs DEF Aside
    <3>4. /\ t.end = "no" /\ ~t.running /\ ~t.error /\ t.pmts = {} /\ t.scrambled = {}
          /\ Settled(t, heard, missed)
      BY <3>1, <3>2 DEF Aside, Untouched, Settled, Wanted
    <3>5. Good(scan', heard, missed)
      BY <3>3, <3>4, MovedGood
    <3> QED
      BY <2>1, <3>5 DEF GoodInv
  <2>5. CASE scan.fe # "tuning"
    <3>1. Aside(scan, s) /\ Tables(scan, s) /\ s.fe = scan.fe /\ s.locked = scan.locked
      BY <1>1, <2>3, TimeoutIs, Zenon
    <3>2. Walking(scan, heard, missed)
      BY <1>4, <2>5
    <3>3. Walking(s, heard, missed)
      BY <2>5, <3>1, <3>2, PhaseOn DEF Walking, Phase
    <3> QED
      BY <2>1, <2>5, <3>3 DEF GoodInv, Good
  <2> QED
    BY <2>4, <2>5
<1>8. ASSUME NEW x \in Table, TableRead(x) \/ TableGivenUp(x) \/ TableTimeout(x) PROVE GoodInv'
  <2>1. UNCHANGED <<heard, missed>> /\ scan.table[x] # "off"
    BY <1>8 DEF TableRead, TableGivenUp, TableTimeout
  <2>2. PICK ok \in BOOLEAN, t \in {"off", "late"} :
          Ready(x, ok, t) /\ (ok => scan.table[x] = "reading" /\ t = "off")
    BY <1>8, Zenon DEF TableRead, TableGivenUp, TableTimeout
  <2>3. Walking(scan, heard, missed)
    BY <1>4, <2>1
  <2>4. Good(scan', heard, missed)
    BY <1>1, <2>1, <2>2, <2>3, ReadyKeeps
  <2> QED
    BY <2>1, <2>4 DEF GoodInv
<1>9. CASE PMTRead
  <2> DEFINE g == IF scan.at \in Here(scan).clear THEN heard \cup {<<Here(scan).id, scan.at>>}
                  ELSE heard
  <2>1. /\ scan.running /\ scan' \in IF scan.error THEN Walked(Erase(scan)) ELSE Advance(scan)
        /\ heard' = g /\ missed' = missed
    BY <1>9, Zenon DEF PMTRead, Reading
  <2>2. Walking(scan, heard, missed)
    BY <1>4, <2>1
  <2>3. heard' \subseteq Services
    BY DEF RestInv
  <2>4. CASE scan.error
    <3>1. Steady(Erase(scan)) /\ Walking(Erase(scan), heard, missed)
      BY <1>1, <2>1, <2>2, EraseWalks, EraseKeeps DEF Steady
    <3>2. Here(scan).id \in missed
      BY <2>2, <2>4 DEF Walking, Paired
    <3>3. Walking(Erase(scan), g, missed)
      BY <3>1, <3>2 DEF Walking, Accounted
    <3> QED
      BY <2>1, <2>3, <2>4, <3>1, <3>3, WalkedKeeps DEF GoodInv
  <2>5. CASE ~scan.error
    <3>1. Steady(Advanced(scan)) /\ Advance(scan) = Walked(Advanced(scan))
      BY <1>1, <2>1, AdvancedSteady, AdvanceIs DEF Steady
    <3>2. Walking(Advanced(scan), g, missed)
      BY <1>1, <2>1, <2>2, AdvanceKeeps DEF Steady
    <3> QED
      BY <2>1, <2>3, <2>5, <3>1, <3>2, WalkedKeeps DEF GoodInv
  <2> QED
    BY <2>4, <2>5
<1>10. CASE PMTTimeout
  <2> DEFINE f == [scan EXCEPT !.error = TRUE]
             n == missed \cup {Here(scan).id}
  <2>1. /\ scan.running /\ scan' \in Walked(Erase(f))
        /\ heard' = heard /\ missed' = n
    BY <1>10, Zenon DEF PMTTimeout, Reading
  <2>2. Walking(scan, heard, missed)
    BY <1>4, <2>1
  <2>3. /\ Kept(scan, f) /\ Sound(f) /\ f.running /\ f.at = scan.at /\ f.pmts = scan.pmts
        /\ f.scrambled = scan.scrambled /\ f.pmt = scan.pmt /\ f.end = scan.end
    BY <1>1, <2>1, FailedIs DEF Steady
  <2> HIDE DEF f
  <2>4. Steady(f)
    BY <1>1, <2>3 DEF Steady, Kept
  <2>5. Here(f) = Here(scan) /\ Wanted(f) = Wanted(scan)
    BY <2>3 DEF Here, Wanted, Kept
  <2>6. Phase(f)
    BY <2>1, <2>2, <2>3 DEF Walking, Phase, Kept
  <2>7. Paired(f, n) /\ Told(f)
    BY <2>1, <2>2, <2>3, <2>5 DEF Walking, Paired, Told, Kept
  <2>8. Accounted(f, heard, n)
    BY <2>1, <2>2, <2>3, <2>5 DEF Walking, Accounted, Past, Kept
  <2>9. Steady(Erase(f)) /\ Walking(Erase(f), heard, n)
    BY <2>3, <2>4, <2>6, <2>7, <2>8, EraseWalks, EraseKeeps DEF Walking
  <2> QED
    BY <1>1, <2>1, <2>9, WalkedKeeps DEF GoodInv
<1> QED
  BY <1>5, <1>6, <1>7, <1>8, <1>9, <1>10 DEF Next, Timer

(* It holds in every reachable state.                                      *)
LEMMA IsGood ==
  ASSUME "drop" \notin Faults
  PROVE  Spec => []GoodInv
<1>1. Init => GoodInv
  BY InitRests, InitGood DEF GoodInv
<1>2. GoodInv /\ [Next]_vars => GoodInv'
  <2>1. GoodInv /\ Next => GoodInv'
    BY NextGood, NextRests DEF GoodInv
  <2>2. GoodInv /\ UNCHANGED vars => GoodInv'
    BY DEF GoodInv, RestInv, vars
  <2> QED
    BY <2>1, <2>2
<1> QED
  BY <1>1, <1>2, PTL DEF Spec

(* The walk over the programs: the iterator points to a program of the     *)
(* list, and a PMT is only started where there is an m_PMT. With a lock    *)
(* that is lost before the time for tuning is over neither m_pmt_running   *)
(* nor the list is reset, and the second part fails: see the findings.     *)
THEOREM WalkIsSound ==
  ASSUME "drop" \notin Faults
  PROVE  Spec => []WalkSound
<1>1. GoodInv => WalkSound
  BY DEF GoodInv, RestInv, Rested, Good, Untouched, Walking, Phase, WalkSound, TypeOK, IteratorValid
<1> QED
  BY <1>1, IsGood, PTL

(* processSDT, channelDone: nothing is found that is not there, with "only *)
(* free" nothing that is not clear, and in the end each transponder with a *)
(* service is known.                                                       *)
THEOREM ServicesAreSound ==
  ASSUME "drop" \notin Faults
  PROVE  Spec => []ServicesSound
<1>1. GoodInv => ServicesOnAir
  BY DEF GoodInv, Good, Settled, Walking, Told, Wanted, ServicesOnAir
<1>2. GoodInv => ServicesTunable
  BY DEF GoodInv, Good, Settled, Untouched, Walking, Phase, ServicesTunable
<1> QED
  BY <1>1, <1>2, IsGood, PTL DEF ServicesSound

(* PMTready, processSDT: a clear program whose PMT came is found, unless a *)
(* PMT timed out on that transponder, for tables in any order and programs *)
(* that the SDT erases while the walk is at, before or past them.          *)
THEOREM AllFound ==
  ASSUME "drop" \notin Faults
  PROVE  Spec => []Found
<1>1. GoodInv => Found
  BY DEF GoodInv, Good, Settled, Untouched, Walking, Phase, Found
<1> QED
  BY <1>1, IsGood, PTL
=============================================================================
