-------------------------- MODULE DecryptFile_proofs --------------------------
(***************************************************************************)
(* The ring is a queue, for every size of the buffer and of its margin and *)
(* any number of bytes.  The file uses its ring only by the ring's         *)
(* operations, so what is proved of the ring holds of it in the file, for  *)
(* every size and every stream.                                            *)
(***************************************************************************)
EXTENDS DecryptFile, FiniteSetTheorems, TLAPS

(***************************************************************************)
(* The ring.                                                               *)
(***************************************************************************)

(* The oldest byte is never in front of the unwrapped margin, the next one *)
(* never goes there, and a ring that wraps has its oldest byte behind it.  *)
Places ==
  /\ head >= margin
  /\ head < tail => tail > margin
  /\ tail >= 1

IInv == TypeOK /\ Places /\ Queue /\ BlockStays

LEMMA InitInv == Init => IInv
BY RingAssumption DEF Init, IInv, TypeOK, Places, Queue, BlockStays, Available, Cell

(* What there is room for is not held by a byte of the queue.              *)
LEMMA ReadKeeps ==
  ASSUME IInv, NEW n \in 1 .. Size, Read(n)
  PROVE  IInv'
<1> USE RingAssumption
<1>1. /\ head \in Cell /\ tail \in Cell /\ put \in Nat /\ del \in Nat /\ n \in Nat /\ n >= 1
      /\ n <= Room /\ tail' = tail /\ del' = del /\ gotten' = gotten /\ put' = put + n
      /\ head' = IF head + n >= Size THEN margin ELSE head + n
  BY DEF IInv, TypeOK, Read
<1>2. head + n <= Size /\ (head < tail => head + n < tail) /\ (tail <= margin => head + n < Size)
  BY <1>1 DEF Room, Cell, IInv, Places
<1>3. TypeOK' /\ Places'
  <2>1. buffer' \in [Cell -> Int]
    <3>1. \A i \in Cell : (IF i \in head .. head + n - 1 THEN put + i - head ELSE buffer[i]) \in Int
      BY <1>1 DEF IInv, TypeOK, Cell
    <3> QED
      BY <3>1 DEF Read
  <2>2. head' \in Cell /\ Places'
    BY <1>1, <1>2 DEF IInv, Places, Cell
  <2> QED
    BY <1>1, <2>1, <2>2 DEF IInv, TypeOK
<1>4. Available' = Available + n /\ Available \in Nat
  BY <1>1, <1>2 DEF Available, Cell, IInv, Places
<1>5. \A i \in Cell : buffer'[i] = IF i \in head .. head + n - 1 THEN put + i - head ELSE buffer[i]
  BY DEF Read
<1>6. Queue'
  <2>1. ASSUME NEW k \in 0 .. Available' - 1
        PROVE  buffer'[CellOf(k)'] = del' + k
    <3>1. CellOf(k)' = CellOf(k) /\ CellOf(k) \in Cell
      BY <1>1, <1>2, <1>4, <2>1 DEF CellOf, Available, Cell, IInv, Places
    <3>2. CASE k < Available
      <4>1. CellOf(k) \notin head .. head + n - 1
        BY <1>1, <1>2, <1>4, <3>2 DEF CellOf, Available, Cell, IInv, Places
      <4> QED
        BY <1>1, <1>5, <3>1, <3>2, <4>1 DEF IInv, Queue
    <3>3. CASE k >= Available
      <4>1. CellOf(k) = head + (k - Available)
        BY <1>1, <1>2, <1>4, <3>3 DEF CellOf, Available, Cell, IInv, Places
      <4>2. put = del + Available
        BY <1>1, <1>4 DEF IInv, Queue
      <4> QED
        BY <1>1, <1>4, <1>5, <2>1, <3>1, <3>3, <4>1, <4>2 DEF Cell
    <3> QED
      BY <1>4, <3>2, <3>3
  <2>2. Available' = put' - del'
    BY <1>1, <1>4 DEF IInv, Queue
  <2> QED
    BY <2>1, <2>2 DEF Queue
<1>7. BlockStays'
  <2>1. gotten \in Nat /\ gotten <= Available /\ tail + gotten <= Size
    BY DEF IInv, TypeOK, BlockStays
  <2>2. ASSUME NEW k \in 0 .. gotten - 1
        PROVE  buffer'[tail + k] = del + k
    <3>1. tail + k \in Cell /\ tail + k \notin head .. head + n - 1
      BY <1>1, <1>2, <2>1, <2>2 DEF Available, Cell, IInv, Places
    <3> QED
      BY <1>5, <2>2, <3>1 DEF IInv, BlockStays
  <2> QED
    BY <1>1, <1>4, <2>1, <2>2 DEF BlockStays
<1> QED
  BY <1>3, <1>6, <1>7 DEF IInv

(* Unwrapping moves the oldest bytes without changing their order.         *)
LEMMA GetKeeps ==
  ASSUME IInv, Get
  PROVE  IInv'
<1> USE RingAssumption
<1>1. /\ head \in Cell /\ tail \in Cell /\ put \in Nat /\ del \in Nat /\ gotten \in Nat
      /\ head' = head /\ put' = put /\ del' = del /\ tail' = FirstCell
      /\ gotten' = IF Block >= margin THEN Block ELSE gotten
  BY DEF IInv, TypeOK, Get
<1>2. CASE ~Unwraps
  <2>1. UNCHANGED <<head, tail, buffer, put, del>>
    BY <1>1, <1>2 DEF Get, FirstCell
  <2>2. Block \in Nat /\ Block <= Available /\ tail + Block <= Size
    BY <1>1, <1>2 DEF Block, Available, Rest, Cell, IInv, Places
  <2>3. \A k \in 0 .. Block - 1 : buffer[tail + k] = del + k
    <3>1. \A k \in 0 .. Block - 1 : CellOf(k) = tail + k /\ k \in 0 .. Available - 1
      BY <1>1, <2>2 DEF CellOf, Cell, Available
    <3> QED
      BY <3>1 DEF IInv, Queue
  <2>4. BlockStays'
    BY <1>1, <2>1, <2>2, <2>3 DEF IInv, BlockStays, Available
  <2> QED
    BY <1>1, <2>1, <2>2, <2>4 DEF IInv, TypeOK, Places, Queue, Available, CellOf
<1>3. CASE Unwraps
  <2>1. /\ head < tail /\ Rest \in 1 .. margin - 1 /\ FirstCell = margin - Rest
        /\ FirstCell >= 1 /\ FirstCell < margin /\ FirstCell \in Cell
        /\ tail = Size - Rest
    BY <1>1, <1>3 DEF Unwraps, Rest, FirstCell, Cell
  <2>2. \A i \in Cell : buffer'[i] = IF i \in FirstCell .. margin - 1
                                     THEN buffer[tail + i - FirstCell] ELSE buffer[i]
    BY <1>3 DEF Get
  <2>3. \A i \in FirstCell .. margin - 1 : tail + i - FirstCell \in Cell
    BY <1>1, <2>1 DEF Cell
  <2>4. buffer' \in [Cell -> Int]
    BY <1>3, <2>3 DEF Get, IInv, TypeOK
  <2>5. Block = head - FirstCell /\ Block \in Nat
    BY <1>1, <1>3, <2>1 DEF Block, Cell, IInv, Places
  <2>6. TypeOK' /\ Places'
    BY <1>1, <2>1, <2>4, <2>5 DEF IInv, TypeOK, Places
  <2>7. Available' = Available /\ Available = head - FirstCell
    BY <1>1, <2>1 DEF Available, Rest, Cell, IInv, Places
  <2>8. \A k \in 0 .. Available - 1 : buffer'[FirstCell + k] = del + k
    <3>1. ASSUME NEW k \in 0 .. Available - 1 PROVE buffer'[FirstCell + k] = del + k
      <4>1. FirstCell + k \in Cell /\ buffer[CellOf(k)] = del + k
        BY <1>1, <2>1, <2>7, <3>1 DEF Cell, IInv, Queue
      <4>2. CASE k < Rest
        <5>1. CellOf(k) = tail + k /\ FirstCell + k \in FirstCell .. margin - 1
          BY <1>1, <2>1, <3>1, <4>2 DEF CellOf, Cell
        <5> QED
          BY <1>1, <2>1, <2>2, <4>1, <5>1 DEF Cell
      <4>3. CASE k >= Rest
        <5>1. CellOf(k) = FirstCell + k /\ FirstCell + k \notin FirstCell .. margin - 1
          BY <1>1, <2>1, <3>1, <4>3 DEF CellOf, Cell
        <5> QED
          BY <2>2, <4>1, <5>1
      <4> QED
        BY <2>1, <3>1, <4>2, <4>3
    <3> QED
      BY <3>1
  <2>9. \A k \in 0 .. Available - 1 : CellOf(k)' = FirstCell + k
    BY <1>1, <2>1, <2>7 DEF CellOf, Cell
  <2>10. Queue'
    BY <1>1, <2>7, <2>8, <2>9 DEF IInv, Queue
  <2>11. BlockStays'
    <3>1. gotten' \in Nat /\ gotten' <= Available /\ FirstCell + gotten' <= Size
      BY <1>1, <2>1, <2>5, <2>7 DEF IInv, BlockStays, Cell
    <3> QED
      BY <1>1, <2>7, <2>8, <3>1 DEF BlockStays
  <2> QED
    BY <2>6, <2>10, <2>11 DEF IInv
<1> QED
  BY <1>2, <1>3

(* Deleting takes the oldest bytes away.                                   *)
LEMMA DelKeeps ==
  ASSUME IInv, NEW n \in 1 .. Size, Del(n)
  PROVE  IInv'
<1> USE RingAssumption
<1>1. /\ head \in Cell /\ tail \in Cell /\ put \in Nat /\ del \in Nat /\ gotten \in Nat
      /\ n \in Nat /\ n >= 1 /\ n <= gotten
      /\ head' = head /\ put' = put /\ buffer' = buffer
      /\ del' = del + n /\ gotten' = gotten - n
      /\ tail' = IF tail + n >= Size THEN margin ELSE tail + n
  BY DEF IInv, TypeOK, Del
<1>2. gotten <= Available /\ tail + gotten <= Size /\ tail + n <= Size
  BY <1>1 DEF IInv, BlockStays, Cell
<1>3. TypeOK' /\ Places'
  BY <1>1, <1>2 DEF IInv, TypeOK, Places, Cell, Available
<1>4. Available' = Available - n /\ Available \in Nat
  BY <1>1, <1>2 DEF Available, Cell, IInv, Places
<1>5. \A k \in 0 .. Available' - 1 : CellOf(k)' = CellOf(k + n)
  BY <1>1, <1>2, <1>4 DEF CellOf, Cell, Available, IInv, Places
<1>6. Queue'
  BY <1>1, <1>4, <1>5 DEF IInv, Queue
<1>7. BlockStays'
  <2>1. CASE tail + n >= Size
    <3>1. gotten' = 0
      BY <1>1, <1>2, <2>1 DEF Cell
    <3> QED
      BY <1>1, <1>2, <1>3, <1>4, <3>1 DEF BlockStays, TypeOK, Cell
  <2>2. CASE tail + n < Size
    <3>1. ASSUME NEW k \in 0 .. gotten' - 1 PROVE buffer'[tail' + k] = del' + k
      <4>1. n + k \in 0 .. gotten - 1 /\ tail' + k = tail + (n + k)
        BY <1>1, <2>2, <3>1 DEF Cell
      <4> QED
        BY <1>1, <4>1 DEF IInv, BlockStays
    <3> QED
      BY <1>1, <1>2, <1>4, <2>2, <3>1 DEF BlockStays, Cell
  <2> QED
    BY <1>1, <2>1, <2>2 DEF Cell
<1> QED
  BY <1>3, <1>6, <1>7 DEF IInv

LEMMA NextInv == IInv /\ [Next]_vars => IInv'
<1>1. ASSUME IInv, UNCHANGED vars PROVE IInv'
  <2>1. TypeOK' /\ Places' /\ Available' = Available
    BY <1>1 DEF vars, IInv, TypeOK, Places, Available
  <2>2. Queue'
    BY <1>1, <2>1 DEF vars, IInv, Queue, CellOf
  <2>3. BlockStays'
    BY <1>1, <2>1 DEF vars, IInv, BlockStays
  <2> QED
    BY <2>1, <2>2, <2>3 DEF IInv
<1> QED
  BY <1>1, ReadKeeps, GetKeeps, DelKeeps DEF Next

LEMMA Invariance == Spec => []IInv
BY InitInv, NextInv, PTL DEF Spec

(* The ring holds exactly the bytes that were read and not deleted, in     *)
(* their order (cRingBufferLinear::Read, Get and Del).                     *)
THEOREM RingIsQueue == Spec => []Queue
<1>1. IInv => Queue
  BY DEF IInv
<1> QED
  BY <1>1, Invariance, PTL

(* What Get returned stays in place until it is deleted.                   *)
THEOREM BlockIsStable == Spec => []BlockStays
<1>1. IInv => BlockStays
  BY DEF IInv
<1> QED
  BY <1>1, Invariance, PTL

(* A ring that holds at least margin bytes returns as many in one block.   *)
THEOREM RingYields == Spec => []GetYields
<1>1. IInv => GetYields
  <2> SUFFICES ASSUME IInv, Available >= margin PROVE Block >= margin
    BY DEF GetYields
  <2> USE RingAssumption
  <2>1. head \in Cell /\ tail \in Cell
    BY DEF IInv, TypeOK
  <2>2. CASE Unwraps
    BY <2>1, <2>2 DEF Block, Available, Unwraps, Rest, FirstCell, Cell
  <2>3. CASE ~Unwraps
    <3>1. Available <= Rest \/ Rest >= margin
      BY <2>1, <2>3 DEF Available, Unwraps, Rest, Cell
    <3> QED
      BY <2>1, <2>3, <3>1 DEF Block, Available, Rest, Cell
  <2> QED
    BY <2>2, <2>3
<1> QED
  BY <1>1, Invariance, PTL

-----------------------------------------------------------------------------
(***************************************************************************)
(* The file.                                                               *)
(***************************************************************************)

(* What a call deletes is at most what is left of its block, or nothing.   *)
LEMMA DelIsRingStep ==
  ASSUME IInv, NEW n \in Nat, Del(n)
  PROVE  [Next]_vars
<1> USE RingAssumption
<1>1. /\ head \in Cell /\ tail \in Cell /\ gotten \in Nat /\ del \in Nat
      /\ n <= gotten /\ tail + gotten <= Size
  BY DEF IInv, TypeOK, BlockStays, Del
<1>2. CASE n = 0
  BY <1>1, <1>2 DEF Del, vars, Cell
<1>3. CASE n # 0
  <2>1. n \in 1 .. Size
    BY <1>1, <1>3 DEF Cell
  <2> QED
    BY <2>1 DEF Next
<1> QED
  BY <1>2, <1>3

LEMMA StepIsRingStep ==
  ASSUME IInv, lastPacketsCount \in Nat, [FileNext]_allVars
  PROVE  [Next]_vars
<1>1. CASE UNCHANGED allVars
  BY <1>1 DEF allVars
<1>2. ASSUME NEW n \in 1 .. Size, Fill(n)
      PROVE  [Next]_vars
  BY <1>2 DEF Fill, Next
<1>3. CASE FillEnds
  BY <1>3 DEF FillEnds
<1>4. CASE DropDelivered
  <2>1. Least(lastPacketsCount * Packet, gotten) \in Nat
    BY <1>4, RingAssumption DEF DropDelivered, Least, Packet, IInv, TypeOK
  <2>2. PICK n \in Nat : Del(n)
    BY <1>4, <2>1 DEF DropDelivered
  <2> QED
    BY <2>2, DelIsRingStep
<1>5. CASE TakeBlock
  BY <1>5 DEF TakeBlock, Next
<1>6. CASE Resync
  <2>1. gotten \in Nat /\ Count \in Nat
    BY FileAssumption DEF IInv, TypeOK, Count, Least
  <2>2. PICK n \in Skips : Del(n)
    BY <1>6 DEF Resync
  <2>3. n \in Nat
    BY <2>1, <2>2 DEF Skips
  <2> QED
    BY <2>2, <2>3, DelIsRingStep
<1>7. CASE Decrypt
  BY <1>7 DEF Decrypt
<1>8. CASE Copy
  BY <1>8 DEF Copy
<1> QED
  BY <1>1, <1>2, <1>3, <1>4, <1>5, <1>6, <1>7, <1>8 DEF FileNext

(* A count of packets is a number.                                         *)
LEMMA PacketsIsNat == IInv => Packets \in Nat
<1> SUFFICES ASSUME IInv PROVE Packets \in Nat
  OBVIOUS
<1>1. Count \in Nat
  BY FileAssumption DEF IInv, TypeOK, Count, Least
<1>2. IsFiniteSet(0 .. Count)
  BY <1>1, FS_Interval
<1>3. Counted \subseteq 0 .. Count
  BY DEF Counted, LookedAt
<1> QED
  BY <1>2, <1>3, FS_Subset, FS_CardinalityType DEF Packets

(* IInv is the inductive invariant of the ring.                            *)
FileInv == IInv /\ lastPacketsCount \in Nat

LEMMA FileInvInit == FileInit => FileInv
BY InitInv DEF FileInit, FileInv

LEMMA FileInvStep == FileInv /\ [FileNext]_allVars => FileInv'
<1> SUFFICES ASSUME FileInv, [FileNext]_allVars PROVE FileInv'
  OBVIOUS
<1>1. IInv'
  BY StepIsRingStep, NextInv DEF FileInv
<1>2. lastPacketsCount' \in Nat
  BY PacketsIsNat DEF FileInv, FileNext, allVars, fileVars, Fill, FillEnds, DropDelivered,
                      TakeBlock, Resync, Decrypt, Copy
<1> QED
  BY <1>1, <1>2 DEF FileInv

LEMMA FileInvariance == FileSpec => []FileInv
BY FileInvInit, FileInvStep, PTL DEF FileSpec

(* The file implements the ring: each of its steps is a Read, a Get or a   *)
(* Del of the ring, or leaves the ring alone.                              *)
THEOREM FileUsesRing == FileSpec => Spec
<1>1. FileInit => Init
  BY DEF FileInit
<1>2. FileInv /\ [FileNext]_allVars => [Next]_vars
  BY StepIsRingStep DEF FileInv
<1> QED
  BY <1>1, <1>2, FileInvariance, PTL DEF FileSpec, Spec

(* So the ring of the file is a queue that gives away whole packets.       *)
THEOREM FileRingIsQueue == FileSpec => []Queue
BY FileUsesRing, RingIsQueue, PTL

(* The block of a call stays while the call descrambles and copies it.     *)
THEOREM FileBlockIsStable == FileSpec => []BlockStays
BY FileUsesRing, BlockIsStable, PTL

(* Get yields a margin's worth in one block whenever the ring holds it.    *)
THEOREM FileRingYields == FileSpec => []GetYields
BY FileUsesRing, RingYields, PTL

-----------------------------------------------------------------------------
(* The packets of a call fit into its block.                               *)
LEMMA PacketsFit == IInv => Packets * Packet <= gotten
<1> SUFFICES ASSUME IInv PROVE Packets * Packet <= gotten
  OBVIOUS
<1> DEFINE K == Count \div margin
<1>1. gotten \in Nat /\ Count \in Nat /\ Count <= gotten /\ margin \in Nat \ {0}
  BY FileAssumption, RingAssumption DEF IInv, TypeOK, Count, Least
<1>2. K \in Nat /\ K * margin <= Count /\ Count < (K + 1) * margin
  BY <1>1, SMT
<1>3. Counted \subseteq 0 .. K - 1
  <2>1. ASSUME NEW j \in 0 .. Count, (j + 1) * margin <= Count
        PROVE  j \in 0 .. K - 1
    <3>1. (j + 1) * margin < (K + 1) * margin
      BY <1>1, <1>2, <2>1
    <3>2. j + 1 < K + 1
      BY <1>1, <1>2, <3>1, SMT
    <3> QED
      BY <1>2, <3>2
  <2> QED
    BY <2>1 DEF Counted, LookedAt, Packet
<1>4. Cardinality(0 .. K - 1) = K /\ IsFiniteSet(0 .. K - 1)
  BY <1>2, FS_Interval
<1>5. Packets \in Nat /\ Packets <= K
  BY <1>3, <1>4, FS_Subset, FS_CardinalityType DEF Packets
<1>6. Packets * margin <= K * margin
  BY <1>1, <1>2, <1>5, SMT
<1> QED
  BY <1>1, <1>2, <1>5, <1>6 DEF Packet

(* What the calls have handed on or left out is what is deleted, plus what *)
(* the last call handed on while it is still to be deleted.                *)
Length == lastPacketsCount * Packet
OrderInv ==
  /\ pc \in {"fill", "drop", "get", "block", "copy"} /\ delivered \in BOOLEAN
  /\ Length \in Nat
  /\ delivered => Length <= gotten
  /\ seen = IF delivered /\ pc # "copy" THEN del + Length ELSE del
  /\ pc = "copy" => delivered
  /\ pc \in {"get", "block"} => ~delivered

LEMMA OrderInit == FileInit => OrderInv
<1> SUFFICES ASSUME FileInit PROVE OrderInv
  OBVIOUS
<1>1. Length = 0
  BY RingAssumption DEF FileInit, Length, Packet
<1>2. del = 0 /\ gotten = 0 /\ seen = 0 /\ pc = "fill" /\ delivered = FALSE
  BY DEF FileInit, Init
<1> QED
  BY <1>1, <1>2 DEF OrderInv

LEMMA OrderStep == FileInv /\ OrderInv /\ [FileNext]_allVars => OrderInv'
<1> SUFFICES ASSUME FileInv, OrderInv, [FileNext]_allVars PROVE OrderInv'
  OBVIOUS
<1> USE DEF OrderInv
<1>0. del \in Nat /\ gotten \in Nat /\ lastPacketsCount \in Nat
  BY DEF FileInv, IInv, TypeOK
<1>1. CASE UNCHANGED allVars
  BY <1>1 DEF allVars, vars, fileVars, Length, Packet
<1>2. ASSUME NEW n \in 1 .. Size, Fill(n)
      PROVE  OrderInv'
  BY <1>2 DEF Fill, Read, fileVars, Length, Packet
<1>3. CASE FillEnds
  BY <1>3 DEF FillEnds, vars, Length, Packet
<1>4. CASE DropDelivered
  <2>1. Length' = Length
    BY <1>4 DEF DropDelivered, Length, Packet
  <2>2. del' = del + (IF delivered THEN Length ELSE 0)
    BY <1>0, <1>4 DEF DropDelivered, Del, Least, Length
  <2>3. pc' \in {"fill", "get"} /\ delivered' = FALSE /\ seen' = seen /\ pc = "drop"
    BY <1>4 DEF DropDelivered
  <2>4. seen' = del'
    <3>1. CASE delivered
      BY <2>2, <2>3, <3>1
    <3>2. CASE ~delivered
      BY <1>0, <2>2, <2>3, <3>2
    <3> QED
      BY <3>1, <3>2
  <2> QED
    BY <2>1, <2>3, <2>4
<1>5. CASE TakeBlock
  BY <1>5 DEF TakeBlock, Get, Length, Packet
<1>6. CASE Resync
  <2>1. gotten \in Nat /\ Count \in Nat
    BY <1>0, FileAssumption DEF Count, Least
  <2>2. PICK n \in Skips : Del(n) /\ seen' = seen + n
    BY <1>6 DEF Resync
  <2>3. n \in Nat
    BY <2>1, <2>2 DEF Skips
  <2>4. pc = "block" /\ pc' = "fill" /\ delivered' = delivered /\ Length' = Length
    BY <1>6 DEF Resync, Length, Packet
  <2> QED
    BY <1>0, <2>2, <2>3, <2>4 DEF Del
<1>7. CASE Decrypt
  <2>1. /\ pc = "block" /\ pc' = IF Packets > 0 THEN "copy" ELSE "fill"
        /\ delivered' = TRUE /\ seen' = seen /\ del' = del /\ gotten' = gotten
        /\ lastPacketsCount' = Packets /\ Length' = Packets * Packet
    BY <1>7 DEF Decrypt, vars, Length, Packet
  <2>2. Packets \in Nat /\ Length' <= gotten
    BY <2>1, PacketsIsNat, PacketsFit DEF FileInv
  <2>3. Length' \in Nat
    BY <2>1, <2>2, RingAssumption, SMT DEF Packet
  <2>4. CASE Packets > 0
    BY <1>0, <2>1, <2>2, <2>3, <2>4
  <2>5. CASE Packets = 0
    <3>1. Length' = 0
      BY <2>1, <2>5, RingAssumption DEF Packet
    <3> QED
      BY <1>0, <2>1, <2>2, <2>3, <2>5, <3>1
  <2> QED
    BY <2>2, <2>4, <2>5
<1>8. CASE Copy
  <2>1. Length' = Length /\ seen' = seen + Length
    BY <1>8 DEF Copy, Length, Packet
  <2> QED
    BY <1>0, <1>8, <2>1 DEF Copy, vars
<1> QED
  BY <1>1, <1>2, <1>3, <1>4, <1>5, <1>6, <1>7, <1>8 DEF FileNext

(* Packets are handed on one after the other: none twice and none lost.    *)
THEOREM PacketsInOrder == FileSpec => []HandedOnInOrder
<1>1. FileInv /\ OrderInv => HandedOnInOrder
  <2> SUFFICES ASSUME FileInv, OrderInv, pc = "copy", NEW j \in 0 .. lastPacketsCount - 1
               PROVE  First(j) = seen + j * Packet
    BY DEF HandedOnInOrder
  <2>1. del \in Nat /\ gotten \in Nat /\ lastPacketsCount \in Nat /\ Length <= gotten /\ seen = del
    BY DEF FileInv, IInv, TypeOK, OrderInv
  <2>2. j * Packet \in Nat /\ j * Packet < Length
    BY <2>1, RingAssumption, SMT DEF Length, Packet
  <2>3. j * Packet \in 0 .. gotten - 1
    BY <2>1, <2>2 DEF OrderInv
  <2> QED
    BY <2>1, <2>3 DEF FileInv, IInv, BlockStays, First
<1> QED
  BY <1>1, FileInvariance, OrderInit, OrderStep, PTL DEF FileSpec


-----------------------------------------------------------------------------
(***************************************************************************)
(* Descrambling.  A packet that is marked as clear was descrambled once,   *)
(* one that is not was never; a block that has been looked at has no       *)
(* scrambled packet left among those that are handed on.                   *)
(***************************************************************************)
OneIndex == stream.second = {}

OnceInv ==
  /\ put <= MaxByte /\ DOMAIN times = 0 .. MaxByte - 1
  /\ OneIndex =>
       /\ \A k \in 0 .. MaxByte - 1 : times[k] = IF k \in clear THEN 1 ELSE 0
       /\ pc = "copy" => \A j \in 0 .. lastPacketsCount - 1 :
                           First(j) \in stream.enc => First(j) \in clear

LEMMA PacketsAreLookedAt == IInv => Packets <= Looked /\ Packets \in Nat /\ Looked \in Nat
<1> SUFFICES ASSUME IInv PROVE Packets <= Looked /\ Packets \in Nat /\ Looked \in Nat
  OBVIOUS
<1>1. Count \in Nat
  BY FileAssumption DEF IInv, TypeOK, Count, Least
<1>2. IsFiniteSet(LookedAt)
  <2>1. IsFiniteSet(0 .. Count)
    BY <1>1, FS_Interval
  <2>2. LookedAt \subseteq 0 .. Count
    BY DEF LookedAt
  <2> QED
    BY <2>1, <2>2, FS_Subset
<1>3. Counted \subseteq LookedAt
  BY DEF Counted
<1> QED
  BY <1>2, <1>3, FS_Subset, FS_CardinalityType DEF Packets, Looked

(* With one key index, all that is descrambled is marked.                  *)
LEMMA AllMarked ==
  ASSUME OneIndex
  PROVE  Cleared = {First(j) : j \in Encrypted(Looked)}
BY DEF Cleared, OneIndex

LEMMA OnceInit == FileInit => OnceInv
BY RingAssumption DEF FileInit, Init, OnceInv

LEMMA OnceStep == FileInv /\ OnceInv /\ [FileNext]_allVars => OnceInv'
<1> SUFFICES ASSUME FileInv, OnceInv, [FileNext]_allVars PROVE OnceInv'
  OBVIOUS
<1>1. CASE UNCHANGED allVars
  BY <1>1 DEF OnceInv, OneIndex, First, Packet, allVars, vars, fileVars
<1>2. ASSUME NEW n \in 1 .. Size, Fill(n)
      PROVE  OnceInv'
  <2>1. pc = "fill" /\ UNCHANGED fileVars /\ put' <= MaxByte
    BY <1>2 DEF Fill, Read
  <2> QED
    BY <2>1 DEF OnceInv, OneIndex, fileVars
<1>3. CASE FillEnds
  BY <1>3 DEF OnceInv, OneIndex, FillEnds, vars
<1>4. CASE DropDelivered
  <2>1. pc' # "copy" /\ UNCHANGED <<put, stream, clear, times>>
    BY <1>4 DEF DropDelivered, Del
  <2> QED
    BY <2>1 DEF OnceInv, OneIndex
<1>5. CASE TakeBlock
  BY <1>5 DEF OnceInv, OneIndex, TakeBlock, Get
<1>6. CASE Resync
  <2>1. pc' # "copy" /\ UNCHANGED <<put, stream, clear, times>>
    BY <1>6 DEF Resync, Del
  <2> QED
    BY <2>1 DEF OnceInv, OneIndex
<1>7. CASE Decrypt
  <2> DEFINE E == {First(j) : j \in Encrypted(Looked)}
  <2>1. /\ clear' = clear \cup Cleared /\ lastPacketsCount' = Packets
        /\ times' = [k \in DOMAIN times |-> IF k \in E THEN times[k] + 1 ELSE times[k]]
        /\ UNCHANGED <<put, stream>>
        /\ \A j : First(j)' = First(j)
    BY <1>7 DEF Decrypt, vars, First, Packet
  <2>2. E \cap clear = {}
    BY DEF Encrypted
  <2>3. ASSUME OneIndex, NEW j \in 0 .. Packets - 1, First(j) \in stream.enc
        PROVE  First(j) \in clear'
    <3>1. j \in 0 .. Looked - 1
      BY PacketsAreLookedAt DEF FileInv
    <3>2. First(j) \in clear \/ First(j) \in E
      BY <2>3, <3>1 DEF Encrypted
    <3> QED
      BY <2>1, <2>3, <3>2, AllMarked
  <2>4. OneIndex => clear' = clear \cup E
    BY <2>1, AllMarked
  <2> HIDE DEF E
  <2>5. ASSUME OneIndex, NEW k \in 0 .. MaxByte - 1
        PROVE  times'[k] = IF k \in clear' THEN 1 ELSE 0
    BY <2>1, <2>2, <2>4, <2>5 DEF OnceInv
  <2>6. OneIndex' <=> OneIndex
    BY <2>1 DEF OneIndex
  <2>7. DOMAIN times' = 0 .. MaxByte - 1 /\ put' <= MaxByte
    BY <2>1 DEF OnceInv
  <2> QED
    BY <2>1, <2>3, <2>5, <2>6, <2>7 DEF OnceInv
<1>8. CASE Copy
  BY <1>8 DEF OnceInv, OneIndex, Copy, vars
<1> QED
  BY <1>1, <1>2, <1>3, <1>4, <1>5, <1>6, <1>7, <1>8 DEF FileNext

(* Every scrambled packet that is handed on was descrambled once, and is   *)
(* marked, also the one that was left for another call because it made a   *)
(* batch full: for any batch, ring and stream on one key index.            *)
THEOREM ScrambledOnce == FileSpec => []DescrambledOnce
<1>1. FileInv /\ OrderInv /\ OnceInv => DescrambledOnce
  <2> SUFFICES ASSUME FileInv, OrderInv, OnceInv, pc = "copy", OneIndex,
                      NEW j \in 0 .. lastPacketsCount - 1, First(j) \in stream.enc
               PROVE  times[First(j)] = 1 /\ First(j) \in clear
    BY DEF DescrambledOnce, OneIndex
  <2>1. First(j) \in clear
    BY DEF OnceInv
  <2>2. First(j) \in 0 .. MaxByte - 1
    <3>1. /\ del \in Nat /\ gotten \in Nat /\ lastPacketsCount \in Nat /\ Length <= gotten
          /\ put \in Nat /\ put <= MaxByte /\ gotten <= put - del
      BY DEF FileInv, IInv, TypeOK, OrderInv, OnceInv, Queue, BlockStays
    <3>2. j * Packet \in Nat /\ j * Packet < Length
      BY <3>1, RingAssumption, SMT DEF Length, Packet
    <3>3. First(j) = del + j * Packet
      BY <3>1, <3>2 DEF FileInv, IInv, BlockStays, First, OrderInv
    <3> DEFINE x == j * Packet
    <3> HIDE DEF x
    <3>4. x \in Nat /\ x < Length /\ First(j) = del + x
      BY <3>2, <3>3 DEF x
    <3>5. Length \in Nat
      BY DEF OrderInv
    <3> QED
      BY <3>1, <3>4, <3>5, RingAssumption
  <2> QED
    BY <2>1, <2>2 DEF OnceInv
<1> QED
  BY <1>1, FileInvariance, OrderInit, OrderStep, OnceInit, OnceStep, PTL DEF FileSpec
=============================================================================
