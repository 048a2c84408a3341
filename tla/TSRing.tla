-------------------------------- MODULE TSRing --------------------------------
(***************************************************************************)
(* cRingBufferLinear (lib/base/tsRingbuffer.cpp), the ring that            *)
(* eDecryptRawFile fills from the demux and empties into the recording and *)
(* playback threads (lib/base/rawfile.cpp).  The byte with number k is the *)
(* k-th byte read; read and get run on one thread at a time (m_lock), in   *)
(* any order.                                                              *)
(***************************************************************************)
EXTENDS Integers

CONSTANTS Size,     (* of the buffer                                       *)
          margin,   (* bytes kept free at its start to unwrap a packet     *)
          MaxByte   (* bound on the bytes that arrive                      *)

ASSUME RingAssumption ==
  /\ Size \in Nat /\ margin \in Nat \ {0} /\ 2 * margin <= Size /\ Size > margin + 1
  /\ MaxByte \in Nat

VARIABLES head, tail,   (* where the next byte goes, and the oldest one is  *)
          gotten,       (* what is left of the block the last Get returned  *)
          buffer,       (* the number of the byte in each cell, -1 for none *)
          put, del      (* history: bytes read into and deleted from it     *)

vars == <<head, tail, gotten, buffer, put, del>>

Cell == 0 .. Size - 1

TypeOK ==
  /\ head \in Cell /\ tail \in Cell /\ gotten \in Nat
  /\ buffer \in [Cell -> Int]
  /\ put \in Nat /\ del \in Nat

Init ==
  /\ head = margin /\ tail = margin /\ gotten = 0
  /\ buffer = [i \in Cell |-> -1]
  /\ put = 0 /\ del = 0

Available_NoMargin == IF head >= tail THEN head - tail ELSE Size + head - tail

Available == IF head >= tail THEN head - tail ELSE Size + head - tail - margin

(* The consecutive cells that Read may fill.                               *)
Room ==
  IF tail > head THEN tail - head - 1
  ELSE IF tail <= margin THEN Size - head - 1 ELSE Size - head

(* Read: one read() call that delivers n bytes.                            *)
Read(n) ==
  /\ n <= Room /\ put + n <= MaxByte
  /\ buffer' = [i \in Cell |-> IF i \in head .. head + n - 1 THEN put + i - head ELSE buffer[i]]
  /\ head' = IF head + n >= Size THEN margin ELSE head + n
  /\ put' = put + n
  /\ UNCHANGED <<tail, gotten, del>>

Unwraps_Never == FALSE

(* Get, first half: a packet that wraps around is made consecutive by      *)
(* copying its first part in front of the margin.                          *)
Rest    == Size - tail
Unwraps == Rest < margin /\ head < tail
FirstCell == IF Unwraps THEN margin - Rest ELSE tail

(* The block from there on, cut at the end of the buffer.                  *)
Block ==
  IF Unwraps THEN head - FirstCell
  ELSE IF Available > Rest THEN Rest ELSE Available

Get ==
  /\ Block >= margin \/ Unwraps
  /\ buffer' = IF Unwraps
               THEN [i \in Cell |-> IF i \in FirstCell .. margin - 1
                                    THEN buffer[tail + i - FirstCell] ELSE buffer[i]]
               ELSE buffer
  /\ tail' = FirstCell
  /\ gotten' = IF Block >= margin THEN Block ELSE gotten
  /\ UNCHANGED <<head, put, del>>

(* Del of n bytes of the block.                                            *)
Del(n) ==
  /\ n <= gotten
  /\ tail' = IF tail + n >= Size THEN margin ELSE tail + n
  /\ gotten' = gotten - n
  /\ del' = del + n
  /\ UNCHANGED <<head, buffer, put>>

Next == Get \/ \E n \in 1 .. Size : Read(n) \/ Del(n)

Spec == Init /\ [][Next]_vars

-----------------------------------------------------------------------------
(* The ring is a queue: it holds exactly the bytes that were read and not  *)
(* deleted, in their order, from tail on and around the end; a full ring   *)
(* is never taken for an empty one and no byte is overwritten.             *)
CellOf(k) == IF tail + k < Size THEN tail + k ELSE tail + k - Size + margin
Queue ==
  /\ Available = put - del
  /\ \A k \in 0 .. Available - 1 : buffer[CellOf(k)] = del + k

(* The block that Get returned, or what Del has left of it, is consecutive *)
(* and full of the oldest bytes, also when Read has been called since.     *)
BlockStays ==
  /\ gotten <= Available /\ tail + gotten <= Size
  /\ \A k \in 0 .. gotten - 1 : buffer[tail + k] = del + k

(* tsRingbuffer.h: the ring is "guaranteed to return at least Margin bytes *)
(* in one consecutive block", whenever it holds that many.                 *)
GetYields == Available >= margin => Block >= margin
===============================================================================
