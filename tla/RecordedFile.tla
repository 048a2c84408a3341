----------------------------- MODULE RecordedFile -----------------------------
(***************************************************************************)
(* What a recorder promises about the file it writes: the stream is taken  *)
(* chunk by chunk, and every chunk that reaches the file reaches it once,  *)
(* at its own place.  Chunks may arrive out of order and may be lost.      *)
(***************************************************************************)
EXTENDS Naturals

CONSTANTS MaxChunk,   (* bound on the length of the stream                 *)
          Hole        (* what a place holds that was never written         *)

VARIABLES taken,      (* chunks 0 .. taken - 1 have been accepted          *)
          file        (* the chunk at each place of the file               *)

Place == 0 .. MaxChunk - 1

Init == taken = 0 /\ file = [o \in Place |-> Hole]

Take == taken < MaxChunk /\ taken' = taken + 1 /\ UNCHANGED file

Store(o) ==
  /\ o < taken
  /\ file[o] = Hole
  /\ file' = [file EXCEPT ![o] = o]
  /\ UNCHANGED taken

Next == Take \/ \E o \in Place : Store(o)

Spec == Init /\ [][Next]_<<taken, file>>
===============================================================================
