---------------------------- MODULE MCDecryptFile ----------------------------
(* Instances of DecryptFile for TLC.                                       *)
EXTENDS DecryptFile

(* Packets of three bytes: in step from the first byte or the second on,   *)
(* or out of step after a byte that was lost; with a 0x47 in a packet.     *)
InStep   == {0, 3, 6, 9, 12, 15, 18, 21, 24, 27, 30, 33, 36}
LateStep == {1, 4, 7, 10, 13, 16, 19, 22, 25, 28, 31, 34}
Broken   == {0, 3, 6, 8, 11, 14, 16, 17, 20, 23, 26, 29, 32, 35}
All      == InStep \cup LateStep \cup Broken

MCStreams ==
  {[sync |-> s, enc |-> e, second |-> {}, pes |-> {6, 10, 14}] :
     s \in {InStep, LateStep, Broken}, e \in {All, {3, 6, 9, 10, 14, 17, 18, 24, 25, 26, 33, 34}}}
  \cup {[sync |-> InStep, enc |-> InStep, second |-> {3, 9}, pes |-> {}]}
==============================================================================
