----------------------------- MODULE DecryptFile -----------------------------
(***************************************************************************)
(* eDecryptRawFile::read (lib/base/rawfile.cpp) over the ring of TSRing,   *)
(* with the descrambler cDeCSA::Decrypt (lib/dvb/decsa.cpp): one call      *)
(* fills the ring from the demux, deletes what the last call handed on,    *)
(* takes the next block, finds its packets, descrambles them in place and  *)
(* copies them to the reader.  A call holds m_lock from start to end, so   *)
(* calls of the recording and of the playback thread follow each other.    *)
(*                                                                         *)
(* A packet is known by the number of its first byte, and it is as long as *)
(* the margin of the ring.                                                 *)
(***************************************************************************)
EXTENDS TSRing, FiniteSets

CONSTANTS
  Batch,      (* bs_size and cs: packets that are descrambled at a time    *)
  Low,        (* the ring is filled to this many bytes, in the code 64 KiB *)
  MaxRead,    (* of at most this many a time, 32 KiB                       *)
  Cap,        (* and a block is cut to this many, 32 KiB                   *)
  Streams     (* what may arrive: [sync: the bytes that are 0x47, enc: the *)
              (* scrambled packets, second: those of them on a second key  *)
              (* index, pes: the packets in which a PES packet begins]     *)

ASSUME FileAssumption ==
  /\ Batch \in Nat \ {0} /\ Batch * margin <= Low
  /\ Low \in Nat /\ MaxRead \in 1 .. Size /\ Low + MaxRead < Size - margin
  /\ Cap \in Nat /\ margin <= Cap

VARIABLES
  stream,     (* the stream that arrives                                   *)
  pc,         (* where the call is                                         *)
  delivered, lastPacketsCount, stream_correct,
  clear,      (* packets whose scrambling bits have been cleared           *)
  times,      (* history: how often each packet was descrambled            *)
  seen        (* history: the first byte no call has handed on or left out *)

fileVars == <<stream, pc, delivered, lastPacketsCount, stream_correct, clear, times, seen>>
allVars  == <<vars, fileVars>>

Packet == margin
Least(a, b) == IF a < b THEN a ELSE b

FileInit ==
  /\ Init
  /\ stream \in Streams
  /\ pc = "fill"
  /\ delivered = FALSE /\ lastPacketsCount = 0 /\ stream_correct = FALSE
  /\ clear = {} /\ times = [k \in 0 .. MaxByte - 1 |-> 0]
  /\ seen = 0

-----------------------------------------------------------------------------
(* read() fills the ring ...                                               *)
Fill(n) ==
  /\ pc = "fill" /\ Available < Low /\ n <= MaxRead
  /\ Read(n)
  /\ UNCHANGED fileVars

(* ... until it is filled or the demux has no more for now ...             *)
FillEnds == pc = "fill" /\ pc' = "drop" /\ UNCHANGED <<vars, stream, delivered,
              lastPacketsCount, stream_correct, clear, times, seen>>

DropDelivered_Again ==
  /\ pc = "drop"
  /\ Del(IF delivered THEN Least(lastPacketsCount * Packet, gotten) ELSE 0)
  /\ pc' = IF Available' < Batch * Packet THEN "fill" ELSE "get"
  /\ UNCHANGED <<delivered, stream, lastPacketsCount, stream_correct, clear, times, seen>>

(* ... getPackets deletes what the last call handed on and has nothing     *)
(* while there is less than a batch ...                                    *)
DropDelivered ==
  /\ pc = "drop"
  /\ Del(IF delivered THEN Least(lastPacketsCount * Packet, gotten) ELSE 0)
  /\ delivered' = FALSE
  /\ pc' = IF Available' < Batch * Packet THEN "fill" ELSE "get"
  /\ UNCHANGED <<stream, lastPacketsCount, stream_correct, clear, times, seen>>

(* ... takes a block, which there is: at least a packet is available ...   *)
TakeBlock ==
  /\ pc = "get"
  /\ Get
  /\ pc' = "block"
  /\ UNCHANGED <<stream, delivered, lastPacketsCount, stream_correct, clear, times, seen>>

Count   == Least(gotten, Cap)
Sync(k) == buffer[tail + k] \in stream.sync

(* The byte a packet after byte i, where the scan asks whether it is 0x47: *)
(* only at the end of the block or behind it, where it may be anything.    *)
Certain(i)  == Sync(i) /\ \/ i + Packet = Count
                          \/ i + Packet > Count /\ i + Packet < gotten /\ Sync(i + Packet)
Possible(i) == Sync(i) /\ i + Packet >= Count /\ (i + Packet < gotten => Certain(i))
Skips ==
  {i \in 1 .. Count - 1 : Possible(i) /\ \A j \in 1 .. i - 1 : ~Certain(j)}
    \cup {i \in {Count} : \A j \in 1 .. Count - 1 : ~Certain(j)}

(* ... skips to the next packet if none starts here, for another call ...  *)
Resync ==
  /\ pc = "block" /\ ~Sync(0)
  /\ \E n \in Skips : Del(n) /\ seen' = seen + n
  /\ pc' = "fill"
  /\ UNCHANGED <<stream, delivered, lastPacketsCount, stream_correct, clear, times>>

(* Decrypt looks at the packets up to the first without a sync byte, or up *)
(* to the one that makes a batch full, which it descrambles as well but    *)
(* leaves for another call.                                                *)
First(j)     == buffer[tail + j * Packet]
Encrypted(n) == {j \in 0 .. n - 1 : First(j) \in stream.enc \ clear}
LookedAt ==
  {j \in 0 .. Count : /\ (j + 1) * Packet <= Count
                      /\ \A i \in 0 .. j : Sync(i * Packet)
                      /\ Cardinality(Encrypted(j)) < Batch}
Counted == {j \in LookedAt : Cardinality(Encrypted(j + 1)) < Batch}
Looked  == Cardinality(LookedAt)
Packets == Cardinality(Counted)

Cleared_NotLast == {First(j) : j \in Encrypted(Packets)}

(* Only packets on the key index of the first are marked as clear.         *)
Cleared ==
  {First(j) : j \in {k \in Encrypted(Looked) :
     LET first == CHOOSE f \in Encrypted(Looked) : \A g \in Encrypted(Looked) : f <= g
     IN (First(k) \in stream.second) = (First(first) \in stream.second)}}

(* ... and descrambles the packets of the block in place ...               *)
Decrypt ==
  /\ pc = "block" /\ Sync(0)
  /\ clear' = clear \cup Cleared
  /\ times' = [k \in DOMAIN times |->
                 IF k \in {First(j) : j \in Encrypted(Looked)} THEN times[k] + 1 ELSE times[k]]
  /\ lastPacketsCount' = Packets
  /\ delivered' = TRUE
  /\ pc' = IF Packets > 0 THEN "copy" ELSE "fill"
  /\ UNCHANGED <<vars, stream, stream_correct, seen>>

(* ... and read() copies them, the first time from the start of a PES      *)
(* packet on; it leaves out what comes before.                             *)
Copy ==
  /\ pc = "copy"
  /\ stream_correct' = (stream_correct \/ \E j \in 0 .. lastPacketsCount - 1 :
                                            First(j) \in stream.pes)
  /\ seen' = seen + lastPacketsCount * Packet
  /\ pc' = "fill"
  /\ UNCHANGED <<vars, stream, delivered, lastPacketsCount, clear, times>>

FileNext ==
  \/ \E n \in 1 .. Size : Fill(n)
  \/ FillEnds \/ DropDelivered \/ TakeBlock \/ Resync \/ Decrypt \/ Copy

FileSpec == FileInit /\ [][FileNext]_allVars

-----------------------------------------------------------------------------
(* A call hands on the packets that follow what the calls before it handed *)
(* on or left out: none is handed on twice and none is lost, whatever was  *)
(* read, unwrapped and skipped in between.                                 *)
HandedOnInOrder ==
  pc = "copy" => \A j \in 0 .. lastPacketsCount - 1 : First(j) = seen + j * Packet

(* A scrambled packet has been descrambled exactly once when it is handed  *)
(* on, and its scrambling bits are cleared, also the packet that made the  *)
(* batch full and was left for another call.  (If all are on one index.)   *)
DescrambledOnce ==
  pc = "copy" /\ stream.second = {} =>
    \A j \in 0 .. lastPacketsCount - 1 :
      LET k == First(j)
      IN k \in stream.enc => times[k] = 1 /\ k \in clear
===============================================================================
