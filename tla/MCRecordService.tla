--------------------------- MODULE MCRecordService ---------------------------
(* Instances of RecordService for TLC.                                     *)
EXTENDS RecordService

(* Two versions of a program table, which share a PID, and a service cache *)
(* that is out of date.                                                    *)
MCProgram == {{"video", "audio"}, {"video", "ac3"}}
MCCached  == {"video", "old"}

(* DVB services with and without a PMT and a cache, and a stream.          *)
MCKinds ==
  [usePMT : BOOLEAN, cache : BOOLEAN, pvr : {FALSE}]
  \cup [usePMT : {TRUE}, cache : {FALSE}, pvr : {TRUE}]
=============================================================================
