------------------------------- MODULE DVBScan -------------------------------
(***************************************************************************)
(* The transponder scan: eDVBScan (lib/dvb/scan.cpp) with its section      *)
(* tables (lib/dvb/esection.cpp), on a raw channel, as eComponentScan      *)
(* starts it.                                                              *)
(*                                                                         *)
(* All of it runs on the main loop.  What makes it hard is that every      *)
(* table may come, give up or time out in any order, that tables add       *)
(* transponders to the list that is being worked off, and that the list of *)
(* programs (m_pmts_to_read) is filled by the PAT, walked over by the PMTs *)
(* and shortened by the SDT at the same time.                              *)
(***************************************************************************)
EXTENDS Integers, SequencesExt

CONSTANTS
  Param,      (* what a transponder is tuned with: its frequency f in MHz  *)
              (* and the rest v of its parameters, which may be "auto"     *)
  Air,        (* what is received at a frequency: the transponder's id,    *)
              (* the programs of its PAT and of its SDT, those that are    *)
              (* clear, and the list of transponders in its NIT            *)
  Initial,    (* the lists of transponders a user may start with           *)
  FlagSets,   (* the flags: sets of "network", "bat", "clear" (the list on *)
              (* the first NIT), "onlyfree"                                *)
  Faults,     (* "tune": the frontend refuses a transponder at once;       *)
              (* "drop": a lock is lost before the time for tuning is over *)
  NoProgram

ASSUME ScanAssumption ==
  /\ \A p \in Param : p.f \in Nat /\ p.f \in DOMAIN Air
  /\ \A f \in DOMAIN Air : /\ Air[f].pat \cup Air[f].sdt \subseteq Nat
                           /\ Air[f].nit \in Seq(Param)
  /\ Initial \subseteq Seq(Param) \ {<<>>}
  /\ \A g \in FlagSets : g \subseteq {"network", "bat", "clear", "onlyfree"}
  /\ Faults \subseteq {"tune", "drop"} /\ NoProgram \notin Nat

VARIABLES
  scan,       (* the eDVBScan                                              *)
  heard,      (* history: the clear programs whose PMT came                *)
  missed      (* history: transponders on which a PMT did not come         *)

vars == <<scan, heard, missed>>

Table == {"PAT", "SDT", "NIT", "BAT"}
Program == UNION {Air[f].pat \cup Air[f].sdt : f \in DOMAIN Air}
Ids == {Air[f].id : f \in DOMAIN Air}
Services == Ids \X Program

(* flags, toScan, scanned, unavailable, current: m_flags and the lists of  *)
(* transponders; locked: m_channel_state is state_ok; ready, valid: the    *)
(* bits of m_ready; table: m_PAT, m_SDT, m_NIT, m_BAT; pmts, scrambled:    *)
(* m_pmts_to_read and those marked in it; at, running, abort:              *)
(* m_pmt_in_progress, m_pmt_running, m_abort_current_pmt; pmt, error:      *)
(* whether there is an m_PMT, which then reads the program at, and its     *)
(* error; chid: m_chid_current is set; services, known: m_new_services,    *)
(* m_new_channels; fe, window: the state of the channel, and whether the   *)
(* time for tuning (m_timeout of the frontend) is running, lock or no lock.*)
States ==
  [flags : SUBSET {"network", "bat", "clear", "onlyfree"},
   toScan : Seq(Param), scanned : Seq(Param), unavailable : SUBSET Param,
   current : Param, locked : BOOLEAN,
   ready : SUBSET Table, valid : SUBSET Table, table : [Table -> {"off", "reading", "late"}],
   pmts : SUBSET Program, scrambled : SUBSET Program,
   at : Program \cup {NoProgram}, running : BOOLEAN, abort : BOOLEAN,
   pmt : BOOLEAN, error : BOOLEAN,
   chid : BOOLEAN, services : SUBSET Services, known : SUBSET Ids,
   fe : {"tuning", "ok", "unavailable"}, window : BOOLEAN,
   end : {"no", "finish", "crash"}]

TypeOK == scan \in States /\ heard \subseteq Services /\ missed \subseteq Ids

Here(s) == Air[s.current.f]
Needed(s) ==
  {"PAT", "SDT"} \cup (IF "network" \in s.flags THEN {"NIT"} ELSE {})
                 \cup (IF "bat" \in s.flags THEN {"BAT"} ELSE {})

-----------------------------------------------------------------------------
(* The lists of transponders.                                              *)

(* sameChannel: less than 4 MHz apart; an exact comparison also looks at   *)
(* the other parameters, where both are given.                             *)
Same(a, b) == a.f - b.f < 4 /\ b.f - a.f < 4
SameExact(a, b) == Same(a, b) /\ (a.v = b.v \/ "auto" \in {a.v, b.v})

Without(list, p) ==
  LET rest[n \in 0 .. Len(list)] ==
        IF n = 0 THEN <<>>
        ELSE IF Same(list[n], p) THEN rest[n - 1] ELSE Append(rest[n - 1], list[n])
  IN rest[Len(list)]

(* The first entry for the same transponder is updated, others are removed. *)
Updated(list, p) ==
  LET i == CHOOSE j \in DOMAIN list : Same(list[j], p) /\ \A k \in 1 .. j - 1 : ~Same(list[k], p)
  IN SubSeq(list, 1, i - 1) \o <<p>> \o Without(SubSeq(list, i + 1, Len(list)), p)

addChannelToScan_Anew(s, p) ==
  IF \E q \in Range(s.toScan) : Same(q, p) THEN [s EXCEPT !.toScan = Updated(@, p)]
  ELSE IF (\E q \in s.unavailable : SameExact(q, p)) \/ Same(s.current, p)
  THEN s
  ELSE [s EXCEPT !.toScan = <<p>> \o @]

addChannelToScan(s, p) ==
  IF \E q \in Range(s.toScan) : Same(q, p) THEN [s EXCEPT !.toScan = Updated(@, p)]
  ELSE IF \/ \E q \in Range(s.scanned) : Same(q, p)
          \/ \E q \in s.unavailable : SameExact(q, p)
          \/ Same(s.current, p)
  THEN s
  ELSE [s EXCEPT !.toScan = <<p>> \o @]

(* The transponders of a list, one after the other.                        *)
Added(s, list) ==
  LET with[n \in 0 .. Len(list)] == IF n = 0 THEN s ELSE addChannelToScan(with[n - 1], list[n])
  IN with[Len(list)]

(* nextChannel: all tables are dropped, and the first transponder of the   *)
(* list that the frontend accepts is tuned; if there is none, the scan is  *)
(* over.  m_pmts_to_read and m_pmt_running stay as they are.               *)
NextChannel(s) ==
  LET r == [s EXCEPT !.table = [x \in Table |-> "off"], !.pmt = FALSE,
                     !.ready = {}, !.valid = {}]
      n == Len(s.toScan)
      refused == IF "tune" \in Faults THEN 0 .. n ELSE {0}
  IN IF n = 0 THEN {[r EXCEPT !.end = "finish"]}
     ELSE {IF k = n THEN [r EXCEPT !.toScan = <<>>, !.current = s.toScan[n], !.chid = FALSE,
                                   !.locked = FALSE, !.end = "finish"]
           ELSE [r EXCEPT !.toScan = SubSeq(@, k + 2, n), !.current = s.toScan[k + 1],
                          !.chid = FALSE, !.locked = FALSE, !.fe = "tuning", !.window = TRUE]
           : k \in refused}

-----------------------------------------------------------------------------
(* What a table says, and the end of a transponder.                        *)

(* processSDT: the services that are wanted are new; their PMTs need not   *)
(* be read any more, and the one that is being read is aborted.            *)
ProcessSDT_Erase(s) ==
  LET listed == Here(s).sdt
      wanted == IF "onlyfree" \in s.flags THEN listed \cap (s.pmts \ s.scrambled) ELSE listed
  IN [s EXCEPT !.chid = TRUE, !.valid = @ \ {"SDT"},
               !.services = @ \cup {<<Here(s).id, p>> : p \in wanted},
               !.pmts = @ \ listed, !.scrambled = @ \ listed]

ProcessSDT_EraseFirst(s) ==
  LET left == s.pmts \ Here(s).sdt
      wanted == IF "onlyfree" \in s.flags THEN Here(s).sdt \cap left ELSE Here(s).sdt
  IN [s EXCEPT !.chid = TRUE, !.valid = @ \ {"SDT"},
               !.services = @ \cup {<<Here(s).id, p>> : p \in wanted},
               !.abort = @ \/ (s.running /\ s.at \in Here(s).sdt),
               !.pmts = left \cup (IF s.running THEN {s.at} ELSE {})]

ProcessSDT(s) ==
  LET listed == Here(s).sdt
      wanted == IF "onlyfree" \in s.flags THEN listed \cap (s.pmts \ s.scrambled) ELSE listed
      reading == IF s.running THEN {s.at} ELSE {}
  IN [s EXCEPT !.chid = TRUE, !.valid = @ \ {"SDT"},
               !.services = @ \cup {<<Here(s).id, p>> : p \in wanted},
               !.abort = @ \/ reading \cap listed # {},
               !.pmts = @ \ (listed \ reading), !.scrambled = @ \ (listed \ reading)]

(* The transponders of the NIT; the first NIT with others than this one    *)
(* replaces the list the user gave, if that was asked for.                 *)
ProcessNIT(s) ==
  LET clear == "clear" \in s.flags
      r == Added(IF clear THEN [s EXCEPT !.toScan = <<>>] ELSE s, Here(s).nit)
  IN [r EXCEPT !.valid = @ \ {"NIT"},
               !.toScan = IF clear /\ @ = <<>> THEN s.toScan ELSE @,
               !.flags = IF clear /\ r.toScan # <<>> THEN @ \ {"clear"} ELSE @]

Digest_Early(s) ==
  LET d == IF "SDT" \in s.valid THEN ProcessSDT(s) ELSE s
  IN IF "NIT" \in d.valid THEN ProcessNIT(d) ELSE d

(* channelDone, first part: with "only free" the SDT waits for the PMTs.   *)
Digest(s) ==
  LET d == IF "SDT" \in s.valid /\ ("onlyfree" \in s.flags => ~s.running) THEN ProcessSDT(s) ELSE s
  IN IF "NIT" \in d.valid THEN ProcessNIT(d) ELSE d

(* channelDone, last part: the programs the SDT did not name are services  *)
(* too; the transponder is known if it has any, and it has been scanned.   *)
Complete(s) ==
  LET wanted == IF "onlyfree" \in s.flags THEN s.pmts \ s.scrambled ELSE s.pmts
      named == s.chid \/ s.pmts # {}
  IN NextChannel([s EXCEPT
       !.services = @ \cup {<<Here(s).id, p>> : p \in wanted},
       !.pmts = {}, !.scrambled = {}, !.at = NoProgram, !.chid = named,
       !.known = @ \cup (IF named THEN {Here(s).id} ELSE {}),
       !.scanned = Append(@, s.current), !.toScan = Without(@, s.current)])

(* The program of the map after p, if there is one.                        *)
After(s, p) ==
  LET later == {q \in s.pmts : q > p}
  IN IF later = {} THEN NoProgram ELSE CHOOSE q \in later : \A x \in later : q <= x

(* The end of PMTready: the next PMT is read, or there is no more.  Where  *)
(* there is no m_PMT the pointer is null.                                  *)
Read(s) ==
  IF s.at = NoProgram THEN [s EXCEPT !.pmt = FALSE, !.error = FALSE, !.running = FALSE]
  ELSE IF s.pmt THEN s
  ELSE [s EXCEPT !.end = "crash"]

(* PMTready(-1): timeout, or removed by the SDT.                           *)
Erase(s) == Read([s EXCEPT !.pmts = @ \ {s.at}, !.scrambled = @ \ {s.at}, !.at = After(s, s.at)])

(* channelDone.  The PMT the SDT made needless is aborted; the call of     *)
(* channelDone in that finds SDT and NIT processed and nothing to abort.   *)
ChannelDone_Stop(s) ==
  LET d == Digest(s)
      r == IF d.abort THEN [d EXCEPT !.abort = FALSE, !.pmt = FALSE] ELSE d
  IN IF ~r.running /\ Needed(r) \subseteq r.ready THEN Complete(r) ELSE {r}

ChannelDone(s) ==
  LET d == Digest(s)
      r == IF d.abort THEN Erase([d EXCEPT !.abort = FALSE]) ELSE d
  IN IF ~r.running /\ Needed(r) \subseteq r.ready THEN Complete(r) ELSE {r}

Walked(s) == IF s.running \/ s.end = "crash" THEN {s} ELSE ChannelDone(s)

(* PMTready for the PMTs of a PAT that came: the first, unless a walk is   *)
(* taken for running; for a PMT that came; for one that timed out.         *)
Begin(s) ==
  Walked(Read(IF s.running THEN [s EXCEPT !.at = After(s, s.at)]
              ELSE [s EXCEPT !.at = After(s, -1), !.running = TRUE]))

Advance(s) ==
  LET clear == s.at \in Here(s).clear
  IN Walked(Read([s EXCEPT !.scrambled = IF clear THEN @ \ {s.at} ELSE @ \cup {s.at},
                           !.at = After(s, s.at)]))

(* startFilter: first PAT, NIT and BAT are read; when the PAT is ready, or *)
(* given up, the SDT, and the PMTs of the programs in the PAT.             *)
StartFilter(s) ==
  LET off == [s EXCEPT !.table["SDT"] = "off"]
  IN IF "PAT" \in s.ready
     THEN LET walk == IF "PAT" \in s.valid
                      THEN Begin([off EXCEPT !.pmts = @ \cup Here(s).pat,
                                             !.pmt = TRUE, !.error = FALSE])
                      ELSE {off}
          IN {[w EXCEPT !.table["SDT"] = "reading"] : w \in walk}
     ELSE {[off EXCEPT !.table = [x \in Table |-> IF x \in Needed(s) \ {"SDT"} THEN "reading"
                                                  ELSE "off"]]}

-----------------------------------------------------------------------------
(* start: entries that are exactly the same are taken once.                *)
Distinct(list) ==
  LET once[n \in 0 .. Len(list)] ==
        IF n = 0 THEN <<>>
        ELSE IF \E q \in Range(once[n - 1]) : SameExact(list[n], q) THEN once[n - 1]
        ELSE Append(once[n - 1], list[n])
  IN once[Len(list)]

Started(list, g) ==
  [flags |-> g, toScan |-> Distinct(list), scanned |-> <<>>, unavailable |-> {},
   current |-> list[1], locked |-> FALSE, ready |-> {}, valid |-> {},
   table |-> [x \in Table |-> "off"], pmts |-> {}, scrambled |-> {}, at |-> NoProgram,
   running |-> FALSE, abort |-> FALSE, pmt |-> FALSE, error |-> FALSE,
   chid |-> FALSE, services |-> {}, known |-> {}, fe |-> "tuning", window |-> TRUE, end |-> "no"]

Init ==
  /\ \E list \in Initial, g \in FlagSets : scan \in NextChannel(Started(list, g))
  /\ heard = {} /\ missed = {}

-----------------------------------------------------------------------------
(* The channel (stateChange).  The scan hears of a lock only once, and of  *)
(* a tune that fails; of a lock that is lost it waits for the tables.      *)
Lock ==
  /\ scan.fe # "ok"
  /\ scan' \in IF scan.locked THEN {[scan EXCEPT !.fe = "ok"]}
               ELSE StartFilter([scan EXCEPT !.fe = "ok", !.locked = TRUE])
  /\ UNCHANGED <<heard, missed>>

LoseLock ==
  /\ scan.fe = "ok" /\ (scan.window => "drop" \in Faults)
  /\ scan' = [scan EXCEPT !.fe = IF scan.window THEN "tuning" ELSE "unavailable"]
  /\ UNCHANGED <<heard, missed>>

TuneTimeout ==
  /\ scan.window
  /\ LET s == [scan EXCEPT !.window = FALSE]
     IN scan' \in IF scan.fe = "tuning"
                  THEN NextChannel([s EXCEPT !.unavailable = @ \cup {scan.current}])
                  ELSE {s}
  /\ UNCHANGED <<heard, missed>>

(* The ...ready slots of PAT, SDT, NIT and BAT: ok if the table came.      *)
Ready(x, ok, t) ==
  LET s == [scan EXCEPT !.table[x] = t, !.ready = @ \cup {x},
                        !.valid = IF ok THEN @ \cup {x} ELSE @]
  IN scan' \in IF x = "PAT" THEN StartFilter(s) ELSE ChannelDone(s)

(* eGTable: all sections came; or the same ones too often, which leaves    *)
(* the timer running; or it fires.                                         *)
TableRead(x) ==
  /\ scan.table[x] = "reading" /\ scan.fe = "ok"
  /\ Ready(x, TRUE, "off")
  /\ UNCHANGED <<heard, missed>>

TableGivenUp(x) ==
  /\ scan.table[x] = "reading" /\ scan.fe = "ok"
  /\ Ready(x, FALSE, "late")
  /\ UNCHANGED <<heard, missed>>

TableTimeout(x) ==
  /\ scan.table[x] # "off"
  /\ Ready(x, FALSE, "off")
  /\ UNCHANGED <<heard, missed>>

(* The same for the PMT; but m_PMT is used for one program after the       *)
(* other, and its error is never reset.                                    *)
Reading == scan.pmt /\ scan.running

PMTRead ==
  /\ Reading /\ scan.fe = "ok" /\ scan.at \in Here(scan).pat
  /\ scan' \in IF scan.error THEN Walked(Erase(scan)) ELSE Advance(scan)
  /\ heard' = IF scan.at \in Here(scan).clear THEN heard \cup {<<Here(scan).id, scan.at>>} ELSE heard
  /\ UNCHANGED missed

PMTTimeout ==
  /\ Reading
  /\ scan' \in Walked(Erase([scan EXCEPT !.error = TRUE]))
  /\ missed' = missed \cup {Here(scan).id}
  /\ UNCHANGED heard

Timer == TuneTimeout \/ (\E x \in Table : TableTimeout(x)) \/ PMTTimeout

Next ==
  /\ scan.end = "no"
  /\ \/ Lock \/ LoseLock \/ PMTRead \/ Timer
     \/ \E x \in Table : TableRead(x) \/ TableGivenUp(x)

Spec == Init /\ [][Next]_vars

(* While timers run one of them fires; nothing needs to be received.       *)
FairSpec == Spec /\ WF_vars(scan.end = "no" /\ Timer)

-----------------------------------------------------------------------------
(* Properties.                                                             *)

(* m_pmt_in_progress is an iterator into m_pmts_to_read: while the PMTs    *)
(* are read it points to an element.                                       *)
IteratorValid == scan.running => scan.at \in scan.pmts

(* Whatever the SDT erases from the list that PMTready walks over, and     *)
(* whatever is aborted meanwhile, the state is one the walk can go on from:*)
(* the iterator is valid, and a PMT is not started where there is no m_PMT.*)
WalkSound == TypeOK /\ IteratorValid /\ scan.end # "crash"

Carried == UNION {{Air[f].id} \X (Air[f].pat \cup Air[f].sdt) : f \in DOMAIN Air}
Clear == UNION {{Air[f].id} \X Air[f].clear : f \in DOMAIN Air}

(* A service is found only on a transponder that carries it, and with      *)
(* "only free" only if it is clear.                                        *)
ServicesOnAir ==
  scan.services \subseteq IF "onlyfree" \in scan.flags THEN Carried \cap Clear ELSE Carried

(* When the scan is over, insertInto can tell where each service is.       *)
ServicesTunable == scan.end = "finish" => {v[1] : v \in scan.services} \subseteq scan.known

(* Nothing is found that is not there, nor on a transponder that would be  *)
(* unknown (channelDone, processSDT).                                      *)
ServicesSound == ServicesOnAir /\ ServicesTunable

(* A clear program whose PMT came is found, on every transponder on which  *)
(* no PMT timed out: neither the walk over the programs nor the SDT, which *)
(* erases from them, loses one (PMTready, processSDT).                     *)
Found == scan.end = "finish" => \A v \in heard : v \in scan.services \/ v[1] \in missed

(* addChannelToScan checks "if we don't already have that channel": what   *)
(* was scanned is not scanned again, whatever the NITs announce, as long   *)
(* as the transponders are far enough apart for Same to be transitive.     *)
ScannedOnce == \A i, j \in DOMAIN scan.scanned : Same(scan.scanned[i], scan.scanned[j]) => i = j

(* However tables and transponders fail, and whatever the NITs add, the    *)
(* scan comes to its end.                                                  *)
ScanEnds == <>(scan.end = "finish")
=============================================================================
