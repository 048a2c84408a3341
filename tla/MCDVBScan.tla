------------------------------ MODULE MCDVBScan ------------------------------
(* Instances of DVBScan for TLC.                                           *)
EXTENDS DVBScan

P(f, v) == [f |-> f, v |-> v]

(* Three transponders, 20 MHz apart.  The first one announces the others,  *)
(* slightly off and with other parameters; the second announces itself,    *)
(* the first and a third one the user did not give.                        *)
MCAir ==
  10 :> [id |-> "A", pat |-> {1, 2}, sdt |-> {1, 2, 3}, clear |-> {1},
         nit |-> <<P(31, "y"), P(10, "x")>>]
  @@ 11 :> [id |-> "A", pat |-> {1, 2}, sdt |-> {1, 2, 3}, clear |-> {1},
            nit |-> <<P(31, "y"), P(10, "x")>>]
  @@ 30 :> [id |-> "B", pat |-> {4, 5}, sdt |-> {}, clear |-> {5},
            nit |-> <<P(30, "x"), P(11, "y"), P(50, "auto")>>]
  @@ 31 :> [id |-> "B", pat |-> {4, 5}, sdt |-> {}, clear |-> {5},
            nit |-> <<P(30, "x"), P(11, "y"), P(50, "auto")>>]
  @@ 50 :> [id |-> "C", pat |-> {}, sdt |-> {1}, clear |-> {1}, nit |-> <<P(50, "x"), P(10, "x")>>]

MCParam == {P(f, v) : f \in DOMAIN MCAir, v \in {"x", "y", "auto"}}

MCInitial == {<<P(10, "x"), P(11, "y"), P(30, "auto")>>}
MCFlagSets == {{"network"}, {"network", "clear", "onlyfree"}, {"bat", "onlyfree"}}
=============================================================================
