-------------------------- MODULE MCResourceManager --------------------------
(* Instances of ResourceManager for TLC.                                   *)
EXTENDS ResourceManager, TLC

CONSTANTS f1, f2, i1, i2

(* f1 receives i1 and i2; f2 receives i2 only, but better.                 *)
MCScore == f1 :> (i1 :> 1 @@ i2 :> 1) @@ f2 :> (i1 :> 0 @@ i2 :> 2)

MCSymmetry == Permutations(Handler) \cup Permutations(Channel)
=============================================================================
