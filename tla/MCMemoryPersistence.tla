------------------------ MODULE MCMemoryPersistence ------------------------
(* Instances of MemoryPersistence for TLC.  Every key takes effect once, so *)
(* the key sets bound the behaviours: the number of effective session       *)
(* events is |UpsertKeys|, of rows |RowKeys| per table.                     *)
EXTENDS MemoryPersistence, TLC

CONSTANTS s1, s2, c1, c2, k1, k2, k3, r1

Instants    == 1 .. 3
TwoInstants == {1, 2}

Symmetry == Permutations(SessionIds) \cup Permutations(Channels)
              \cup Permutations(UpsertKeys) \cup Permutations(RowKeys)
=============================================================================
