----------------------------- MODULE MCLsmEngine -----------------------------
(* LsmEngine on small sets of keys and sessions.                           *)
EXTENDS LsmEngine, TLC

Symmetry == Permutations(Key) \cup Permutations(Session)
=============================================================================
