---------------------------- MODULE MCStealQueue ----------------------------
(* A ring of two slots: thieves race the owner for the last item, the ring *)
(* fills and its slots are reused while slow thieves still hold an index.  *)
EXTENDS StealQueue, TLC

ThievesSymmetry == Permutations(Thieves)
=============================================================================
