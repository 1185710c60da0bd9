--------------------------- MODULE MCSlotMigration ---------------------------
(***************************************************************************)
(* SlotMigration for TLC, from all its initial states or from those where  *)
(* the masters agree.                                                      *)
(***************************************************************************)
EXTENDS SlotMigration, TLC

OwnedInit == AgreedInit /\ \A s \in Slots : owner[Source][s] # NoNode

AgreedFairSpec == AgreedSpec /\ Fairness
OwnedFairSpec == OwnedInit /\ [][Next]_vars /\ Fairness

Symmetry == Permutations(Slots)
=============================================================================
