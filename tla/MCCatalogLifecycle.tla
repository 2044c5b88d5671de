------------------------- MODULE MCCatalogLifecycle -------------------------
(* The instances on which TLC checks CatalogLifecycle. *)
EXTENDS CatalogLifecycle, TLC

\* The names of conversations and of handlers do not matter.
Symmetry == Permutations(Conversations) \cup Permutations(Handlers)
=============================================================================
