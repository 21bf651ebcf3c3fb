--------------------------- MODULE MCMemoryStore ---------------------------
(* Two keys; five events are enough for two checkpoints with records before, *)
(* between and after them.  One output is enough: the properties tell the    *)
(* records of a key apart by their attempts.                                 *)
EXTENDS MemoryStore, TLC

Symmetry == Permutations(Key)
=============================================================================
