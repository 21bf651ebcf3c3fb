---------------------------- MODULE MCFileVault ----------------------------
(* Two processes and two keys: one process can be stale about either key     *)
(* while the other writes, dies after a note, or fails to finish its put.    *)
(* Three puts over one copy let a torn note, its replacement and a later     *)
(* attempt follow each other.                                                *)
EXTENDS FileVault, TLC

Symmetry == Permutations(Proc) \cup Permutations(Key)
=============================================================================
