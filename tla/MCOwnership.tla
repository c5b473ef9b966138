---------------------------- MODULE MCOwnership ----------------------------
(* Instances of Ownership: every short program and function body over two   *)
(* names, up to exchanging the names.                                        *)
EXTENDS Ownership

Symmetry == Permutations(Names)
=============================================================================
