-------------------------- MODULE MCCapsuleCgroup --------------------------
(***************************************************************************)
(* CapsuleCgroup for TLC: capsules are interchangeable.                    *)
(***************************************************************************)
EXTENDS CapsuleCgroup, TLC

Symmetry == Permutations(Capsule)
=============================================================================
