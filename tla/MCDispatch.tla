---------------------------- MODULE MCDispatch ----------------------------
(***************************************************************************)
(* Dispatch on small sets of model values.                                 *)
(***************************************************************************)
EXTENDS Dispatch

Symm == Permutations(Messages) \cup Permutations(Handlers) \cup Permutations(Stamps)

=============================================================================
