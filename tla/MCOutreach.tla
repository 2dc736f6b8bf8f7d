----------------------------- MODULE MCOutreach -----------------------------
(***************************************************************************)
(* Outreach on small sets of model values. Tokens, messages and leads are  *)
(* interchangeable; the liveness run does without the symmetry.            *)
(***************************************************************************)
EXTENDS OutreachClaims, TLC

Symm == Permutations(Tokens) \cup Permutations(Messages) \cup Permutations(Leads)

=============================================================================
