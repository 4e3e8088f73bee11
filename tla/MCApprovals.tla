---------------------------- MODULE MCApprovals ----------------------------
(***************************************************************************)
(* TLC instances of Approvals.                                             *)
(***************************************************************************)
EXTENDS Approvals, TLC

\* Who handles a request, and which request of several, makes no difference.
Symmetry == Permutations(Handlers) \cup Permutations(Requests) \cup Permutations(Admins)
=============================================================================
