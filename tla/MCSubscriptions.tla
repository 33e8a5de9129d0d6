--------------------------- MODULE MCSubscriptions ---------------------------
(***************************************************************************)
(* Instances of Subscriptions for TLC.                                     *)
(***************************************************************************)
EXTENDS Subscriptions, TLC

\* Workers, subscriptions and plans are interchangeable.
Symmetry == Permutations(Requests) \cup Permutations(Subs) \cup Permutations(Plans)

=============================================================================
