---------------------------- MODULE MCMembership ----------------------------
(* Model-checking instances of Membership.                                 *)
EXTENDS Membership, TLC

\* Workers and usernames are interchangeable; the ids are not once only some of
\* the clients are patient.
Symmetry == Permutations(Workers) \cup Permutations(Usernames)
=============================================================================
