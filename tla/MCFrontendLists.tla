-------------------------- MODULE MCFrontendLists --------------------------
(* Instances of FrontendLists: two servers of a manager, or one of them on   *)
(* its own, and lists of up to two rows.                                     *)
EXTENDS FrontendLists, TLC

\* Neither of the two servers is special.
ServerSymmetry == Permutations(Servers)
=============================================================================
