---------------------------- MODULE MCHistories ----------------------------
(***************************************************************************)
(* Small instances of Histories for TLC.  Chats are interchangeable.       *)
(***************************************************************************)
EXTENDS Histories, TLC

Symmetry == Permutations(Chats)
=============================================================================
