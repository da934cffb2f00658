-------------------------- MODULE MCStatePersistence --------------------------
(***************************************************************************)
(* StatePersistence on small instances.                                    *)
(***************************************************************************)
EXTENDS StatePersistence, TLC

(* Nothing distinguishes two chats; two names differ only by their stamps. *)
Symmetric == Permutations(Chats) \cup Permutations(Names)
==============================================================================
