------------------------------ MODULE MCSessions ------------------------------
(***************************************************************************)
(* Sessions on small instances.                                            *)
(***************************************************************************)
EXTENDS Sessions

CONSTANTS a, b  \* session names
==============================================================================
