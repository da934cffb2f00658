--------------------------- MODULE MCSocketRequests ---------------------------
(***************************************************************************)
(* SocketRequests on small instances.                                      *)
(***************************************************************************)
EXTENDS SocketRequests

CONSTANTS c1, c2,  \* connections
          a, b     \* request ids
==============================================================================
