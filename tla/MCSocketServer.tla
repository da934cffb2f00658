---------------------------- MODULE MCSocketServer ----------------------------
(***************************************************************************)
(* SocketServer on a small instance: the output of one session is on the   *)
(* one bus, the creation of another on the other; a filter for everything. *)
(***************************************************************************)
EXTENDS SocketServer

CONSTANTS c1, c2,       \* connection tasks
          ann, bob,     \* clients
          s1,           \* a subscription id
          build, test   \* sessions

Everything == [types |-> {}, schemas |-> {}, sessions |-> {}]

OneSession == [types |-> {}, schemas |-> {}, sessions |-> {build}]

MCFilters == {OneSession}

MCEvents == {Event("session_output", build), Event("queue_drained", NoTag)}

MCConfigs == {Clients, {bob}}
==============================================================================
