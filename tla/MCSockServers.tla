---------------------------- MODULE MCSockServers ----------------------------
(* The servers on plain sockets on a small instance. *)
EXTENDS SockServers
CONSTANTS c1, c2, c3
============================================================================
