---------------------------- MODULE MCAuthzStore ----------------------------
(***************************************************************************)
(* An instance of AuthzStore for TLC: a server whose two calls share one   *)
(* client and its mutex, and a worker that grants what they ask about.     *)
(***************************************************************************)
EXTENDS AuthzStore

CONSTANTS server, worker, k1, k2, k3, member, viewer

MCCall == [k \in Calls |->
  [client |-> IF k = k3 THEN worker ELSE server,
   op     |-> IF k = k3 THEN "grant" ELSE "check",
   tuple  |-> member]]

MCOps == <<viewer, member>>
=============================================================================
