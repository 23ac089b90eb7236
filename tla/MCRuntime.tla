---------------------------- MODULE MCRuntime -----------------------------
(***************************************************************************)
(* Channels of two messages and three goroutines, a pool for two of three  *)
(* connections, two calls to each service, every message over two users    *)
(* and a group, every walk of the session machine, and an echo client that *)
(* sends three times.                                                      *)
(***************************************************************************)
EXTENDS Runtime

MCTypeOf == [a |-> "quic", b |-> "websocket", c |-> "websocket"]
=============================================================================
