----------------------------- MODULE McpServer -----------------------------
(***************************************************************************)
(* src/local_runtime/transport.py, LocalMcpServer: the fields `_server`,   *)
(* `_thread` and `_endpoint`, which change together in one lock block and  *)
(* are here the number of the bound server, and the sockets that listen.   *)
(* start binds and publishes in one lock block; stop clears the fields in  *)
(* one, and shuts the server it found there down after it.  These are the  *)
(* steps; the threads that take them belong to whoever owns the server.    *)
(***************************************************************************)
EXTENDS Naturals

CONSTANT MaxBound   (* bound of the model: servers ever bound; then bind fails *)

ASSUME McpServerAssumption == MaxBound \in Nat

NoServer == 0

VARIABLES
  server,      (* the server in the fields                                  *)
  listening,   (* the servers whose socket is open                          *)
  bound        (* how many servers were bound so far                        *)

serverVars == <<server, listening, bound>>

ServerTypeOK ==
  /\ bound \in 0..MaxBound
  /\ server \in 0..bound
  /\ listening \subseteq 1..bound

ServerInit ==
  /\ server = NoServer
  /\ listening = {}
  /\ bound = 0

(* start: the endpoint of the server that is there, or of a new one on a *)
(* port of the system's choice.                                          *)
ServerStart(n) ==
  IF server # NoServer
  THEN n = server /\ UNCHANGED serverVars
  ELSE /\ n = bound + 1
       /\ bound' = n
       /\ server' = n
       /\ listening' = listening \cup {n}

(* The lock block of stop, which leaves the caller with the server, *)
ServerTake ==
  /\ server' = NoServer
  /\ UNCHANGED <<listening, bound>>

(* and what follows it: shutdown, server_close, and a join that ends in   *)
(* five seconds at the latest.  Requests being handled are not waited for. *)
ServerClose(n) ==
  /\ listening' = listening \ {n}
  /\ UNCHANGED <<server, bound>>
=============================================================================
