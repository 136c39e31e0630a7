---------------------------- MODULE SocketRegistry ----------------------------
(***************************************************************************)
(* The dictionary user id -> websocket that each of the three websocket    *)
(* endpoints (/ws/connections, /ws/chat, /ws/lobby) keeps in the process,  *)
(* and the life of the endpoint coroutines that fill and empty it.  The    *)
(* three endpoints share their structure: accept, register, greet, then    *)
(* receive until the client disconnects.                                   *)
(*                                                                         *)
(* Only WebSocketDisconnect, raised by a receive, unregisters a user.  An  *)
(* exception of another kind (a frame that is not JSON, a database error)  *)
(* or a greeting that fails ends the coroutine and leaves its entry.       *)
(***************************************************************************)
EXTENDS Integers, FiniteSets

CONSTANTS
  Users,
  Sockets,
  Owner,       \* Owner[s]: the user whose client opens socket s
  NoSocket     \* no entry in the dictionary

ASSUME OwnerAssumption == Owner \in [Sockets -> Users]
ASSUME NoSocketAssumption == NoSocket \notin Sockets

VARIABLES
  registry,    \* active_connections
  endpoint,    \* the coroutine serving each socket
  gone,        \* sockets whose client has closed or lost the connection
  faulted,     \* history: sockets whose coroutine ended without unregistering
  overlapped   \* history: users that were served by two coroutines at once

socketVars == <<registry, endpoint, gone, faulted, overlapped>>

Endpoints == {"unused", "greeting", "listening", "ended"}
Serving(s) == endpoint[s] \in {"greeting", "listening"}
Registered == {u \in Users : registry[u] # NoSocket}

(* A send succeeds while the coroutine serves the socket, even when the client
   has gone unnoticed; it raises once the client has gone or the coroutine has
   ended. *)
SendMaySucceed(s) == Serving(s)
SendMayRaise(s) == s \in gone \/ endpoint[s] = "ended"

RegistryInit ==
  /\ registry = [u \in Users |-> NoSocket]
  /\ endpoint = [s \in Sockets |-> "unused"]
  /\ gone = {} /\ faulted = {} /\ overlapped = {}

(* Variants, each a slip the code could contain. *)
UnregisteredNever(s) == registry
RegisteredIfFree(s) ==
  IF registry[Owner[s]] = NoSocket THEN [registry EXCEPT ![Owner[s]] = s] ELSE registry

(* The dictionary after the owner of s is entered with s, and after the owner
   of s is popped, whichever socket the entry holds. *)
RegisteredWith(s) == [registry EXCEPT ![Owner[s]] = s]
Unregistered(s) == [registry EXCEPT ![Owner[s]] = NoSocket]

(* The endpoint accepts the socket, enters it and starts its greeting. *)
Accept(s) ==
  /\ endpoint[s] = "unused"
  /\ endpoint' = [endpoint EXCEPT ![s] = "greeting"]
  /\ registry' = RegisteredWith(s)
  /\ overlapped' = IF \E t \in Sockets : Owner[t] = Owner[s] /\ Serving(t)
                   THEN overlapped \union {Owner[s]} ELSE overlapped
  /\ UNCHANGED <<gone, faulted>>

(* The greeting is sent and the endpoint starts receiving. *)
Greet(s) ==
  /\ endpoint[s] = "greeting"
  /\ endpoint' = [endpoint EXCEPT ![s] = "listening"]
  /\ UNCHANGED <<registry, gone, faulted, overlapped>>

(* The coroutine ends by an exception that does not unregister. *)
Fault(s) ==
  /\ endpoint' = [endpoint EXCEPT ![s] = "ended"]
  /\ faulted' = faulted \union {s}
  /\ gone' = gone \union {s}
  /\ UNCHANGED <<registry, overlapped>>

(* The greeting raises: it lies outside the try block. *)
GreetFails(s) ==
  /\ endpoint[s] = "greeting" /\ s \in gone
  /\ Fault(s)

(* A received frame that is not JSON raises JSONDecodeError. *)
BadFrame(s) ==
  /\ endpoint[s] = "listening"
  /\ Fault(s)

(* The receive reports that the client has gone. *)
Disconnected(s) ==
  /\ endpoint[s] = "listening" /\ s \in gone
  /\ endpoint' = [endpoint EXCEPT ![s] = "ended"]
  /\ registry' = Unregistered(s)
  /\ UNCHANGED <<gone, faulted, overlapped>>

(* The client closes the socket or the network loses it. *)
ClientLeaves(s) ==
  /\ Serving(s) /\ s \notin gone
  /\ gone' = gone \union {s}
  /\ UNCHANGED <<registry, endpoint, faulted, overlapped>>

(* The process is killed, and started again with an empty dictionary. *)
ProcessKilled ==
  /\ registry' = [u \in Users |-> NoSocket]
  /\ endpoint' = [s \in Sockets |-> IF Serving(s) THEN "ended" ELSE endpoint[s]]
  /\ gone' = gone \union {s \in Sockets : Serving(s)}
  /\ UNCHANGED <<faulted, overlapped>>

RegistryNext ==
  \/ \E s \in Sockets :
       \/ Accept(s) \/ Greet(s) \/ GreetFails(s)
       \/ BadFrame(s) \/ Disconnected(s) \/ ClientLeaves(s)
  \/ ProcessKilled

(* Every step of the modules that use a registry is one of its steps or none. *)
RegistrySafety == RegistryInit /\ [][RegistryNext]_socketVars

RegistrySpec ==
  /\ RegistrySafety
  /\ \A s \in Sockets : /\ WF_socketVars(Greet(s) \/ GreetFails(s))
                        /\ WF_socketVars(Disconnected(s))
-----------------------------------------------------------------------------
RegistryTypeOK ==
  /\ registry \in [Users -> Sockets \union {NoSocket}]
  /\ endpoint \in [Sockets -> Endpoints]
  /\ gone \subseteq Sockets /\ faulted \subseteq Sockets /\ overlapped \subseteq Users

EntryAccurate(u) ==
  /\ registry[u] # NoSocket =>
       /\ Owner[registry[u]] = u
       /\ Serving(registry[u]) \/ registry[u] \in faulted
  /\ u \notin overlapped =>
       \A s \in Sockets : Owner[s] = u /\ Serving(s) => registry[u] = s

(* The dictionary finds every user that is being served and only such users,
   with two exceptions: an entry left by a coroutine that ended by another
   exception than a disconnect, and users who were served by two coroutines at
   once, whose entry the older coroutine pops when it ends. *)
RegistryAccurate == \A u \in Users : EntryAccurate(u)

(* An entry for a client that has gone is removed or replaced, unless its
   coroutine was ended by another exception. *)
GoneIsForgotten ==
  \A s \in Sockets : s \in gone ~> (registry[Owner[s]] # s \/ s \in faulted)

(* README.md:110: the sockets "handle disconnects gracefully".  A client that
   reconnects before its old socket is noticed as gone is unregistered when it
   is, and hears nothing more although it is connected. *)
ServedIsRegistered ==
  \A s \in Sockets : Serving(s) /\ s \notin gone => registry[Owner[s]] # NoSocket
=============================================================================
