---------------------------------- MODULE Hub ----------------------------------
(***************************************************************************)
(* The WebSocket hub of internal/ws: a bounded queue that Emit never waits *)
(* for, the goroutine that writes each message to every client under the   *)
(* hub's mutex, and the connections that join and leave under the same     *)
(* mutex.  A write to a peer that does not read waits, mutex and all.      *)
(***************************************************************************)
EXTENDS Naturals, Sequences

CONSTANTS
  Conn,        \* connections
  QueueSize,   \* capacity of h.broadcast (1024 in the code)
  MaxMessage   \* bounds the messages emitted

ASSUME HubAssumption == QueueSize \in Nat \ {0} /\ MaxMessage \in Nat

VARIABLES
  broadcast,  \* h.broadcast; a message is its number among the ones accepted
  emitted,    \* calls of Emit
  accepted,   \* how many of them found room
  mu,         \* h.mu: "run" while Run holds it, else "free"
  fan,        \* Run: the message in hand (0 for none) and whom it still goes to
  clients,    \* h.clients
  conn,       \* Conn -> where its goroutines are
  peer,       \* Conn -> the other end: "reads", "stalls" or "lost"
  got         \* Conn -> the messages written to it

hubVars == <<broadcast, emitted, accepted, mu, fan, clients, conn, peer, got>>

Waiting == [msg |-> 0, locked |-> FALSE, todo |-> {}]

HubTypeOK ==
  /\ broadcast \in Seq(1 .. MaxMessage) /\ Len(broadcast) <= QueueSize
  /\ mu \in {"free", "run"} /\ clients \in SUBSET Conn
  /\ conn \in [Conn -> {"none", "auth", "join", "reader", "leave", "refused", "done"}]
  /\ peer \in [Conn -> {"reads", "stalls", "lost"}]

HubInit ==
  /\ broadcast = <<>> /\ emitted = 0 /\ accepted = 0
  /\ mu = "free" /\ fan = Waiting /\ clients = {}
  /\ conn = [c \in Conn |-> "none"] /\ peer = [c \in Conn |-> "reads"] /\ got = [c \in Conn |-> <<>>]

ConnTo(c, l) == conn' = [conn EXCEPT ![c] = l]

EmitDropsOldest ==                         \* mutant of Emit
  /\ emitted < MaxMessage /\ emitted' = emitted + 1
  /\ accepted' = accepted + 1
  /\ broadcast' = Append(IF Len(broadcast) = QueueSize THEN Tail(broadcast) ELSE broadcast, accepted + 1)
  /\ UNCHANGED <<mu, fan, clients, conn, peer, got>>

\* A message that finds no room is dropped.
Emit ==
  /\ emitted < MaxMessage /\ emitted' = emitted + 1
  /\ IF Len(broadcast) < QueueSize
     THEN broadcast' = Append(broadcast, accepted + 1) /\ accepted' = accepted + 1
     ELSE UNCHANGED <<broadcast, accepted>>
  /\ UNCHANGED <<mu, fan, clients, conn, peer, got>>

-----------------------------------------------------------------------------
(* Hub.Run                                                                    *)

Receive ==
  /\ fan.msg = 0 /\ broadcast # <<>>
  /\ fan' = [Waiting EXCEPT !.msg = Head(broadcast)] /\ broadcast' = Tail(broadcast)
  /\ UNCHANGED <<emitted, accepted, mu, clients, conn, peer, got>>

LockClients ==
  /\ fan.msg # 0 /\ ~fan.locked /\ mu = "free"
  /\ mu' = "run" /\ fan' = [fan EXCEPT !.locked = TRUE, !.todo = clients]
  /\ UNCHANGED <<broadcast, emitted, accepted, clients, conn, peer, got>>

\* WriteMessage; its error is ignored.
WriteMessage(c) ==
  /\ c \in fan.todo /\ peer[c] # "stalls"
  /\ fan' = [fan EXCEPT !.todo = @ \ {c}]
  /\ got' = IF peer[c] = "reads" THEN [got EXCEPT ![c] = Append(@, fan.msg)] ELSE got
  /\ UNCHANGED <<broadcast, emitted, accepted, mu, clients, conn, peer>>

Unlock ==
  /\ fan.locked /\ fan.todo = {}
  /\ mu' = "free" /\ fan' = Waiting
  /\ UNCHANGED <<broadcast, emitted, accepted, clients, conn, peer, got>>

-----------------------------------------------------------------------------
(* ServeWs                                                                    *)

Upgrade(c) ==
  /\ conn[c] = "none" /\ ConnTo(c, "auth")
  /\ UNCHANGED <<broadcast, emitted, accepted, mu, fan, clients, peer, got>>

\* A session cookie, development mode, or a first message with the token; within five
\* seconds, or the connection is closed.
authenticate(c) ==
  /\ conn[c] = "auth"
  /\ ConnTo(c, "join") \/ ConnTo(c, "refused")
  /\ UNCHANGED <<broadcast, emitted, accepted, mu, fan, clients, peer, got>>

\* Registered; from here on the reader runs.
Join(c) ==
  /\ conn[c] = "join" /\ mu = "free"
  /\ clients' = clients \cup {c} /\ ConnTo(c, "reader")
  /\ UNCHANGED <<broadcast, emitted, accepted, mu, fan, peer, got>>

\* The reader sees a close frame or an error, once the peer is lost.
ReadFails(c) ==
  /\ conn[c] = "reader" /\ peer[c] = "lost" /\ ConnTo(c, "leave")
  /\ UNCHANGED <<broadcast, emitted, accepted, mu, fan, clients, peer, got>>

\* The close handler, the deferred call of the reader or both.
Leave(c) ==
  /\ conn[c] = "leave" /\ mu = "free"
  /\ clients' = clients \ {c} /\ ConnTo(c, "done")
  /\ UNCHANGED <<broadcast, emitted, accepted, mu, fan, peer, got>>

\* The peer stalls, reads again, or is lost for good.
PeerChanges(c) ==
  /\ conn[c] # "none" /\ peer[c] # "lost"
  /\ \E x \in {"reads", "stalls", "lost"} \ {peer[c]} : peer' = [peer EXCEPT ![c] = x]
  /\ UNCHANGED <<broadcast, emitted, accepted, mu, fan, clients, conn, got>>

HubNext ==
  \/ Emit \/ Receive \/ LockClients \/ Unlock
  \/ \E c \in Conn : \/ WriteMessage(c) \/ Upgrade(c) \/ authenticate(c) \/ Join(c)
                     \/ ReadFails(c) \/ Leave(c) \/ PeerChanges(c)

HubSpec == HubInit /\ [][HubNext]_hubVars

-----------------------------------------------------------------------------
(* Properties                                                                 *)

\* However full the queue gets and whoever joins, stalls or leaves: what a client gets
\* is a run of the accepted messages without a gap, a repetition or a change of order;
\* a client that stays has them all once the hub is at rest; one that was refused gets
\* nothing.  Messages are lost only where Emit finds no room.
StreamHasNoGaps ==
  \A c \in Conn :
    /\ \A i \in 1 .. Len(got[c]) - 1 : got[c][i + 1] = got[c][i] + 1
    /\ fan.msg = 0 /\ broadcast = <<>> /\ c \in clients /\ peer[c] # "lost" /\ got[c] # <<>>
       => got[c][Len(got[c])] = accepted
    /\ conn[c] \in {"auth", "join", "refused"} => got[c] = <<>>
=============================================================================
