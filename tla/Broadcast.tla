------------------------------- MODULE Broadcast -------------------------------
(***************************************************************************)
(* The websocket server (src/src/BroadcastWebsocketServer.hpp): clients    *)
(* connect and subscribe on the websocket thread, the thread for live      *)
(* transactions sends to all subscribers under m_mutex.  websocketpp is    *)
(* external: between the closing of a connection and on_close() a send to  *)
(* it throws.                                                              *)
(***************************************************************************)
EXTENDS Naturals, Sequences

CONSTANT Subscriber    \* the connections that may be open at a time

VARIABLES
  connection,    \* of websocketpp: "none", "open" or "closing"
  mConnections,  \* m_connections
  mLivetx,       \* m_livetx
  sending,       \* what broadcast_livetx is doing, under m_mutex
  received       \* the last message that was sent to each connection

broadcastVars == <<connection, mConnections, mLivetx, sending, received>>

NoMessage == 0
Idle == [message |-> NoMessage, left |-> {}]

BroadcastInit ==
  /\ connection = [s \in Subscriber |-> "none"]
  /\ mConnections = {} /\ mLivetx = {}
  /\ sending = Idle
  /\ received = [s \in Subscriber |-> NoMessage]

MutexFree == sending = Idle

\* Events of websocketpp; the handlers take m_mutex.
OnOpen(s) ==
  /\ MutexFree
  /\ connection[s] = "none"
  /\ connection' = [connection EXCEPT ![s] = "open"]
  /\ mConnections' = mConnections \cup {s}
  /\ UNCHANGED <<mLivetx, sending, received>>

\* The handlers of one connection are called in order: a message that came
\* before the end is handled before it.
Subscribes(s) == mLivetx \cup {s}
OnMessage(s) ==
  /\ MutexFree
  /\ connection[s] \in {"open", "closing"} /\ s \notin mLivetx
  /\ mLivetx' = Subscribes(s)
  /\ UNCHANGED <<connection, mConnections, sending, received>>

Closes(s) ==
  /\ connection[s] = "open"
  /\ connection' = [connection EXCEPT ![s] = "closing"]
  /\ UNCHANGED <<mConnections, mLivetx, sending, received>>

StillSubscribed(s) == mLivetx
Unsubscribed(s)    == mLivetx \ {s}
OnClose(s) ==
  /\ MutexFree
  /\ connection[s] = "closing"
  /\ connection' = [connection EXCEPT ![s] = "none"]
  /\ mConnections' = mConnections \ {s}
  /\ mLivetx' = Unsubscribed(s)
  /\ received' = [received EXCEPT ![s] = NoMessage]
  /\ UNCHANGED sending

Websocket == \E s \in Subscriber : OnOpen(s) \/ OnMessage(s) \/ Closes(s) \/ OnClose(s)

\* broadcast_livetx(): the loop over the set, whose order is that of addresses
\* in memory.
Broadcasts(message) ==
  /\ MutexFree
  /\ sending' = [message |-> message, left |-> mLivetx]
  /\ UNCHANGED <<connection, mConnections, mLivetx, received>>

\* One of those that are left.
Send(s) ==
  /\ s \in sending.left
  /\ connection[s] = "open"
  /\ received' = [received EXCEPT ![s] = sending.message]
  /\ sending' = [sending EXCEPT !.left = @ \ {s}]
  /\ UNCHANGED <<connection, mConnections, mLivetx>>

\* The exception leaves the loop, and with it the mutex.
SendThrows ==
  /\ \E s \in sending.left : connection[s] # "open"
  /\ sending' = Idle
  /\ UNCHANGED <<connection, mConnections, mLivetx, received>>

BroadcastEnds ==
  /\ sending # Idle /\ sending.left = {}
  /\ sending' = Idle
  /\ UNCHANGED <<connection, mConnections, mLivetx, received>>
=============================================================================
