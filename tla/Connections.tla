------------------------------ MODULE Connections ------------------------------
(***************************************************************************)
(* The threads around the connections of the daemon: the thread for live   *)
(* transactions calls bitcoind and broadcasts what it learns, an RPC       *)
(* thread passes transactions on (tx_push) through the same socket, the    *)
(* websocket thread serves the subscribers, and the main thread stops them *)
(* one after the other (src/src/main.cpp:955-968).                         *)
(*                                                                         *)
(* An error of the socket ends them all (HttpClient).  A poll is here one  *)
(* call and at most one broadcast; LiveTx has the whole poll.              *)
(***************************************************************************)
EXTENDS HttpClient, Broadcast

Live == "live"
Push == "push"

ASSUME CallerAssumption == Caller = {Live, Push}

VARIABLES
  live,        \* the thread for live transactions: "sleep", "call", "send", "ended"
  main,        \* the main thread: "running", "quit", "rpcStopped", "stopped"
  sent,        \* history: how many messages were broadcast
  due,         \* history: who is to get the last one
  threw        \* history: what its broadcast threw for, of "nothing", "closing"
               \* and "gone"

threadVars == <<live, main>>
historyVars == <<sent, due, threw>>
connectionVars == <<httpVars, broadcastVars, threadVars, historyVars>>

ConnectionInit ==
  /\ HttpInit /\ BroadcastInit
  /\ live = "sleep" /\ main = "running"
  /\ sent = 0 /\ due = {} /\ threw = "nothing"

HttpOnly == UNCHANGED <<broadcastVars, threadVars, historyVars>>

\* daemonThreadFunc(): it looks at requestedQuit after it has slept.
Polls ==
  /\ live = "sleep" /\ main = "running"
  /\ Calls(Live)
  /\ live' = "call"
  /\ UNCHANGED <<broadcastVars, main, historyVars>>

\* An exception ends the poll.
NewBlock   == {FALSE, outcome[Live].ok}
CallEnds ==
  /\ live = "call" /\ Takes(Live)
  /\ \E tells \in NewBlock :
       IF tells
       THEN /\ Broadcasts(sent + 1)
            /\ sent' = sent + 1 /\ due' = mLivetx /\ threw' = "nothing"
            /\ live' = "send"
       ELSE live' = "sleep" /\ UNCHANGED <<broadcastVars, historyVars>>
  /\ UNCHANGED main

Sends ==
  /\ live = "send"
  /\ \/ \E s \in Subscriber : Send(s) /\ UNCHANGED <<live, threw>>
     \/ BroadcastEnds /\ live' = "sleep" /\ UNCHANGED threw
     \/ /\ SendThrows
        /\ live' = "sleep"
        /\ threw' = IF \E s \in sending.left : connection[s] = "closing"
                    THEN "closing" ELSE "gone"
  /\ UNCHANGED <<httpVars, main, sent, due>>

LiveEnds ==
  /\ live = "sleep" /\ main # "running"
  /\ live' = "ended"
  /\ UNCHANGED <<httpVars, broadcastVars, main, historyVars>>

\* tx_push; its answer, or that there was an exception, goes to the client.
Pushes ==
  /\ main \in {"running", "quit"} /\ ~Calling(Push)
  /\ Calls(Push)
  /\ HttpOnly
Answers == Takes(Push) /\ HttpOnly

\* While a call is made nothing reads what the websocket thread writes: its
\* events are left to the time before and after, to bound the interleavings.
NoCallMade == \A c \in Caller : ~Calling(c)
Serves ==
  /\ main # "stopped" /\ NoCallMade
  /\ Websocket
  /\ due' = due \cap mLivetx'
  /\ UNCHANGED <<httpVars, threadVars, sent, threw>>

\* The signal handler, and the end of main().
Quits == main = "running" /\ main' = "quit"
StopsListening == main = "quit" /\ main' = "rpcStopped"
Joins == main = "rpcStopped" /\ live = "ended" /\ main' = "stopped"
Shutdown ==
  /\ Quits \/ StopsListening \/ Joins
  /\ UNCHANGED <<httpVars, broadcastVars, live, historyVars>>

ConnectionNext ==
  /\ Alive
  /\ \/ Polls \/ CallEnds \/ Sends \/ LiveEnds \/ Pushes \/ Answers
     \/ (SendMessage /\ HttpOnly) \/ (Peer /\ HttpOnly)
     \/ Serves \/ Shutdown

\* The threads run, and bitcoind answers unless the connection breaks: there is
\* no timeout in the client.  Nobody need quit, push, poll or subscribe.
LiveRuns == Alive /\ (CallEnds \/ Sends \/ LiveEnds)
MainStops ==
  /\ Alive /\ (StopsListening \/ Joins)
  /\ UNCHANGED <<httpVars, broadcastVars, live, historyVars>>
ConnectionSpec ==
  /\ ConnectionInit /\ [][ConnectionNext]_connectionVars
  /\ WF_connectionVars(LiveRuns)
  /\ WF_connectionVars(SendMessage /\ HttpOnly)
  /\ WF_connectionVars(PeerAnswers /\ HttpOnly)
  /\ WF_connectionVars(MainStops)

-----------------------------------------------------------------------------
\* What a call returns to its caller, to be parsed, is of its own answer and not
\* of another's, and the whole of it unless the connection broke during the call:
\* the error of a read that ends early is dropped (httpclientasio.cpp:221-228),
\* and the socket is left to the next call, of either thread (241-243).
AnswersBelong ==
  \A c \in Caller :
    LET o == outcome[c] IN
    /\ o.body = Body(o.id, Len(o.body))
    /\ Len(o.body) <= o.size
    /\ Len(o.body) = o.size \/ o.cut

\* A fault is paid once: an error of bitcoind or a connection that breaks fails
\* one call at most, whatever that call left unread on the socket, and nothing
\* but a break ends the daemon; a break may do both, as the socket of an answer
\* that was cut is kept for the next call (httpclientasio.cpp:186-190, 221-243
\* and 246-250).
FailsOncePerFault ==
  /\ failures <= errors + breaks
  /\ ~Alive => breaks > 0

\* A subscriber misses a message only if its broadcast threw, and that is when a
\* subscriber was closing: those that are gone do not disturb
\* (BroadcastWebsocketServer.hpp:48-56 and 74-81).
SubscribersReached ==
  /\ threw # "gone"
  /\ MutexFree /\ threw = "nothing" =>
       \A s \in due : connection[s] = "open" => received[s] = sent

\* Once it was asked to quit, the daemon stops, unless an error of the socket has
\* ended it before: a call that another thread makes in the meantime, on a
\* connection that is kept open or breaks, gives send_mutex back to the thread
\* that is waited for (httpclientasio.cpp:132, main.cpp:955-964).
ShutdownEnds == main = "quit" ~> (main = "stopped" \/ ~Alive)
=============================================================================
