------------------------------ MODULE HttpClient ------------------------------
(***************************************************************************)
(* The client of bitcoind's RPC (src/src/httpclientasio.cpp): one socket,  *)
(* kept open from call to call, that the thread for live transactions and  *)
(* the RPC threads (tx_push) share under send_mutex.                       *)
(*                                                                         *)
(* bitcoind and the network are external: it may refuse a connection, it   *)
(* answers each request it has received in order, well or with an error,   *)
(* and it may close or reset the connection at any point, also in the      *)
(* middle of an answer.  The stream is a sequence of parts, the first one  *)
(* of an answer being its status line and headers.                         *)
(*                                                                         *)
(* SendMessage() may throw JsonRpcException only, and the build's C++11    *)
(* enforces it: an error of the socket ends the daemon.                    *)
(***************************************************************************)
EXTENDS Naturals, Sequences

CONSTANTS
  Caller,        \* the threads that call bitcoind
  MaxCalls,      \* bound on the calls of each thread
  MaxBody,       \* bound on the parts of a body
  MaxFaults      \* bound on what bitcoind does apart from answering well

ASSUME ClientAssumption ==
  MaxCalls \in [Caller -> Nat] /\ MaxBody \in Nat \ {0} /\ MaxFaults \in Nat

NoCaller == "nobody"

VARIABLES
  sendMutex,     \* who holds send_mutex
  isOpen,        \* sock.is_open()
  call,          \* what the holder is doing
  peer,          \* bitcoind's end: "none", "up", "closed" or "reset"
  requests,      \* what bitcoind has received and not answered
  answers,       \* what it has sent and the client has not read
  waiting,       \* who waits for send_mutex
  calls,         \* how many calls each thread has asked for
  outcome,       \* of each caller's last call, until it goes on
  errors,        \* history: how often bitcoind answered with an error
  breaks,        \* history: how often a connection broke or was refused
  failures       \* history: how many calls failed

clientVars == <<sendMutex, isOpen, call, outcome, waiting, calls, failures>>
peerVars   == <<peer, requests, answers>>
httpVars   == <<clientVars, peerVars, errors, breaks>>

\* before is how many breaks there were when the call began.
NoHead == [part |-> "head", of |-> <<>>, status |-> 0, size |-> 0,
           sized |-> FALSE, keeps |-> FALSE]
NoCall == [pc |-> "none", id |-> <<>>, head |-> NoHead, body |-> <<>>, before |-> 0]
NoOutcome == [id |-> <<>>, ok |-> TRUE, body |-> <<>>, size |-> 0, cut |-> FALSE]

HttpInit ==
  /\ sendMutex = NoCaller /\ isOpen = FALSE /\ call = NoCall
  /\ outcome = [c \in Caller |-> NoOutcome]
  /\ peer = "none" /\ requests = <<>> /\ answers = <<>>
  /\ waiting = {} /\ calls = [c \in Caller |-> 0]
  /\ errors = 0 /\ breaks = 0 /\ failures = 0

-----------------------------------------------------------------------------
(* bitcoind.                                                               *)

HeadOf(id, status, size, sized, keeps) ==
  [part |-> "head", of |-> id, status |-> status, size |-> size,
   sized |-> sized, keeps |-> keeps]
PartOf(id) == [part |-> "body", of |-> id]
Body(id, n) == [i \in 1..n |-> PartOf(id)]

FaultLeft == errors + breaks < MaxFaults
Breaks    == FaultLeft /\ breaks' = breaks + 1 /\ UNCHANGED errors

\* An answer says how long it is, or ends with the connection.  After an answer
\* that is not to be kept alive bitcoind closes.  A good answer is not empty.
PeerAnswers ==
  /\ peer = "up" /\ requests # <<>>
  /\ \E status \in {200, 500}, size \in 0..MaxBody, sized, keeps \in BOOLEAN :
       /\ keeps => sized
       /\ IF status = 200 THEN size > 0 /\ UNCHANGED errors
          ELSE FaultLeft /\ errors' = errors + 1
       /\ answers' = answers \o <<HeadOf(requests[1], status, size, sized, keeps)>>
                             \o Body(requests[1], size)
       /\ peer' = IF keeps THEN peer ELSE "closed"
  /\ requests' = Tail(requests)
  /\ UNCHANGED <<clientVars, breaks>>

\* The connection is idle for too long, bitcoind stops, or the network fails,
\* also while the last answer is under way: what was sent can be read up to some
\* point, and is lost beyond it.
InUse == peer = "up" \/ (peer = "closed" /\ answers # <<>>)
PeerCloses ==
  /\ InUse /\ Breaks
  /\ peer' = "closed" /\ requests' = <<>>
  /\ \E n \in 0..Len(answers) : answers' = SubSeq(answers, 1, n)
  /\ UNCHANGED clientVars
PeerResets ==
  /\ InUse /\ Breaks
  /\ peer' = "reset" /\ requests' = <<>> /\ answers' = <<>>
  /\ UNCHANGED clientVars

-----------------------------------------------------------------------------
(* SendMessage().                                                          *)

Closed == isOpen' = FALSE /\ peer' = "none" /\ requests' = <<>> /\ answers' = <<>>
KeptOpen == UNCHANGED <<isOpen, peerVars>>

\* The call ends, the mutex is released.
Ends(o) ==
  /\ outcome' = [outcome EXCEPT ![sendMutex] = o]
  /\ sendMutex' = NoCaller /\ call' = NoCall
  /\ UNCHANGED <<waiting, calls>>
Failed(fails) == failures' = IF fails THEN failures + 1 ELSE failures

\* An answer that is not a 200 closes the socket and fails the call.
LeftOpen  == KeptOpen
BadStatus == Closed
Fails     == Ends([NoOutcome EXCEPT !.id = call.id, !.ok = FALSE]) /\ Failed(TRUE)

\* A system_error leaves a function that may throw JsonRpcException only: the
\* daemon ends, in the thread that holds send_mutex.
Alive  == call.pc # "aborted"
Aborts ==
  /\ call' = [NoCall EXCEPT !.pc = "aborted"]
  /\ Closed
  /\ UNCHANGED <<sendMutex, outcome, waiting, calls, failures>>

\* A thread calls; it gets the mutex in any order.  A request is named by its
\* thread and number.
Calls(c) ==
  /\ calls[c] < MaxCalls[c]
  /\ calls' = [calls EXCEPT ![c] = @ + 1]
  /\ waiting' = waiting \cup {c}
  /\ UNCHANGED <<sendMutex, isOpen, call, outcome, failures, peerVars, errors, breaks>>
Locks(c) ==
  /\ sendMutex = NoCaller /\ c \in waiting
  /\ sendMutex' = c /\ waiting' = waiting \ {c}
  /\ call' = [NoCall EXCEPT !.pc = "request", !.id = <<c, calls[c]>>, !.before = breaks]
  /\ UNCHANGED <<isOpen, outcome, calls, failures, peerVars, errors, breaks>>

\* The thread goes on with what the call has returned or thrown.
Takes(c) ==
  /\ outcome[c] # NoOutcome
  /\ outcome' = [outcome EXCEPT ![c] = NoOutcome]
  /\ UNCHANGED <<sendMutex, isOpen, call, waiting, calls, failures, peerVars, errors, breaks>>
Calling(c) == c \in waiting \/ sendMutex = c \/ outcome[c] # NoOutcome

\* A step of a call that goes on.
Step(from, to) ==
  /\ sendMutex # NoCaller /\ call.pc = from
  /\ call' = to
  /\ UNCHANGED <<sendMutex, outcome, waiting, calls, failures, errors, breaks>>
LastStep(from) == sendMutex # NoCaller /\ call.pc = from

\* The socket is opened if it is not, and the request is written: the endpoint
\* is resolved the first time and remembered.  After bitcoind has closed, the
\* write fails, or is lost and the read fails.
Connected == ~isOpen \/ peer = "up"
Request ==
  /\ Step("request", [call EXCEPT !.pc = "head"])
  /\ isOpen' = TRUE
  /\ IF Connected THEN peer' = "up" /\ requests' = Append(requests, call.id)
     ELSE UNCHANGED <<peer, requests>>
  /\ UNCHANGED answers
RequestFails ==
  /\ LastStep("request") /\ ~Connected
  /\ Aborts
  /\ UNCHANGED <<errors, breaks>>
Refused ==
  /\ LastStep("request") /\ ~isOpen
  /\ Breaks
  /\ Aborts

\* The status line and the headers, or anything else that is in the stream.
ReadHead ==
  /\ answers # <<>> /\ answers[1].part = "head" /\ answers[1].status = 200
  /\ Step("head", [call EXCEPT !.pc = "body", !.head = answers[1]])
  /\ answers' = Tail(answers)
  /\ UNCHANGED <<isOpen, peer, requests>>
ReadNoHead ==
  /\ LastStep("head")
  /\ \/ answers = <<>> /\ peer # "up" /\ Aborts
     \/ /\ answers # <<>>
        /\ answers[1].part # "head" \/ answers[1].status # 200
        /\ BadStatus /\ Fails
  /\ UNCHANGED <<errors, breaks>>

\* The body ends with the connection or, if it has a length, with that; the
\* error of a read that ends before it is not looked at.
Ended        == answers = <<>> /\ peer # "up"
UntilEnd     == Ended
AlmostAll    == Ended \/ (call.head.sized /\ Len(call.body) + 1 >= call.head.size)
BodyEnds     == Ended \/ (call.head.sized /\ Len(call.body) = call.head.size)

ReadBody ==
  /\ answers # <<>>
  /\ Step("body", [call EXCEPT !.body = Append(@, answers[1])])
  /\ ~BodyEnds
  /\ answers' = Tail(answers)
  /\ UNCHANGED <<isOpen, peer, requests>>

\* What was read of the answer is returned, and the socket is kept if the answer
\* says so, broken or not.  The caller's parser refuses an answer that was cut.
Whole == Len(call.body) = call.head.size
Return ==
  /\ LastStep("body") /\ BodyEnds
  /\ IF ~call.head.sized /\ peer = "reset" THEN Aborts
     ELSE /\ Ends([id |-> call.id, ok |-> Whole, body |-> call.body,
                   size |-> call.head.size, cut |-> breaks > call.before])
          /\ Failed(~Whole)
          /\ IF call.head.keeps THEN KeptOpen ELSE Closed
  /\ UNCHANGED <<errors, breaks>>

SendMessage ==
  \/ \E c \in Caller : Locks(c)
  \/ Request \/ RequestFails
  \/ ReadHead \/ ReadNoHead \/ ReadBody \/ Return

Peer == PeerAnswers \/ PeerCloses \/ PeerResets \/ Refused
=============================================================================
