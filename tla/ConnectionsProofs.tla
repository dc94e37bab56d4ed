--------------------------- MODULE ConnectionsProofs ---------------------------
(***************************************************************************)
(* Proofs about the socket that the calls of bitcoind share, for any       *)
(* numbers of calls, parts and faults, and about the broadcasts of the     *)
(* websocket server, for any number of subscribers.                        *)
(***************************************************************************)
EXTENDS Connections, SequenceTheorems, TLAPS

-----------------------------------------------------------------------------
(* The calls of bitcoind.                                                  *)

\* The names of requests, and what is read of the stream.
Id == (Caller \X Nat) \cup {<<>>}
Heads == [part: {"head"}, of: Id, status: Nat, size: Nat, sized: BOOLEAN, keeps: BOOLEAN]
Parts == Heads \cup [part: {"body"}, of: Id]
Call == [pc: {"none", "request", "head", "body", "aborted"}, id: Id, head: Heads,
         body: Seq(Parts), before: Nat]

HttpTypes ==
  /\ sendMutex \in Caller \cup {NoCaller}
  /\ isOpen \in BOOLEAN
  /\ call \in Call
  /\ calls \in [Caller -> Nat]
  /\ peer \in {"none", "up", "closed", "reset"}
  /\ requests \in Seq(Id) /\ answers \in Seq(Parts)
  /\ errors \in Nat /\ breaks \in Nat /\ failures \in Nat

\* An answer as it was sent leaves the connection as it promises.
Sound(head, length) ==
  length = head.size /\ peer = (IF head.keeps THEN "up" ELSE "closed")

\* The call will fail with what is left of its answer.
Debt ==
  \/ /\ call.pc = "head" /\ answers # <<>>
     /\ answers[1].status # 200 \/ Len(answers) - 1 # answers[1].size
  \/ call.pc = "body" /\ Len(call.body) + Len(answers) # call.head.size

\* The connection is open, or was closed after an answer that says so.
Intact ==
  \/ ~isOpen \/ peer = "up"
  \/ call.pc = "head" /\ answers # <<>> /\ peer = "closed" /\ ~answers[1].keeps
  \/ call.pc = "body" /\ peer = "closed" /\ ~call.head.keeps

\* Where the stream is, at each point of a call.
StreamOK ==
  /\ sendMutex = NoCaller <=> call.pc = "none"
  /\ isOpen <=> peer # "none"
  /\ call.pc \in {"head", "body"} => isOpen
  /\ peer # "up" => requests = <<>>
  /\ call.pc # "head" => requests = <<>>
  /\ call.pc \in {"none", "request", "aborted"} => answers = <<>>
  /\ call.pc # "body" => call.body = <<>>
  /\ call.pc = "head" =>
       /\ Len(requests) <= 1
       /\ requests # <<>> => answers = <<>>
       /\ answers # <<>> =>
            /\ answers[1] \in Heads
            /\ Len(answers) - 1 <= answers[1].size
            /\ answers[1].keeps => answers[1].sized
            /\ peer = "up" => Sound(answers[1], Len(answers) - 1)
  /\ call.pc = "body" =>
       /\ Len(call.body) + Len(answers) <= call.head.size
       /\ call.head.keeps => call.head.sized
       /\ peer = "up" => Sound(call.head, Len(call.body) + Len(answers))

\* Each failure has a fault of its own, and so has the call that will fail; a
\* socket that will end the daemon, or has ended it, has broken.
Paid ==
  /\ failures <= errors + breaks
  /\ Debt => failures < errors + breaks
  /\ Intact \/ breaks > 0
  /\ Alive \/ breaks > 0

HttpInv == HttpTypes /\ StreamOK /\ Paid

invVars == <<sendMutex, isOpen, call, calls, peer, requests, answers, errors, breaks,
             failures>>

-----------------------------------------------------------------------------
\* What is not a call is typed as one.
LEMMA NoneTypes ==
  /\ <<>> \in Id /\ \A c \in Caller, n \in Nat : <<c, n>> \in Id
  /\ Heads \subseteq Parts
  /\ <<>> \in Seq(Parts) /\ <<>> \in Seq(Id)
  /\ NoCall \in Call
<1>1. <<>> \in Id /\ \A c \in Caller, n \in Nat : <<c, n>> \in Id
  BY DEF Id
<1>2. NoHead \in Heads
  BY <1>1 DEF NoHead, Heads
<1>3. <<>> \in Seq(Parts) /\ <<>> \in Seq(Id)
  BY EmptySeq
<1>4. NoCall \in Call
  BY <1>1, <1>2, <1>3 DEF NoCall, Call
<1> QED
  BY <1>1, <1>3, <1>4 DEF Parts

\* At the start nothing is open and nobody calls.
LEMMA HttpInitInv == ConnectionInit => HttpInv
<1> SUFFICES ASSUME ConnectionInit PROVE HttpInv
  OBVIOUS
<1> USE DEF ConnectionInit, HttpInit
<1>1. HttpTypes
  BY NoneTypes DEF HttpTypes
<1>2. StreamOK
  BY DEF StreamOK, NoCall
<1>3. Paid
  BY DEF Paid, Debt, Intact, Alive, NoCall
<1> QED
  BY <1>1, <1>2, <1>3 DEF HttpInv

\* A step that leaves the socket and the mutex alone keeps the invariant.
LEMMA HttpSame == ASSUME HttpInv, UNCHANGED invVars PROVE HttpInv'
<1> USE DEF HttpInv, invVars
<1>1. HttpTypes'
  BY DEF HttpTypes
<1>2. StreamOK'
  BY DEF StreamOK, Sound
<1>3. Paid'
  BY DEF Paid, Debt, Intact, Alive
<1> QED
  BY <1>1, <1>2, <1>3

\* A thread that asks for a call waits for the mutex.
LEMMA HttpCalls ==
  ASSUME HttpInv, NEW c \in Caller, Calls(c)
  PROVE  HttpInv'
<1> USE DEF HttpInv, Calls, peerVars
<1>1. HttpTypes'
  <2>1. calls' \in [Caller -> Nat]
    BY DEF HttpTypes
  <2> QED
    BY <2>1 DEF HttpTypes
<1>2. StreamOK'
  BY DEF StreamOK, Sound
<1>3. Paid'
  BY DEF Paid, Debt, Intact, Alive
<1> QED
  BY <1>1, <1>2, <1>3

\* The mutex is taken by a thread that waits.
LEMMA HttpLocks ==
  ASSUME HttpInv, NEW c \in Caller, Locks(c)
  PROVE  HttpInv'
<1> USE DEF HttpInv, Locks, peerVars
<1>1. c # NoCaller
  BY CallerAssumption DEF NoCaller, Live, Push
<1>2. HttpTypes'
  <2>1. <<c, calls[c]>> \in Id
    BY NoneTypes DEF HttpTypes
  <2>2. call' \in Call
    BY <2>1, NoneTypes DEF Call, HttpTypes
  <2> QED
    BY <2>2 DEF HttpTypes
<1>3. StreamOK'
  BY <1>1 DEF StreamOK, HttpTypes, NoCall
<1>4. Paid'
  BY DEF Paid, Debt, Intact, Alive, StreamOK, NoCall
<1> QED
  BY <1>2, <1>3, <1>4

\* A call that fails on an error of bitcoind closes the socket.
LEMMA HttpFails ==
  ASSUME HttpInv, sendMutex # NoCaller, Fails, Closed, Debt, UNCHANGED <<errors, breaks>>
  PROVE  HttpInv'
<1> USE DEF HttpInv, Fails, Failed, Ends, Closed
<1>1. HttpTypes'
  <2>1. /\ call' = NoCall /\ sendMutex' = NoCaller /\ calls' = calls
        /\ failures' = failures + 1 /\ isOpen' = FALSE /\ peer' = "none"
        /\ requests' = <<>> /\ answers' = <<>>
    OBVIOUS
  <2>2. failures' \in Nat
    BY <2>1 DEF HttpTypes
  <2> QED
    BY <2>1, <2>2, NoneTypes DEF HttpTypes
<1>2. StreamOK'
  BY DEF StreamOK, NoCall
<1>3. Paid'
  BY DEF Paid, Debt, Intact, Alive, NoCall, HttpTypes
<1> QED
  BY <1>1, <1>2, <1>3

LEMMA MoreBreaks ==
  ASSUME NEW f \in Nat, NEW e \in Nat, NEW b \in Nat, NEW c \in Nat, f <= e + b, b <= c
  PROVE  f <= e + c
  OBVIOUS

\* The daemon ends, for a break.
LEMMA HttpAborts ==
  ASSUME HttpInv, sendMutex # NoCaller, Aborts, UNCHANGED errors,
         breaks' \in Nat, breaks' >= breaks, breaks' > 0
  PROVE  HttpInv'
<1> DEFINE gone == [NoCall EXCEPT !.pc = "aborted"]
<1>1. /\ call' = gone /\ isOpen' = FALSE /\ peer' = "none" /\ requests' = <<>>
      /\ answers' = <<>> /\ UNCHANGED <<sendMutex, calls, failures>>
  BY DEF Aborts, Closed
<1>2. gone \in Call /\ gone.pc = "aborted" /\ gone.body = <<>>
  BY NoneTypes DEF NoCall, Call
<1> HIDE DEF gone
<1>3. HttpTypes'
  BY <1>1, <1>2, NoneTypes DEF HttpInv, HttpTypes
<1>4. StreamOK'
  BY <1>1, <1>2 DEF HttpInv, StreamOK
<1>5. Paid'
  <2>1. failures' <= errors' + breaks'
    <3>1. failures <= errors + breaks
      BY DEF HttpInv, Paid
    <3>2. failures \in Nat /\ errors \in Nat /\ breaks \in Nat
      BY DEF HttpInv, HttpTypes
    <3>3. failures' = failures /\ errors' = errors
      BY <1>1
    <3>4. failures <= errors + breaks'
      BY <3>1, <3>2, MoreBreaks
    <3> QED
      BY <3>3, <3>4
  <2>2. ~Debt' /\ Intact'
    BY <1>1, <1>2 DEF Debt, Intact
  <2> QED
    BY <2>1, <2>2 DEF Paid
<1> QED
  BY <1>3, <1>4, <1>5 DEF HttpInv

\* The request is written.
LEMMA HttpRequest == ASSUME HttpInv, Request PROVE HttpInv'
<1> USE DEF HttpInv, Request, Step, Connected
<1>1. HttpTypes'
  <2>1. call.id \in Id /\ call' \in Call
    BY DEF HttpTypes, Call
  <2>2. requests' = requests \/ requests' = Append(requests, call.id)
    OBVIOUS
  <2>3. requests \in Seq(Id)
    BY DEF HttpTypes
  <2>4. Append(requests, call.id) \in Seq(Id)
    BY <2>1, <2>3, AppendProperties
  <2>5. requests' \in Seq(Id)
    BY <2>2, <2>3, <2>4
  <2> QED
    BY <2>1, <2>5 DEF HttpTypes
<1>2. StreamOK'
  <2>1. /\ call.pc = "request" /\ call'.pc = "head" /\ isOpen' /\ answers' = <<>>
        /\ requests = <<>> /\ call.body = <<>> /\ call'.body = <<>>
    BY DEF StreamOK, HttpTypes
  <2>2. (peer' # "none") /\ (peer' # "up" => requests' = <<>>)
    BY <2>1 DEF StreamOK, HttpTypes
  <2>3. Len(requests') <= 1
    <3>1. requests' = requests \/ requests' = Append(requests, call.id)
      OBVIOUS
    <3>2. requests \in Seq(Id) /\ call.id \in Id /\ Len(requests) = 0
      BY <2>1, EmptySeq DEF HttpTypes, Call
    <3>3. Len(Append(requests, call.id)) = 1
      BY <3>2, AppendProperties
    <3>4. CASE requests' = requests
      BY <3>2, <3>4
    <3>5. CASE requests' = Append(requests, call.id)
      BY <3>3, <3>5
    <3> QED
      BY <3>1, <3>4, <3>5
  <2> QED
    BY <2>1, <2>2, <2>3 DEF StreamOK
<1>3. Paid'
  <2>1. ~Debt'
    BY DEF Debt, StreamOK, HttpTypes, Call
  <2>2. Intact => Intact'
    BY DEF Intact, StreamOK
  <2>3. Alive /\ UNCHANGED <<errors, breaks, failures>>
    BY DEF Alive
  <2>4. Alive'
    BY DEF Alive, HttpTypes, Call
  <2> QED
    BY <2>1, <2>2, <2>3, <2>4 DEF Paid
<1> QED
  BY <1>1, <1>2, <1>3

\* A request on a connection that has broken, and a connection that is refused.
LEMMA HttpRequestFails == ASSUME HttpInv, RequestFails PROVE HttpInv'
<1> USE DEF RequestFails, LastStep
<1>1. breaks > 0
  BY DEF HttpInv, Paid, Intact, Connected
<1> QED
  BY <1>1, HttpAborts DEF HttpInv, HttpTypes

LEMMA HttpRefused == ASSUME HttpInv, Refused PROVE HttpInv'
<1> USE DEF Refused, LastStep, Breaks
<1>1. breaks' \in Nat /\ breaks' >= breaks /\ breaks' > 0
  BY DEF HttpInv, HttpTypes
<1> QED
  BY <1>1, HttpAborts

-----------------------------------------------------------------------------
\* The parts of an answer are read in order.
LEMMA HttpReadHead == ASSUME HttpInv, ReadHead PROVE HttpInv'
<1> USE DEF HttpInv, ReadHead, Step
<1>1. /\ answers \in Seq(Parts) /\ answers # <<>>
      /\ Tail(answers) \in Seq(Parts) /\ Len(Tail(answers)) = Len(answers) - 1
  BY HeadTailProperties DEF HttpTypes
<1>2. call.pc = "head" /\ answers[1] \in Heads
  BY DEF StreamOK
<1>3. HttpTypes'
  BY <1>1, <1>2 DEF HttpTypes, Call
<1>4. /\ call'.pc = "body" /\ call'.head = answers[1] /\ call'.body = <<>>
      /\ Len(call'.body) + Len(answers') = Len(answers) - 1
  <2>1. /\ call'.pc = "body" /\ call'.head = answers[1] /\ call'.body = call.body
        /\ call.body = <<>>
    BY <1>2 DEF StreamOK, HttpTypes, Call
  <2>2. Len(call'.body) = 0 /\ Len(answers) \in Nat
    BY <1>1, <2>1, EmptySeq, LenProperties
  <2>3. Len(answers') = Len(answers) - 1
    BY <1>1
  <2> HIDE DEF HttpInv, ReadHead, Step
  <2> QED
    BY <2>1, <2>2, <2>3
<1>5. requests' = <<>>
  BY <1>1, <1>2, EmptySeq DEF StreamOK, HttpTypes
<1>6. StreamOK'
  BY <1>1, <1>2, <1>4, <1>5 DEF StreamOK, Sound
<1>7. Paid'
  <2>1. (Debt' => Debt) /\ (Intact => Intact') /\ Alive'
    BY <1>1, <1>2, <1>4 DEF Debt, Intact, Alive
  <2> QED
    BY <2>1 DEF Paid
<1> QED
  BY <1>3, <1>6, <1>7

\* An answer that is no 200 was an error; nothing of one is there after a break.
LEMMA HttpReadNoHead == ASSUME HttpInv, ReadNoHead PROVE HttpInv'
<1> USE DEF ReadNoHead, LastStep, BadStatus
<1>1. call.pc = "head" /\ isOpen
  BY DEF HttpInv, StreamOK
<1>2. CASE answers = <<>> /\ peer # "up" /\ Aborts
  <2>1. breaks > 0
    BY <1>1, <1>2 DEF HttpInv, Paid, Intact
  <2> QED
    BY <1>2, <2>1, HttpAborts DEF HttpInv, HttpTypes
<1>3. CASE /\ answers # <<>>
           /\ answers[1].part # "head" \/ answers[1].status # 200
           /\ BadStatus /\ Fails
  <2>1. answers[1] \in Heads
    BY <1>1, <1>3 DEF HttpInv, StreamOK
  <2>2. Debt
    BY <1>1, <1>3, <2>1 DEF Debt, Heads
  <2> QED
    BY <1>3, <2>2, HttpFails
<1> QED
  BY <1>2, <1>3

LEMMA HttpReadBody == ASSUME HttpInv, ReadBody PROVE HttpInv'
<1> USE DEF HttpInv, ReadBody, Step
<1>1. /\ answers \in Seq(Parts) /\ answers # <<>>
      /\ Tail(answers) \in Seq(Parts) /\ Len(Tail(answers)) = Len(answers) - 1
      /\ answers[1] \in Parts
  <2>1. answers \in Seq(Parts) /\ answers # <<>>
    BY DEF HttpTypes
  <2> QED
    BY <2>1, HeadTailProperties, ElementOfSeq, EmptySeq
<1>2. /\ call.pc = "body" /\ call'.pc = "body" /\ call'.head = call.head
      /\ call'.body = Append(call.body, answers[1])
  BY DEF HttpTypes, Call
<1>3. call'.body \in Seq(Parts) /\ Len(call'.body) = Len(call.body) + 1
  BY <1>1, <1>2 DEF HttpTypes, Call
<1>4. HttpTypes'
  BY <1>1, <1>3 DEF HttpTypes, Call
<1>5. Len(call'.body) + Len(answers') = Len(call.body) + Len(answers)
  BY <1>1, <1>3, LenProperties DEF HttpTypes, Call
<1>6. StreamOK'
  BY <1>2, <1>5 DEF StreamOK, Sound
<1>7. Paid'
  <2>1. (Debt' => Debt) /\ (Intact => Intact') /\ Alive'
    BY <1>2, <1>5 DEF Debt, Intact, Alive
  <2> QED
    BY <2>1 DEF Paid
<1> QED
  BY <1>4, <1>6, <1>7

\* A call that returns less than its answer has failed, for what was cut of it;
\* what is left open is as it was before the request, or has broken.
LEMMA HttpReturn == ASSUME HttpInv, Return PROVE HttpInv'
<1> USE DEF Return, LastStep, Ended, BodyEnds
<1> DEFINE o == [id |-> call.id, ok |-> Whole, body |-> call.body,
                 size |-> call.head.size, cut |-> breaks > call.before]
<1>1. call.pc = "body" /\ isOpen /\ requests = <<>> /\ UNCHANGED <<errors, breaks>>
  BY DEF HttpInv, StreamOK
<1>2. CASE ~call.head.sized /\ peer = "reset" /\ Aborts
  <2>1. breaks > 0
    BY <1>1, <1>2 DEF HttpInv, Paid, Intact
  <2> QED
    BY <1>2, <2>1, HttpAborts DEF HttpInv, HttpTypes
<1>3. CASE /\ Ends(o) /\ Failed(~Whole)
           /\ IF call.head.keeps THEN KeptOpen ELSE Closed
  <2>1. call' = NoCall /\ sendMutex' = NoCaller /\ UNCHANGED calls
    BY <1>3 DEF Ends
  <2>2. failures' \in Nat /\ failures' <= errors' + breaks'
    <3>1. CASE Whole
      BY <1>1, <1>3, <3>1 DEF Failed, HttpInv, HttpTypes, Paid
    <3>2. CASE ~Whole
      <4>1. answers = <<>>
        BY <3>2 DEF Whole
      <4>2. Len(call.body) + Len(answers) = Len(call.body)
        BY <4>1, EmptySeq, LenProperties DEF HttpInv, HttpTypes, Call
      <4>3. Debt
        BY <1>1, <3>2, <4>2 DEF Debt, Whole
      <4> QED
        BY <1>1, <1>3, <3>2, <4>3 DEF Failed, HttpInv, HttpTypes, Paid
    <3> QED
      BY <3>1, <3>2
  <2>3. CASE ~call.head.keeps
    <3>1. isOpen' = FALSE /\ peer' = "none" /\ requests' = <<>> /\ answers' = <<>>
      BY <1>3, <2>3 DEF Closed
    <3>2. HttpTypes'
      BY <1>1, <2>1, <2>2, <3>1, NoneTypes DEF HttpInv, HttpTypes
    <3>3. StreamOK'
      BY <2>1, <3>1 DEF StreamOK, NoCall
    <3>4. ~Debt' /\ Intact' /\ Alive'
      BY <2>1, <3>1 DEF Debt, Intact, Alive, NoCall
    <3> QED
      BY <2>2, <3>2, <3>3, <3>4 DEF HttpInv, Paid
  <2>4. CASE call.head.keeps
    <3>1. UNCHANGED <<isOpen, peer, requests, answers>>
      BY <1>3, <2>4 DEF KeptOpen, peerVars
    <3>2. HttpTypes'
      BY <1>1, <2>1, <2>2, <3>1, NoneTypes DEF HttpInv, HttpTypes
    <3>3. answers = <<>>
      <4>1. CASE answers = <<>> /\ peer # "up"
        BY <4>1
      <4>2. CASE Len(call.body) = call.head.size
        <5>1. Len(answers) = 0
          BY <1>1, <4>2, LenProperties DEF HttpInv, StreamOK, HttpTypes, Call, Heads
        <5> QED
          BY <5>1, EmptySeq DEF HttpInv, HttpTypes
      <4> QED
        BY <4>1, <4>2
    <3>4. StreamOK'
      BY <1>1, <2>1, <3>1, <3>3 DEF HttpInv, StreamOK, NoCall
    <3>5. ~Debt' /\ Alive'
      BY <2>1 DEF Debt, Alive, NoCall
    <3>6. Intact => Intact'
      BY <1>1, <2>4, <3>1 DEF Intact
    <3> QED
      BY <1>1, <2>2, <3>2, <3>4, <3>5, <3>6 DEF HttpInv, Paid
  <2> QED
    BY <2>3, <2>4
<1> QED
  BY <1>2, <1>3

-----------------------------------------------------------------------------
\* bitcoind answers: the parts it sends are those its head tells of.
LEMMA BodyParts ==
  ASSUME NEW id \in Id, NEW n \in Nat
  PROVE  Body(id, n) \in Seq(Parts) /\ Len(Body(id, n)) = n
<1>1. Body(id, n) \in [1..n -> Parts]
  BY DEF Body, PartOf, Parts
<1> QED
  BY <1>1 DEF Body

LEMMA HttpPeerAnswers == ASSUME HttpInv, PeerAnswers PROVE HttpInv'
<1> USE DEF HttpInv, clientVars
<1>1. PICK status \in {200, 500}, size \in 0..MaxBody, sized \in BOOLEAN, keeps \in BOOLEAN :
        /\ keeps => sized
        /\ IF status = 200 THEN size > 0 /\ UNCHANGED errors
           ELSE FaultLeft /\ errors' = errors + 1
        /\ answers' = answers \o <<HeadOf(requests[1], status, size, sized, keeps)>>
                              \o Body(requests[1], size)
        /\ peer' = IF keeps THEN peer ELSE "closed"
  BY DEF PeerAnswers
<1> DEFINE head == HeadOf(requests[1], status, size, sized, keeps)
           body == Body(requests[1], size)
<1>2. /\ peer = "up" /\ requests # <<>> /\ requests' = Tail(requests)
      /\ UNCHANGED clientVars /\ UNCHANGED breaks
  BY DEF PeerAnswers
<1>3. call.pc = "head" /\ isOpen /\ answers = <<>> /\ Len(requests) = 1
  <2>1. call.pc = "head" /\ isOpen /\ answers = <<>> /\ Len(requests) <= 1
    BY <1>2 DEF StreamOK
  <2>2. Len(requests) \in Nat \ {0}
    BY <1>2, EmptySeq DEF HttpTypes
  <2> QED
    BY <2>1, <2>2
<1>4. requests[1] \in Id /\ requests' = <<>>
  BY <1>2, <1>3, HeadTailProperties, EmptySeq, ElementOfSeq DEF HttpTypes
<1>5. size \in Nat
  BY ClientAssumption
<1>6. head \in Heads
  BY <1>4, <1>5 DEF HeadOf, Heads
<1>7. body \in Seq(Parts) /\ Len(body) = size
  BY <1>4, <1>5, BodyParts
<1>8. answers' = <<head>> \o body
  BY <1>1, <1>3, <1>6
<1>9. answers' \in Seq(Parts) /\ Len(answers') = 1 + size /\ answers'[1] = head
  BY <1>5, <1>6, <1>7, <1>8, NoneTypes
<1>10. /\ head.size = size /\ head.sized = sized /\ head.keeps = keeps
       /\ head.status = status
  BY DEF HeadOf
<1> HIDE DEF head, body
<1>11. peer' = (IF keeps THEN "up" ELSE "closed")
  BY <1>1, <1>2
<1>12. HttpTypes'
  <2>1. errors' \in Nat
    BY <1>1 DEF HttpTypes
  <2> QED
    BY <1>2, <1>4, <1>9, <1>11, <2>1, EmptySeq DEF HttpTypes
<1>13. StreamOK'
  <2>1. Len(requests') = 0 /\ Len(answers') - 1 = size
    BY <1>4, <1>5, <1>9
  <2>2. /\ call' = call /\ sendMutex' = sendMutex /\ isOpen' = isOpen
        /\ peer' \in {"up", "closed"} /\ requests' = <<>>
    BY <1>2, <1>4, <1>11
  <2>3. /\ answers'[1] \in Heads /\ Len(answers') - 1 <= answers'[1].size
        /\ answers'[1].keeps => answers'[1].sized
    BY <1>1, <1>5, <1>6, <1>9, <1>10, <2>1
  <2>4. Len(answers') - 1 = answers'[1].size
        /\ peer' = (IF answers'[1].keeps THEN "up" ELSE "closed")
    BY <1>9, <1>10, <1>11, <2>1
  <2> QED
    BY <1>3, <2>1, <2>2, <2>3, <2>4 DEF StreamOK, Sound
<1>14. Paid'
  <2>1. UNCHANGED <<isOpen, call, failures, breaks>> /\ Alive'
    BY <1>2, <1>3 DEF Alive
  <2>2. Intact'
    BY <1>3, <1>9, <1>10, <1>11, <2>1 DEF Intact
  <2>3. failures' <= errors' + breaks' /\ (Debt' => failures' < errors' + breaks')
    <3>1. CASE status = 200
      <4>1. ~Debt'
        <5>1. call'.pc = "head" /\ answers'[1].status = 200
              /\ answers'[1].size = size
          BY <1>3, <1>9, <1>10, <2>1, <3>1
        <5>2. Len(answers') - 1 = size
          BY <1>5, <1>9
        <5> QED
          BY <5>1, <5>2 DEF Debt
      <4> QED
        BY <1>1, <2>1, <3>1, <4>1 DEF Paid
    <3>2. CASE status # 200
      BY <1>1, <2>1, <3>2 DEF Paid, HttpTypes
    <3> QED
      BY <3>1, <3>2
  <2> QED
    BY <2>1, <2>2, <2>3 DEF Paid
<1> QED
  BY <1>12, <1>13, <1>14

\* What bitcoind has sent is cut, or lost.
LEMMA HttpPeerCut ==
  ASSUME HttpInv, PeerCloses \/ PeerResets PROVE HttpInv'
<1> USE DEF HttpInv, clientVars, Breaks
<1>1. /\ breaks' = breaks + 1 /\ UNCHANGED errors /\ requests' = <<>>
      /\ UNCHANGED clientVars /\ peer # "none" /\ peer' \in {"closed", "reset"}
  BY DEF PeerCloses, PeerResets, InUse
<1>2. /\ answers' \in Seq(Parts) /\ Len(answers') <= Len(answers)
      /\ answers = <<>> => answers' = <<>>
      /\ answers' # <<>> => answers # <<>> /\ answers'[1] = answers[1]
  <2>1. CASE answers' = <<>>
    BY <2>1, EmptySeq, LenProperties DEF HttpTypes
  <2>2. CASE \E n \in 0..Len(answers) : answers' = SubSeq(answers, 1, n)
    <3>1. PICK n \in 0..Len(answers) : answers' = SubSeq(answers, 1, n)
      BY <2>2
    <3>2. answers \in Seq(Parts) /\ Len(answers) \in Nat
      BY LenProperties DEF HttpTypes
    <3>3. CASE n = 0
      BY <3>1, <3>2, <3>3
    <3>4. CASE n # 0
      BY <3>1, <3>2, <3>4
    <3> QED
      BY <3>3, <3>4
  <2> QED
    BY <2>1, <2>2 DEF PeerCloses, PeerResets
<1>3. HttpTypes'
  BY <1>1, <1>2 DEF HttpTypes
<1>4. Len(answers') \in Nat /\ Len(answers) \in Nat
  BY <1>2, LenProperties DEF HttpTypes
<1>5. StreamOK'
  <2>1. Len(requests') = 0 /\ call' = call /\ isOpen' = isOpen /\ peer' # "up"
    BY <1>1
  <2>2. CASE call.pc = "head"
    <3>1. answers' # <<>> =>
            /\ answers'[1] \in Heads /\ Len(answers') - 1 <= answers'[1].size
            /\ answers'[1].keeps => answers'[1].sized
      BY <1>2, <1>4, <2>2 DEF StreamOK, Heads
    <3> QED
      BY <1>1, <2>1, <2>2, <3>1 DEF StreamOK
  <2>3. CASE call.pc = "body"
    <3>1. Len(call.body) + Len(answers') <= call.head.size
      BY <1>2, <1>4, <2>3, LenProperties DEF StreamOK, HttpTypes, Call, Heads
    <3> QED
      BY <1>1, <2>1, <2>3, <3>1 DEF StreamOK
  <2>4. CASE call.pc \in {"none", "request", "aborted"}
    BY <1>1, <1>2, <2>1, <2>4 DEF StreamOK
  <2> QED
    BY <2>2, <2>3, <2>4 DEF HttpTypes, Call
<1>6. Paid'
  BY <1>1 DEF Paid, HttpTypes
<1> QED
  BY <1>3, <1>5, <1>6

-----------------------------------------------------------------------------
\* Each step of the composition is one of these, or is none of the socket's.
LEMMA HttpNextInv == ASSUME HttpInv, [ConnectionNext]_connectionVars PROVE HttpInv'
<1> USE DEF HttpOnly, httpVars, clientVars, peerVars
<1>1. CASE Polls
  BY <1>1, HttpCalls, CallerAssumption DEF Polls
<1>2. CASE CallEnds
  BY <1>2, HttpSame DEF CallEnds, Takes, invVars
<1>3. CASE Sends
  BY <1>3, HttpSame DEF Sends, invVars
<1>4. CASE LiveEnds
  BY <1>4, HttpSame DEF LiveEnds, invVars
<1>5. CASE Pushes
  BY <1>5, HttpCalls, CallerAssumption DEF Pushes
<1>6. CASE Answers
  BY <1>6, HttpSame DEF Answers, Takes, invVars
<1>7. CASE SendMessage
  BY <1>7, HttpLocks, HttpRequest, HttpRequestFails, HttpReadHead, HttpReadNoHead,
     HttpReadBody, HttpReturn DEF SendMessage
<1>8. CASE Peer
  BY <1>8, HttpPeerAnswers, HttpPeerCut, HttpRefused DEF Peer
<1>9. CASE Serves
  BY <1>9, HttpSame DEF Serves, invVars
<1>10. CASE Shutdown
  BY <1>10, HttpSame DEF Shutdown, invVars
<1>11. CASE UNCHANGED connectionVars
  BY <1>11, HttpSame DEF connectionVars, invVars
<1> QED
  BY <1>1, <1>2, <1>3, <1>4, <1>5, <1>6, <1>7, <1>8, <1>9, <1>10, <1>11 DEF ConnectionNext

\* However many calls, parts and faults there are: each call that fails has an
\* error of bitcoind or a break of its own, whatever thread finds the socket as
\* that left it, and the daemon ends for a break only
\* (httpclientasio.cpp:186-190, 221-243, 246-250).
THEOREM FailsOnce == ConnectionSpec => []FailsOncePerFault
<1>1. HttpInv => FailsOncePerFault
  BY DEF HttpInv, Paid, FailsOncePerFault
<1>2. ConnectionInit /\ [][ConnectionNext]_connectionVars => []HttpInv
  BY HttpInitInv, HttpNextInv, PTL
<1> QED
  BY <1>1, <1>2, PTL DEF ConnectionSpec

-----------------------------------------------------------------------------
(* Whose the parts are.                                                    *)

Outcome == [id: Id, ok: BOOLEAN, body: Seq(Parts), size: Nat, cut: BOOLEAN]

\* What AnswersBelong says of one outcome.
Belongs(o) ==
  /\ o.body = Body(o.id, Len(o.body))
  /\ Len(o.body) <= o.size
  /\ Len(o.body) = o.size \/ o.cut

\* All parts from one on are of the call that has the mutex.
AllOf(parts, first, id) == \A i \in first..Len(parts) : parts[i] = PartOf(id)

Own ==
  /\ call.before <= breaks
  /\ call.pc = "head" =>
       /\ \A i \in 1..Len(requests) : requests[i] = call.id
       /\ AllOf(answers, 2, call.id)
       /\ answers # <<>> => Len(answers) - 1 = answers[1].size \/ call.before < breaks
  /\ call.pc = "body" =>
       /\ AllOf(call.body, 1, call.id) /\ AllOf(answers, 1, call.id)
       /\ Len(call.body) + Len(answers) = call.head.size \/ call.before < breaks

Outcomes == outcome \in [Caller -> Outcome] /\ \A c \in Caller : Belongs(outcome[c])
OwnInv == HttpInv /\ Outcomes /\ Own

\* An outcome that is set leaves the others as they are.
LEMMA OutcomeSet ==
  ASSUME Outcomes, NEW d \in Caller, NEW o \in Outcome, Belongs(o),
         outcome' = [outcome EXCEPT ![d] = o]
  PROVE  Outcomes'
<1>1. outcome' \in [Caller -> Outcome]
  BY DEF Outcomes
<1>2. ASSUME NEW c \in Caller PROVE Belongs(outcome'[c])
  <2>1. CASE c = d
    BY <2>1 DEF Outcomes
  <2>2. CASE c # d
    BY <2>2 DEF Outcomes
  <2> QED
    BY <2>1, <2>2
<1> QED
  BY <1>1, <1>2 DEF Outcomes, Belongs, Body

\* No outcome, and that of a call that failed.
LEMMA NoOutcomeBelongs ==
  /\ NoOutcome \in Outcome /\ Belongs(NoOutcome)
  /\ \A id \in Id : /\ [NoOutcome EXCEPT !.id = id, !.ok = FALSE] \in Outcome
                    /\ Belongs([NoOutcome EXCEPT !.id = id, !.ok = FALSE])
<1>1. NoOutcome \in Outcome
  BY NoneTypes DEF NoOutcome, Outcome
<1>2. Belongs(NoOutcome)
  <2>1. Body(<<>>, 0) = <<>>
    BY BodyParts, NoneTypes, EmptySeq
  <2>2. Len(NoOutcome.body) = 0 /\ NoOutcome.body = <<>> /\ NoOutcome.id = <<>>
        /\ NoOutcome.size = 0
    BY NoneTypes, EmptySeq DEF NoOutcome
  <2> QED
    BY <2>1, <2>2 DEF Belongs
<1>3. ASSUME NEW id \in Id
      PROVE  /\ [NoOutcome EXCEPT !.id = id, !.ok = FALSE] \in Outcome
             /\ Belongs([NoOutcome EXCEPT !.id = id, !.ok = FALSE])
  <2> DEFINE o == [NoOutcome EXCEPT !.id = id, !.ok = FALSE]
  <2>1. Body(id, 0) = <<>>
    BY BodyParts, EmptySeq
  <2>2. o.body = <<>> /\ o.id = id /\ o.size = 0
    BY DEF NoOutcome
  <2>3. Len(o.body) = 0 /\ o.body = <<>> /\ o.id = id /\ o.size = 0
    BY <2>2, EmptySeq
  <2>4. o \in Outcome
    BY <1>1 DEF NoOutcome, Outcome
  <2> HIDE DEF o
  <2>5. Belongs(o)
    BY <2>1, <2>3 DEF Belongs
  <2> QED
    BY <2>4, <2>5 DEF o
<1> QED
  BY <1>1, <1>2, <1>3

LEMMA OwnInit == ConnectionInit => OwnInv
<1> SUFFICES ASSUME ConnectionInit PROVE OwnInv
  OBVIOUS
<1>1. Outcomes
  BY NoOutcomeBelongs DEF ConnectionInit, HttpInit, Outcomes
<1>2. Own
  BY DEF ConnectionInit, HttpInit, Own, NoCall
<1> QED
  BY <1>1, <1>2, HttpInitInv DEF OwnInv

\* A step that leaves the call, the stream and the outcomes alone, or takes an
\* outcome.
LEMMA OwnSame ==
  ASSUME OwnInv, UNCHANGED <<call, requests, answers, breaks>>,
         outcome' = outcome \/ \E c \in Caller : outcome' = [outcome EXCEPT ![c] = NoOutcome]
  PROVE  Own' /\ Outcomes'
<1>1. Own'
  BY DEF OwnInv, Own, AllOf
<1>2. Outcomes'
  <2>1. CASE outcome' = outcome
    BY <2>1 DEF OwnInv, Outcomes
  <2>2. CASE \E c \in Caller : outcome' = [outcome EXCEPT ![c] = NoOutcome]
    BY <2>2, OutcomeSet, NoOutcomeBelongs DEF OwnInv
  <2> QED
    BY <2>1, <2>2
<1> QED
  BY <1>1, <1>2

LEMMA OwnLocks ==
  ASSUME OwnInv, NEW c \in Caller, Locks(c)
  PROVE  Own' /\ Outcomes'
<1>1. call'.pc = "request" /\ call'.before = breaks /\ breaks' = breaks /\ breaks \in Nat
  BY DEF Locks, NoCall, OwnInv, HttpInv, HttpTypes
<1>2. Own'
  BY <1>1 DEF Own
<1> QED
  BY <1>2 DEF Locks, OwnInv, Outcomes

\* The call has ended, whatever with.
LEMMA OwnEnds ==
  ASSUME OwnInv, sendMutex # NoCaller, NEW o \in Outcome, Belongs(o), Ends(o),
         breaks' \in Nat
  PROVE  Own' /\ Outcomes'
<1>1. Own'
  BY DEF Ends, NoCall, Own
<1>2. sendMutex \in Caller
  BY DEF OwnInv, HttpInv, HttpTypes
<1>3. Outcomes'
  BY <1>2, OutcomeSet DEF Ends, OwnInv
<1> QED
  BY <1>1, <1>3

LEMMA OwnFails ==
  ASSUME OwnInv, sendMutex # NoCaller, Fails, breaks' \in Nat
  PROVE  Own' /\ Outcomes'
<1>1. call.id \in Id
  BY DEF OwnInv, HttpInv, HttpTypes, Call
<1> QED
  BY <1>1, NoOutcomeBelongs, OwnEnds DEF Fails

LEMMA OwnAborts == ASSUME OwnInv, Aborts, breaks' \in Nat PROVE Own' /\ Outcomes'
<1>1. call'.pc = "aborted" /\ call'.before = 0
  BY DEF Aborts, NoCall
<1>2. Own'
  BY <1>1 DEF Own
<1> QED
  BY <1>2 DEF Aborts, OwnInv, Outcomes

LEMMA OwnRequest == ASSUME OwnInv, Request PROVE Own' /\ Outcomes'
<1>1. /\ call.pc = "request" /\ call' = [call EXCEPT !.pc = "head"]
      /\ UNCHANGED <<outcome, breaks>>
      /\ requests' = requests \/ requests' = Append(requests, call.id)
      /\ answers' = answers
  BY DEF Request, Step
<1>2. requests = <<>> /\ answers = <<>> /\ requests \in Seq(Id) /\ call.id \in Id
  BY <1>1 DEF OwnInv, HttpInv, StreamOK, HttpTypes, Call
<1>3. Len(<<>>) = 0
  BY EmptySeq
<1>4. \A i \in 1..Len(requests') : requests'[i] = call.id
  <2>1. CASE requests' = requests
    BY <1>2, <1>3, <2>1
  <2>2. CASE requests' = Append(requests, call.id)
    <3>1. Len(Append(requests, call.id)) = Len(requests) + 1
          /\ Append(requests, call.id)[Len(requests) + 1] = call.id
      BY <1>2, AppendProperties
    <3>2. Len(requests) = 0
      BY <1>2, <1>3
    <3>3. Len(Append(requests, call.id)) = 1 /\ Append(requests, call.id)[1] = call.id
      BY <3>1, <3>2
    <3> QED
      BY <2>2, <3>3
  <2> QED
    BY <1>1, <2>1, <2>2
<1>5. /\ call'.pc = "head" /\ call'.id = call.id /\ call'.before = call.before
  BY <1>1 DEF OwnInv, HttpInv, HttpTypes, Call
<1>6. Own'
  BY <1>1, <1>2, <1>3, <1>4, <1>5 DEF OwnInv, Own, AllOf
<1> QED
  BY <1>1, <1>6 DEF OwnInv, Outcomes

LEMMA OwnReadHead == ASSUME OwnInv, ReadHead PROVE Own' /\ Outcomes'
<1>1. /\ call.pc = "head" /\ call' = [call EXCEPT !.pc = "body", !.head = answers[1]]
      /\ UNCHANGED <<outcome, breaks>>
      /\ answers # <<>> /\ answers' = Tail(answers)
  BY DEF ReadHead, Step
<1>2. /\ call'.pc = "body" /\ call'.id = call.id /\ call'.before = call.before
      /\ call'.head = answers[1] /\ call'.body = call.body /\ call.body = <<>>
  BY <1>1 DEF OwnInv, HttpInv, HttpTypes, Call, StreamOK
<1>3. answers \in Seq(Parts) /\ Len(answers) \in Nat
  BY LenProperties DEF OwnInv, HttpInv, HttpTypes
<1>4. /\ Len(answers') = Len(answers) - 1
      /\ \A i \in 1..Len(answers') : answers'[i] = answers[i + 1]
  BY <1>1, <1>3, HeadTailProperties
<1>5. Len(call'.body) = 0
  BY <1>2, EmptySeq
<1>6. AllOf(answers', 1, call.id)
  BY <1>1, <1>3, <1>4 DEF OwnInv, Own, AllOf
<1>7. AllOf(call'.body, 1, call.id)
  BY <1>5 DEF AllOf
<1>8. Len(call'.body) + Len(answers') = Len(answers) - 1
  BY <1>3, <1>4, <1>5
<1>9. Own'
  BY <1>1, <1>2, <1>6, <1>7, <1>8 DEF OwnInv, Own, AllOf
<1> QED
  BY <1>1, <1>9 DEF OwnInv, Outcomes

LEMMA OwnReadBody == ASSUME OwnInv, ReadBody PROVE Own' /\ Outcomes'
<1>1. /\ call.pc = "body" /\ call' = [call EXCEPT !.body = Append(@, answers[1])]
      /\ UNCHANGED <<outcome, breaks>>
      /\ answers # <<>> /\ answers' = Tail(answers)
  BY DEF ReadBody, Step
<1>2. /\ call'.pc = "body" /\ call'.id = call.id /\ call'.before = call.before
      /\ call'.head = call.head /\ call'.body = Append(call.body, answers[1])
  BY <1>1 DEF OwnInv, HttpInv, HttpTypes, Call
<1>3. answers \in Seq(Parts) /\ Len(answers) \in Nat \ {0} /\ call.body \in Seq(Parts)
      /\ Len(call.body) \in Nat
  BY <1>1, EmptySeq, LenProperties DEF OwnInv, HttpInv, HttpTypes, Call
<1>4. answers[1] \in Parts /\ answers[1] = PartOf(call.id)
  BY <1>1, <1>3, ElementOfSeq DEF OwnInv, Own, AllOf
<1>5. /\ Len(answers') = Len(answers) - 1
      /\ \A i \in 1..Len(answers') : answers'[i] = answers[i + 1]
  BY <1>1, <1>3, HeadTailProperties
<1>6. /\ Len(call'.body) = Len(call.body) + 1
      /\ \A i \in 1..Len(call.body) : call'.body[i] = call.body[i]
      /\ call'.body[Len(call.body) + 1] = answers[1]
  BY <1>2, <1>3, <1>4, AppendProperties
<1>7. AllOf(answers', 1, call.id)
  BY <1>1, <1>3, <1>5 DEF OwnInv, Own, AllOf
<1>8. AllOf(call'.body, 1, call.id)
  <2> SUFFICES ASSUME NEW i \in 1..Len(call'.body) PROVE call'.body[i] = PartOf(call.id)
    BY DEF AllOf
  <2>1. CASE i \in 1..Len(call.body)
    BY <1>1, <1>6, <2>1 DEF OwnInv, Own, AllOf
  <2>2. CASE i = Len(call.body) + 1
    BY <1>4, <1>6, <2>2
  <2> QED
    BY <1>3, <1>6, <2>1, <2>2
<1>9. Len(call'.body) + Len(answers') = Len(call.body) + Len(answers)
  BY <1>3, <1>5, <1>6
<1>10. Own'
  BY <1>1, <1>2, <1>7, <1>8, <1>9 DEF OwnInv, Own, AllOf
<1> QED
  BY <1>1, <1>10 DEF OwnInv, Outcomes

\* What a call returns is what it has read of its own answer.
LEMMA OwnReturn == ASSUME OwnInv, Return PROVE Own' /\ Outcomes'
<1> DEFINE o == [id |-> call.id, ok |-> Whole, body |-> call.body,
                 size |-> call.head.size, cut |-> breaks > call.before]
<1>1. /\ sendMutex # NoCaller /\ call.pc = "body" /\ BodyEnds /\ breaks' = breaks
      /\ Aborts \/ Ends(o)
  BY DEF Return, LastStep
<1>2. /\ call.id \in Id /\ call.body \in Seq(Parts) /\ call.head.size \in Nat
      /\ breaks \in Nat /\ call.before \in Nat
      /\ answers \in Seq(Parts) /\ Len(answers) \in Nat /\ Len(call.body) \in Nat
  BY LenProperties DEF OwnInv, HttpInv, HttpTypes, Call, Heads
<1>3. CASE Aborts
  BY <1>1, <1>2, <1>3, OwnAborts
<1>4. CASE Ends(o)
  <2>1. o \in Outcome
    <3>1. Whole \in BOOLEAN
      BY DEF Whole
    <3> QED
      BY <1>2, <3>1 DEF Outcome
  <2>2. /\ Len(call.body) <= call.head.size
        /\ Len(call.body) = call.head.size \/ breaks > call.before
    <3>1. /\ Len(call.body) + Len(answers) <= call.head.size
          /\ Len(call.body) + Len(answers) = call.head.size \/ call.before < breaks
      BY <1>1 DEF OwnInv, HttpInv, StreamOK, Own
    <3>2. answers = <<>> => Len(answers) = 0
      BY EmptySeq
    <3>3. answers = <<>> \/ Len(call.body) = call.head.size
      BY <1>1 DEF BodyEnds, Ended
    <3> QED
      BY <1>2, <3>1, <3>2, <3>3
  <2>3. call.body = Body(call.id, Len(call.body))
    <3>1. /\ Body(call.id, Len(call.body)) \in Seq(Parts)
          /\ Len(Body(call.id, Len(call.body))) = Len(call.body)
      BY <1>2, BodyParts
    <3>2. ASSUME NEW i \in 1..Len(call.body)
          PROVE  call.body[i] = Body(call.id, Len(call.body))[i]
      BY <1>1 DEF OwnInv, Own, AllOf, Body
    <3> QED
      BY <1>2, <3>1, <3>2, SeqEqual
  <2>4. Belongs(o)
    BY <1>2, <2>2, <2>3 DEF Belongs
  <2> HIDE DEF o
  <2> QED
    BY <1>1, <1>2, <1>4, <2>1, <2>4, OwnEnds
<1> QED
  BY <1>1, <1>3, <1>4

-----------------------------------------------------------------------------
\* bitcoind answers the request it has, and what is cut was a fault.
LEMMA OwnPeerAnswers == ASSUME OwnInv, PeerAnswers PROVE Own' /\ Outcomes'
<1>1. PICK status \in {200, 500}, size \in 0..MaxBody, sized \in BOOLEAN, keeps \in BOOLEAN :
        /\ keeps => sized
        /\ IF status = 200 THEN size > 0 /\ UNCHANGED errors
           ELSE FaultLeft /\ errors' = errors + 1
        /\ answers' = answers \o <<HeadOf(requests[1], status, size, sized, keeps)>>
                              \o Body(requests[1], size)
        /\ peer' = IF keeps THEN peer ELSE "closed"
  BY DEF PeerAnswers
<1> DEFINE head == HeadOf(requests[1], status, size, sized, keeps)
           body == Body(requests[1], size)
<1>2. /\ requests # <<>> /\ requests' = Tail(requests) /\ UNCHANGED <<call, outcome, breaks>>
  BY DEF PeerAnswers, clientVars
<1>3. /\ call.pc = "head" /\ answers = <<>> /\ Len(requests) <= 1 /\ requests \in Seq(Id)
  BY <1>2 DEF OwnInv, HttpInv, StreamOK, HttpTypes
<1>4. Len(requests) = 1
  <2>1. Len(requests) \in Nat \ {0}
    BY <1>2, <1>3, EmptySeq
  <2>2. Len(requests) <= 1
    BY <1>3
  <2> QED
    BY <2>1, <2>2
<1>5. requests[1] = call.id /\ requests[1] \in Id
  <2>1. 1 \in 1..Len(requests)
    BY <1>4
  <2>2. requests[1] = call.id
    BY <1>3, <2>1 DEF OwnInv, Own
  <2>3. requests[1] \in Id
    BY <1>3, <2>1, ElementOfSeq
  <2> QED
    BY <2>2, <2>3
<1>6. size \in Nat
  BY ClientAssumption
<1>7. head \in Parts /\ head.size = size
  BY <1>5, <1>6 DEF HeadOf, Heads, Parts
<1>8. body \in Seq(Parts) /\ Len(body) = size /\ \A i \in 1..size : body[i] = PartOf(call.id)
  BY <1>5, <1>6, BodyParts DEF Body
<1>9. answers' = <<head>> \o body
  BY <1>1, <1>3, <1>7
<1> HIDE DEF head, body
<1>10. /\ Len(answers') = 1 + size /\ answers'[1] = head
       /\ \A i \in 2..Len(answers') : answers'[i] = body[i - 1]
  <2>1. <<head>> \in Seq(Parts) /\ Len(<<head>>) = 1 /\ <<head>>[1] = head
    BY <1>7
  <2>2. /\ Len(<<head>> \o body) = 1 + size
        /\ \A i \in 1..1 + size : (<<head>> \o body)[i] =
              IF i <= 1 THEN <<head>>[i] ELSE body[i - 1]
    BY <1>8, <2>1, ConcatProperties
  <2>3. /\ Len(answers') = 1 + size
        /\ \A i \in 1..1 + size : answers'[i] = IF i <= 1 THEN <<head>>[i] ELSE body[i - 1]
    BY <1>9, <2>2
  <2> QED
    BY <1>6, <2>1, <2>3
<1>11. AllOf(answers', 2, call.id)
  BY <1>6, <1>8, <1>10 DEF AllOf
<1>12. Len(requests') = 0
  BY <1>2, <1>3, <1>4, HeadTailProperties
<1>13. call.before <= breaks'
  BY <1>2 DEF OwnInv, Own, HttpInv, HttpTypes, Call
<1>14. Own'
  BY <1>2, <1>3, <1>6, <1>7, <1>10, <1>11, <1>12, <1>13 DEF Own
<1> QED
  BY <1>2, <1>14 DEF OwnInv, Outcomes

LEMMA OwnPeerCut ==
  ASSUME OwnInv, PeerCloses \/ PeerResets PROVE Own' /\ Outcomes'
<1>1. /\ breaks' = breaks + 1 /\ requests' = <<>> /\ UNCHANGED <<call, outcome>>
  BY DEF PeerCloses, PeerResets, Breaks, clientVars
<1>2. call.before < breaks' /\ call.before <= breaks'
  BY <1>1 DEF OwnInv, Own, HttpInv, HttpTypes, Call
<1>3. /\ Len(answers') <= Len(answers) /\ Len(answers') \in Nat /\ Len(answers) \in Nat
      /\ \A i \in 1..Len(answers') : answers'[i] = answers[i]
  <2>1. answers \in Seq(Parts) /\ Len(answers) \in Nat
    BY LenProperties DEF OwnInv, HttpInv, HttpTypes
  <2>2. CASE answers' = <<>>
    BY <2>1, <2>2, EmptySeq
  <2>3. CASE \E n \in 0..Len(answers) : answers' = SubSeq(answers, 1, n)
    <3>1. PICK n \in 0..Len(answers) : answers' = SubSeq(answers, 1, n)
      BY <2>3
    <3>2. \A i \in 1..n : answers[i] \in Parts
      BY <2>1, ElementOfSeq
    <3>3. /\ Len(answers') = (IF 1 <= n THEN n - 1 + 1 ELSE 0)
          /\ \A i \in 1..n - 1 + 1 : answers'[i] = answers[1 + i - 1]
      BY <2>1, <3>1, <3>2, SubSeqProperties
    <3> QED
      BY <2>1, <3>3
  <2> QED
    BY <2>2, <2>3 DEF PeerCloses, PeerResets
<1>6. Len(requests') = 0
  BY <1>1, EmptySeq
<1>7. Own'
  <2>1. call'.pc = call.pc /\ call'.id = call.id /\ call'.before = call.before
        /\ call'.body = call.body /\ call'.head = call.head
    BY <1>1
  <2>2. CASE call.pc = "head"
    <3>1. ASSUME NEW i \in 2..Len(answers') PROVE answers'[i] = PartOf(call'.id)
      <4>1. i \in 1..Len(answers') /\ i \in 2..Len(answers)
        BY <1>3
      <4>2. answers[i] = PartOf(call.id)
        BY <2>2, <4>1 DEF OwnInv, Own, AllOf
      <4> QED
        BY <1>3, <2>1, <4>1, <4>2
    <3>2. AllOf(answers', 2, call'.id)
      BY <3>1 DEF AllOf
    <3>3. call'.before <= breaks' /\ call'.before < breaks'
      BY <1>2, <2>1
    <3> QED
      BY <1>6, <2>1, <2>2, <3>2, <3>3 DEF Own
  <2>3. CASE call.pc = "body"
    <3>1. ASSUME NEW i \in 1..Len(answers') PROVE answers'[i] = PartOf(call'.id)
      <4>1. i \in 1..Len(answers)
        BY <1>3
      <4>2. answers[i] = PartOf(call.id)
        BY <2>3, <4>1 DEF OwnInv, Own, AllOf
      <4> QED
        BY <1>3, <2>1, <4>2
    <3>2. AllOf(answers', 1, call'.id)
      BY <3>1 DEF AllOf
    <3>3. AllOf(call'.body, 1, call'.id)
      BY <2>1, <2>3 DEF OwnInv, Own, AllOf
    <3>4. call'.before <= breaks' /\ call'.before < breaks'
      BY <1>2, <2>1
    <3> QED
      BY <2>1, <2>3, <3>2, <3>3, <3>4 DEF Own
  <2>4. CASE call.pc \notin {"head", "body"}
    BY <1>1, <2>1, <2>4 DEF Own, OwnInv, HttpInv, HttpTypes, Call
  <2> QED
    BY <2>2, <2>3, <2>4
<1> QED
  BY <1>1, <1>7 DEF OwnInv, Outcomes

-----------------------------------------------------------------------------
LEMMA OwnNext == ASSUME OwnInv, [ConnectionNext]_connectionVars PROVE OwnInv'
<1>1. HttpInv'
  BY HttpNextInv DEF OwnInv
<1> SUFFICES Own' /\ Outcomes'
  BY <1>1 DEF OwnInv
<1>2. breaks' \in Nat
  BY <1>1 DEF HttpInv, HttpTypes
<1> USE DEF HttpOnly, httpVars, clientVars, peerVars
<1>3. CASE Polls \/ Pushes
  BY <1>3, OwnSame DEF Polls, Pushes, Calls
<1>4. CASE CallEnds \/ Answers
  BY <1>4, OwnSame, CallerAssumption DEF CallEnds, Answers, Takes
<1>5. CASE Sends \/ LiveEnds \/ Serves \/ Shutdown
  BY <1>5, OwnSame DEF Sends, LiveEnds, Serves, Shutdown
<1>6. CASE SendMessage
  <2>1. CASE \E c \in Caller : Locks(c)
    BY <2>1, OwnLocks
  <2>2. CASE Request \/ ReadHead \/ ReadBody \/ Return
    BY <2>2, OwnRequest, OwnReadHead, OwnReadBody, OwnReturn
  <2>3. CASE RequestFails \/ ReadNoHead
    BY <1>2, <2>3, OwnAborts, OwnFails DEF RequestFails, ReadNoHead, LastStep
  <2> QED
    BY <1>6, <2>1, <2>2, <2>3 DEF SendMessage
<1>7. CASE Peer
  <2>1. CASE Refused
    BY <1>2, <2>1, OwnAborts DEF Refused
  <2> QED
    BY <1>7, <2>1, OwnPeerAnswers, OwnPeerCut DEF Peer
<1>8. CASE UNCHANGED connectionVars
  BY <1>8, OwnSame DEF connectionVars
<1> QED
  BY <1>3, <1>4, <1>5, <1>6, <1>7, <1>8 DEF ConnectionNext

\* A call returns parts of its own answer only, in their order, and all of them
\* unless the connection broke during the call: whichever thread called before, and
\* whatever was left of its answer (httpclientasio.cpp:130-251).
THEOREM AnswersAlwaysBelong == ConnectionSpec => []AnswersBelong
<1>1. OwnInv => AnswersBelong
  BY DEF OwnInv, Outcomes, Belongs, AnswersBelong
<1>2. ConnectionInit /\ [][ConnectionNext]_connectionVars => []OwnInv
  BY OwnInit, OwnNext, PTL
<1> QED
  BY <1>1, <1>2, PTL DEF ConnectionSpec

-----------------------------------------------------------------------------
(* The broadcasts.                                                         *)

BroadcastTypes ==
  /\ connection \in [Subscriber -> {"none", "open", "closing"}]
  /\ mLivetx \subseteq Subscriber
  /\ sending \in [message: Nat, left: SUBSET Subscriber]
  /\ received \in [Subscriber -> Nat]
  /\ sent \in Nat /\ due \subseteq Subscriber
  /\ threw \in {"nothing", "closing", "gone"}

\* The mutex is held while the thread sends, and not otherwise.
Holder == IF live = "send" THEN sending.message = sent /\ sent # NoMessage ELSE MutexFree

\* Who is still to get the message is subscribed, and who is subscribed has not
\* gone.
Subscribed ==
  /\ sending.left \subseteq mLivetx /\ due \subseteq mLivetx
  /\ \A s \in mLivetx : connection[s] # "none"

\* Those who are not left have the message.
Reached ==
  /\ threw # "gone" /\ (live = "send" => threw = "nothing")
  /\ threw = "nothing" =>
       \A s \in due : s \in sending.left \/ connection[s] # "open" \/ received[s] = sent

BroadcastInv == BroadcastTypes /\ Holder /\ Subscribed /\ Reached

-----------------------------------------------------------------------------
LEMMA BroadcastInitInv == ConnectionInit => BroadcastInv
  BY DEF ConnectionInit, BroadcastInit, Idle, NoMessage, MutexFree, BroadcastInv,
     BroadcastTypes, Holder, Subscribed, Reached

\* A step that is neither of the websocket server's nor of a broadcast.
LEMMA BroadcastSame ==
  ASSUME BroadcastInv, UNCHANGED <<broadcastVars, historyVars>>,
         live' = live \/ (live # "send" /\ live' # "send")
  PROVE  BroadcastInv'
<1> USE DEF BroadcastInv, broadcastVars, historyVars
<1>1. BroadcastTypes' /\ Subscribed'
  BY DEF BroadcastTypes, Subscribed
<1>2. Holder'
  BY DEF Holder, MutexFree, Idle
<1>3. Reached'
  BY DEF Reached
<1> QED
  BY <1>1, <1>2, <1>3

\* The next message is for all who are subscribed then.
LEMMA BroadcastBegins ==
  ASSUME BroadcastInv, live = "call", live' = "send", Broadcasts(sent + 1),
         sent' = sent + 1, due' = mLivetx, threw' = "nothing"
  PROVE  BroadcastInv'
<1> USE DEF BroadcastInv, Broadcasts
<1>1. BroadcastTypes'
  BY DEF BroadcastTypes
<1>2. Holder'
  BY DEF BroadcastTypes, Holder, NoMessage
<1>3. Subscribed'
  BY DEF Subscribed
<1>4. Reached'
  BY DEF Reached
<1> QED
  BY <1>1, <1>2, <1>3, <1>4

LEMMA BroadcastSends ==
  ASSUME BroadcastInv, live = "send", NEW s \in Subscriber, Send(s),
         UNCHANGED <<live, threw, sent, due>>
  PROVE  BroadcastInv'
<1> USE DEF BroadcastInv, Send
<1>1. BroadcastTypes'
  BY DEF BroadcastTypes
<1>2. /\ sending'.message = sending.message /\ sending'.left = sending.left \ {s}
      /\ received'[s] = sending.message
      /\ \A r \in Subscriber : r # s => received'[r] = received[r]
  BY DEF BroadcastTypes
<1>3. Holder'
  BY <1>2 DEF Holder
<1>4. Subscribed'
  BY <1>2 DEF Subscribed
<1>5. Reached'
  BY <1>2 DEF Reached, Holder, BroadcastTypes
<1> QED
  BY <1>1, <1>3, <1>4, <1>5

\* When nobody is left, or a send has thrown, the mutex is free again: what
\* throws is a connection that is closing, since those that have gone are not
\* subscribed.
LEMMA BroadcastStops ==
  ASSUME BroadcastInv, live = "send", live' = "sleep", UNCHANGED <<sent, due>>,
         \/ BroadcastEnds /\ UNCHANGED threw
         \/ SendThrows /\ threw' = IF \E s \in sending.left : connection[s] = "closing"
                                   THEN "closing" ELSE "gone"
  PROVE  BroadcastInv'
<1> USE DEF BroadcastInv, BroadcastEnds, SendThrows
<1>1. /\ sending' = Idle /\ sending'.left = {}
      /\ UNCHANGED <<connection, mConnections, mLivetx, received>>
  BY DEF Idle
<1>2. (threw' = threw /\ sending.left = {}) \/ threw' = "closing"
  <2>1. CASE BroadcastEnds /\ UNCHANGED threw
    BY <2>1
  <2>2. CASE SendThrows /\ threw' = IF \E s \in sending.left : connection[s] = "closing"
                                   THEN "closing" ELSE "gone"
    <3>1. PICK s \in sending.left : connection[s] # "open"
      BY <2>2
    <3>2. s \in mLivetx /\ connection[s] \in {"none", "open", "closing"}
      BY DEF Subscribed, BroadcastTypes
    <3>3. connection[s] = "closing"
      BY <3>1, <3>2 DEF Subscribed
    <3> QED
      BY <2>2, <3>3
  <2> QED
    BY <2>1, <2>2
<1>3. BroadcastTypes'
  BY <1>1, <1>2 DEF BroadcastTypes, Idle, NoMessage
<1>4. Holder'
  BY <1>1 DEF Holder, MutexFree, Idle
<1>5. Subscribed'
  BY <1>1 DEF Subscribed
<1>6. Reached'
  BY <1>1, <1>2 DEF Reached
<1> QED
  BY <1>3, <1>4, <1>5, <1>6

-----------------------------------------------------------------------------
\* The handlers of the websocket server wait for the mutex; a connection that
\* begins to close does not.
LEMMA BroadcastServes == ASSUME BroadcastInv, Serves PROVE BroadcastInv'
<1> USE DEF BroadcastInv
<1>1. UNCHANGED <<live, sent, threw>> /\ due' = due \cap mLivetx'
  BY DEF Serves, threadVars
<1>2. PICK s \in Subscriber : OnOpen(s) \/ OnMessage(s) \/ Closes(s) \/ OnClose(s)
  BY DEF Serves, Websocket
<1>3. /\ UNCHANGED sending
      /\ (UNCHANGED mLivetx /\ mLivetx' \subseteq Subscriber)
           \/ (mLivetx' = mLivetx \cup {s} /\ sending = Idle)
           \/ (mLivetx' = mLivetx \ {s} /\ sending = Idle)
  BY <1>2 DEF OnOpen, OnMessage, Closes, OnClose, Subscribes, Unsubscribed, MutexFree,
     BroadcastTypes
<1>4. BroadcastTypes'
  <2>1. connection' \in [Subscriber -> {"none", "open", "closing"}]
    BY <1>2 DEF OnOpen, OnMessage, Closes, OnClose, BroadcastTypes
  <2>2. received' \in [Subscriber -> Nat]
    BY <1>2 DEF OnOpen, OnMessage, Closes, OnClose, BroadcastTypes, NoMessage
  <2> QED
    BY <1>1, <1>3, <2>1, <2>2 DEF BroadcastTypes
<1>5. Holder'
  BY <1>1, <1>3 DEF Holder, MutexFree, Idle
<1>6. Subscribed'
  <2>1. due' \subseteq mLivetx'
    BY <1>1
  <2>2. sending'.left \subseteq mLivetx'
    BY <1>3 DEF Subscribed, Idle
  <2>3. \A r \in mLivetx' : connection'[r] # "none"
    BY <1>2 DEF OnOpen, OnMessage, Closes, OnClose, Subscribes, Unsubscribed, Subscribed,
       BroadcastTypes
  <2> QED
    BY <2>1, <2>2, <2>3 DEF Subscribed
<1>7. Reached'
  <2> SUFFICES ASSUME threw = "nothing", NEW r \in due',
                      r \notin sending'.left, connection'[r] = "open"
               PROVE  received'[r] = sent'
    BY <1>1 DEF Reached
  <2>1. r \in due /\ r \in Subscriber /\ r \in mLivetx /\ r \notin sending.left
    BY <1>1, <1>3 DEF Subscribed, BroadcastTypes
  <2>2. connection[r] = "open" /\ received'[r] = received[r]
    BY <1>2, <2>1 DEF OnOpen, OnMessage, Closes, OnClose, Subscribed, BroadcastTypes
  <2> QED
    BY <1>1, <2>1, <2>2 DEF Reached
<1> QED
  BY <1>4, <1>5, <1>6, <1>7

LEMMA BroadcastNext ==
  ASSUME BroadcastInv, [ConnectionNext]_connectionVars PROVE BroadcastInv'
<1>1. CASE Polls \/ LiveEnds \/ Pushes \/ Answers
  BY <1>1, BroadcastSame DEF Polls, LiveEnds, Pushes, Answers, HttpOnly, threadVars,
     historyVars
<1>2. CASE CallEnds
  <2>1. PICK tells \in NewBlock :
          IF tells
          THEN /\ Broadcasts(sent + 1)
               /\ sent' = sent + 1 /\ due' = mLivetx /\ threw' = "nothing"
               /\ live' = "send"
          ELSE live' = "sleep" /\ UNCHANGED <<broadcastVars, historyVars>>
    BY <1>2 DEF CallEnds
  <2>2. live = "call"
    BY <1>2 DEF CallEnds
  <2> QED
    BY <2>1, <2>2, BroadcastBegins, BroadcastSame
<1>3. CASE Sends
  BY <1>3, BroadcastSends, BroadcastStops DEF Sends
<1>4. CASE (SendMessage /\ HttpOnly) \/ (Peer /\ HttpOnly)
  BY <1>4, BroadcastSame DEF HttpOnly, threadVars
<1>5. CASE Serves
  BY <1>5, BroadcastServes
<1>6. CASE Shutdown
  BY <1>6, BroadcastSame DEF Shutdown
<1>7. CASE UNCHANGED connectionVars
  BY <1>7, BroadcastSame DEF connectionVars, threadVars
<1> QED
  BY <1>1, <1>2, <1>3, <1>4, <1>5, <1>6, <1>7 DEF ConnectionNext

\* Every subscriber that is still open has the last message, in whatever order
\* they open, subscribe and close, unless its broadcast threw for one that was
\* closing; none that has gone is ever sent to
\* (BroadcastWebsocketServer.hpp:36-81).
THEOREM SubscribersAlwaysReached == ConnectionSpec => []SubscribersReached
<1>1. BroadcastInv => SubscribersReached
  <2> SUFFICES ASSUME BroadcastInv PROVE SubscribersReached
    OBVIOUS
  <2>1. MutexFree => sending.left = {}
    BY DEF MutexFree, Idle
  <2> QED
    BY <2>1 DEF BroadcastInv, Reached, SubscribersReached
<1>2. ConnectionInit /\ [][ConnectionNext]_connectionVars => []BroadcastInv
  BY BroadcastInitInv, BroadcastNext, PTL
<1> QED
  BY <1>1, <1>2, PTL DEF ConnectionSpec
================================================================================
