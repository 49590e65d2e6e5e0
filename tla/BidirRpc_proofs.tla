--------------------------- MODULE BidirRpc_proofs ---------------------------
(***************************************************************************)
(* A bidirectional call from end to end, for any number of requests and    *)
(* replies, with any method or the reflection service.                     *)
(***************************************************************************)
EXTENDS BidirRpc, GrpcCall_proofs

----------------------------------------------------------------------------
\* The handler.

\* The batches a handler starts, and their events.
Shake == [flags |-> Handshake, ops |-> {"send_metadata"}]
Msg == [flags |-> Send, ops |-> {"send_message"}]
Ask == [flags |-> Recv, ops |-> {"recv_message"}]
Close == [flags |-> Closing, ops |-> {"recv_close", "send_status"}]
Abort == [flags |-> {}, ops |-> {"recv_close", "send_status"}]
Shaken == [flags |-> Handshake, result |-> "none"]
Sent == [flags |-> Send, result |-> "none"]
Closed == [flags |-> Closing, result |-> "none"]
Aborted == [flags |-> {}, result |-> "none"]
Request == [flags |-> Recv, result |-> "message"]
NoRequest == [flags |-> Recv, result |-> "null"]

HBatches == {Shake, Msg, Ask, Close, Abort}
HEvents == {Shaken, Sent, Closed, Aborted, Request, NoRequest}
HEnds == {"none", "OK"}
HandlerCall == CallType(HBatches, HEvents, HEnds)

\* The types of the handler's variables; no event is queued twice, and no batch has
\* been refused.
HandlerTypes ==
  /\ phase \in {"new", "attached", "performed"}
  /\ alive \in BOOLEAN /\ finished \in BOOLEAN /\ ready_to_send \in BOOLEAN
  /\ pushed \in Nat /\ read \in Nat
  /\ reader \in {"null", "open", "complete", "failed"}
  /\ ended \in {"no", "finish", "fail"}
  /\ call \in HandlerCall
  /\ Distinct(call.cq) /\ ~call.error

\* The handshake, a reply, a receive or the closing batch is on its way.
Shaking == Shake \in call.out \/ Shaken \in Range(call.cq)
Sending == Msg \in call.out \/ Sent \in Range(call.cq)
Receiving == Ask \in call.out \/ Request \in Range(call.cq) \/ NoRequest \in Range(call.cq)
Ending == Close \in call.out \/ Closed \in Range(call.cq)
Aborting == Abort \in call.out \/ Aborted \in Range(call.cq)

\* A batch of each kind at a time.
OneOfEach ==
  /\ Shaken \in Range(call.cq) => Shake \notin call.out
  /\ Sent \in Range(call.cq) => Msg \notin call.out
  /\ Closed \in Range(call.cq) => Close \notin call.out
  /\ Aborted \in Range(call.cq) => Abort \notin call.out
  /\ Request \in Range(call.cq) \/ NoRequest \in Range(call.cq) => Ask \notin call.out
  /\ Request \in Range(call.cq) => NoRequest \notin Range(call.cq)

\* ready_to_send_ says that no reply is being sent or waits, once the handshake is done.
Sends ==
  /\ Shaking \/ Sending \/ pending_ops # <<>> => ~ready_to_send
  /\ Shaking => ~Sending /\ ~Receiving
  /\ phase # "performed" => ~Shaking /\ ~Sending /\ ~Receiving /\ ~ready_to_send

\* The call is ended once, by fail, or by finish and exec when the last reply was sent.
Ends ==
  /\ Ending \/ ~alive => ended = "finish" /\ call.end # "none"
  /\ ~alive => ~Ending
  /\ Aborting => ended = "fail"
  /\ ended = "no" => call.end = "none"
  /\ ended = "fail" => call.end # "none"
  /\ ended = "finish" /\ call.end # "none" => ready_to_send
  /\ call.final_requested <=> call.end # "none"
  /\ finished <=> ended = "finish"

\* Requests are asked for from the handshake to their end.
Reads ==
  /\ Receiving \/ Shaking \/ phase = "attached" => reader # "complete"
  /\ phase = "new" <=> reader = "null"
  /\ phase = "new" => ended = "no"

\* What is pending follows what has been sent.
Order ==
  /\ Pending(pending_ops, pushed)
  /\ ended # "fail" => call.wire = Messages(pushed - Len(pending_ops))

\* The reflection service answers every request before the next one, and ends its
\* replies after the requests.
Answers ==
  /\ method \in {"any", "reflection"} /\ answering \in {"no", "request", "end"} /\ misused \in BOOLEAN
  /\ method = "any" => answering = "no"
  /\ answering = "request" => reader # "complete"
  /\ answering = "end" => reader = "complete"
  /\ method = "reflection" /\ ended = "finish" => reader = "complete" /\ pushed = read
  /\ method = "reflection" /\ ended = "no" => read = pushed + (IF answering = "request" THEN 1 ELSE 0)

----------------------------------------------------------------------------
\* The session.

\* The batches a session starts, and their events.
Open == [flags |-> Session!Handshake, ops |-> {"send_metadata", "recv_metadata"}]
Write == [flags |-> Session!Write, ops |-> {"send_message"}]
Read == [flags |-> Session!Read, ops |-> {"recv_message"}]
End == [flags |-> Session!Ending, ops |-> {"send_close"}]
Finish == [flags |-> Session!Closing, ops |-> {"recv_status"}]
Opened == [flags |-> Session!Handshake, result |-> "none"]
Written == [flags |-> Session!Write, result |-> "none"]
Ended == [flags |-> Session!Ending, result |-> "none"]
Reply == [flags |-> Session!Read, result |-> "message"]
NoReply == [flags |-> Session!Read, result |-> "null"]
StatusOK == [flags |-> Session!Closing, result |-> "OK"]
StatusError == [flags |-> Session!Closing, result |-> "error"]

SBatches == {Open, Write, Read, End, Finish}
SEvents == {Opened, Written, Ended, Reply, NoReply, StatusOK, StatusError}
SEnds == {"none", "close"}
SessionCall == CallType(SBatches, SEvents, SEnds)

\* The types of the session's variables; a batch is refused only when exec_null came
\* before the completion of send_client_end.
SessionTypes ==
  /\ caller \in {"starting", "streaming", "done"}
  /\ session_alive \in BOOLEAN /\ can_send \in BOOLEAN /\ finished_sending \in BOOLEAN
  /\ finished_receiving \in BOOLEAN /\ end_sent \in BOOLEAN /\ broken \in BOOLEAN
  /\ crashed \in BOOLEAN /\ early \in BOOLEAN
  /\ rep \in {"null", "open", "complete", "failed"}
  /\ requested \in Nat /\ received \in Nat
  /\ session_call \in SessionCall
  /\ Distinct(session_call.cq) /\ (~early => ~session_call.error)

\* The handshake, a request, a receive, the end of the requests or the status is on
\* its way.
Opening == Open \in session_call.out \/ Opened \in Range(session_call.cq)
Writing == Write \in session_call.out \/ Written \in Range(session_call.cq)
Reading == \/ Read \in session_call.out
           \/ Reply \in Range(session_call.cq) \/ NoReply \in Range(session_call.cq)
Closes == End \in session_call.out \/ Ended \in Range(session_call.cq)
Finishes == \/ Finish \in session_call.out
            \/ StatusOK \in Range(session_call.cq) \/ StatusError \in Range(session_call.cq)

\* A batch of each kind at a time.
SessionOneOfEach ==
  /\ Opened \in Range(session_call.cq) => Open \notin session_call.out
  /\ Written \in Range(session_call.cq) => Write \notin session_call.out
  /\ Ended \in Range(session_call.cq) => End \notin session_call.out
  /\ Reply \in Range(session_call.cq) \/ NoReply \in Range(session_call.cq) => Read \notin session_call.out
  /\ Reply \in Range(session_call.cq) => NoReply \notin Range(session_call.cq)
  /\ StatusOK \in Range(session_call.cq) \/ StatusError \in Range(session_call.cq)
       => Finish \notin session_call.out
  /\ StatusOK \in Range(session_call.cq) => StatusError \notin Range(session_call.cq)

\* can_send_ says that no request is being sent or waits; the end is sent after them.
SessionSends ==
  /\ Opening \/ Writing \/ session_ops # <<>> => ~can_send
  /\ Opening => ~Writing /\ ~Reading /\ ~finished_receiving
  /\ Closes => end_sent
  /\ end_sent => can_send /\ finished_sending
  /\ session_call.end # "none" <=> end_sent
  /\ finished_sending <=> caller = "done"

\* The status is asked for when both directions have ended, once unless early.
SessionEnds ==
  /\ Reading => ~finished_receiving
  /\ session_call.final_requested <=> Finishes \/ ~session_alive
  /\ ~session_alive => ~Finishes
  /\ session_call.final_requested => finished_receiving /\ end_sent
  /\ Closes /\ session_call.final_requested => early

\* What is pending follows what has been sent.
SessionOrder ==
  /\ Pending(session_ops, requested)
  /\ session_call.wire = Messages(requested - Len(session_ops))

----------------------------------------------------------------------------
\* Both.

\* What the handler has heard of the session.
HandlerHeard ==
  /\ read + (IF Request \in Range(call.cq) THEN 1 ELSE 0) <= Len(session_call.wire)
  /\ \/ (NoRequest \in Range(call.cq) \/ reader = "complete") /\ ended = "no"
     \/ method = "reflection" /\ ended = "finish"
     => (~broken => session_call.end # "none" /\ read = Len(session_call.wire))

\* What the session has heard of the handler: a status OK is the end of an unbroken
\* call, in which a reflection service has answered all that was asked.
SessionHeard ==
  /\ received + (IF Reply \in Range(session_call.cq) THEN 1 ELSE 0) <= Len(call.wire)
  /\ (NoReply \in Range(session_call.cq) \/ finished_receiving) /\ ~broken
       => call.end # "none" /\ received = Len(call.wire)
  /\ StatusOK \in Range(session_call.cq) \/ rep = "complete"
       => /\ call.end # "none" /\ received = Len(call.wire) /\ caller = "done"
          /\ method = "reflection" /\ ended # "fail" => received = requested

IInv == /\ HandlerTypes /\ OneOfEach /\ Sends /\ Ends /\ Reads /\ Order /\ Answers
        /\ SessionTypes /\ SessionOneOfEach /\ SessionSends /\ SessionEnds /\ SessionOrder
        /\ HandlerHeard /\ SessionHeard
----------------------------------------------------------------------------
\* The batches and events of the handler are told apart by flags and results.
LEMMA HandlerBatches ==
  /\ Recv # Send /\ Recv # Closing /\ Recv # Handshake /\ Recv # {} /\ Send # Closing
  /\ Send # Handshake /\ Send # {} /\ Closing # Handshake /\ Closing # {}
  /\ Handshake # {}
  /\ Shake.flags = Handshake /\ Shake.ops = {"send_metadata"} /\ Msg.flags = Send
  /\ Msg.ops = {"send_message"} /\ Ask.flags = Recv /\ Ask.ops = {"recv_message"}
  /\ Close.flags = Closing /\ Close.ops = {"recv_close", "send_status"}
  /\ Abort.flags = {} /\ Abort.ops = {"recv_close", "send_status"}
  /\ Shaken.flags = Handshake /\ Shaken.result = "none" /\ Sent.flags = Send
  /\ Sent.result = "none" /\ Closed.flags = Closing /\ Closed.result = "none"
  /\ Aborted.flags = {} /\ Aborted.result = "none" /\ Request.flags = Recv
  /\ Request.result = "message" /\ NoRequest.flags = Recv /\ NoRequest.result = "null"
  /\ Shake \in HBatches /\ Msg \in HBatches /\ Ask \in HBatches /\ Close \in HBatches
  /\ Abort \in HBatches
  /\ Shake = [flags |-> Shake.flags, ops |-> Shake.ops]
  /\ Msg = [flags |-> Msg.flags, ops |-> Msg.ops]
  /\ Ask = [flags |-> Ask.flags, ops |-> Ask.ops]
  /\ Close = [flags |-> Close.flags, ops |-> Close.ops]
  /\ Abort = [flags |-> Abort.flags, ops |-> Abort.ops]
  /\ Shake # Msg /\ Shake # Ask /\ Shake # Close /\ Shake # Abort /\ Msg # Ask
  /\ Msg # Close /\ Msg # Abort /\ Ask # Close /\ Ask # Abort /\ Close # Abort
  /\ \A b \in HBatches : /\ b = [flags |-> b.flags, ops |-> b.ops]
                         /\ b = Shake \/ b = Msg \/ b = Ask \/ b = Close \/ b = Abort
  /\ Shaken \in HEvents /\ Sent \in HEvents /\ Closed \in HEvents /\ Aborted \in HEvents
  /\ Request \in HEvents /\ NoRequest \in HEvents
  /\ Shaken # Sent /\ Shaken # Closed /\ Shaken # Aborted /\ Shaken # Request
  /\ Shaken # NoRequest /\ Sent # Closed /\ Sent # Aborted /\ Sent # Request
  /\ Sent # NoRequest /\ Closed # Aborted /\ Closed # Request /\ Closed # NoRequest
  /\ Aborted # Request /\ Aborted # NoRequest /\ Request # NoRequest
  /\ \A e \in HEvents : \/ e = Shaken \/ e = Sent \/ e = Closed
                        \/ e = Aborted \/ e = Request \/ e = NoRequest
<1>1. /\ Recv # Send /\ Recv # Closing /\ Recv # Handshake /\ Recv # {}
      /\ Send # Closing /\ Send # Handshake /\ Send # {} /\ Closing # Handshake
      /\ Closing # {} /\ Handshake # {}
  BY DEF Recv, Send, Closing, Handshake
<1>2. /\ Shake.flags = Handshake /\ Shake.ops = {"send_metadata"} /\ Msg.flags = Send
      /\ Msg.ops = {"send_message"} /\ Ask.flags = Recv /\ Ask.ops = {"recv_message"}
      /\ Close.flags = Closing /\ Close.ops = {"recv_close", "send_status"}
      /\ Abort.flags = {} /\ Abort.ops = {"recv_close", "send_status"}
  BY DEF Shake, Msg, Ask, Close, Abort
<1>3. /\ Shaken.flags = Handshake /\ Shaken.result = "none" /\ Sent.flags = Send
      /\ Sent.result = "none" /\ Closed.flags = Closing /\ Closed.result = "none"
      /\ Aborted.flags = {} /\ Aborted.result = "none" /\ Request.flags = Recv
      /\ Request.result = "message" /\ NoRequest.flags = Recv
      /\ NoRequest.result = "null"
  BY DEF Shaken, Sent, Closed, Aborted, Request, NoRequest
<1>4. /\ Shake \in HBatches /\ Msg \in HBatches /\ Ask \in HBatches
      /\ Close \in HBatches /\ Abort \in HBatches
      /\ Shaken \in HEvents /\ Sent \in HEvents /\ Closed \in HEvents
      /\ Aborted \in HEvents /\ Request \in HEvents /\ NoRequest \in HEvents
  BY DEF HBatches, HEvents
<1>5. /\ Shake # Msg /\ Shake # Ask /\ Shake # Close /\ Shake # Abort /\ Msg # Ask
      /\ Msg # Close /\ Msg # Abort /\ Ask # Close /\ Ask # Abort /\ Close # Abort
  BY <1>1, <1>2
<1>6. /\ Shaken # Sent /\ Shaken # Closed /\ Shaken # Aborted /\ Shaken # Request
      /\ Shaken # NoRequest /\ Sent # Closed /\ Sent # Aborted /\ Sent # Request
      /\ Sent # NoRequest /\ Closed # Aborted /\ Closed # Request /\ Closed # NoRequest
      /\ Aborted # Request /\ Aborted # NoRequest /\ Request # NoRequest
  BY <1>1, <1>3
<1>7. /\ \A b \in HBatches : /\ b = [flags |-> b.flags, ops |-> b.ops]
                             /\ b = Shake \/ b = Msg \/ b = Ask \/ b = Close \/ b = Abort
  BY DEF HBatches, Shake, Msg, Ask, Close, Abort
<1>8. /\ Shake = [flags |-> Shake.flags, ops |-> Shake.ops]
      /\ Msg = [flags |-> Msg.flags, ops |-> Msg.ops]
      /\ Ask = [flags |-> Ask.flags, ops |-> Ask.ops]
      /\ Close = [flags |-> Close.flags, ops |-> Close.ops]
      /\ Abort = [flags |-> Abort.flags, ops |-> Abort.ops]
  BY DEF Shake, Msg, Ask, Close, Abort
<1>9. /\ \A e \in HEvents : \/ e = Shaken \/ e = Sent \/ e = Closed
                            \/ e = Aborted \/ e = Request \/ e = NoRequest
  BY DEF HEvents
<1> QED
  BY <1>1, <1>2, <1>3, <1>4, <1>5, <1>6, <1>7, <1>9, <1>8

\* The handler's part of the invariant.
HInv == HandlerTypes /\ OneOfEach /\ Sends /\ Ends /\ Reads /\ Order

\* What the session may rely on: the wire grows, and not after its end, and the way the
\* replies ended stays.
WireGrows ==
  /\ Len(call.wire) <= Len(call'.wire)
  /\ call.end # "none" => call'.end # "none" /\ call'.wire = call.wire
  /\ ended # "no" => ended' = ended

\* A step in which the handler hears nothing of the session.
HearsNothing ==
  /\ read' = read /\ (reader' = "complete" <=> reader = "complete")
  /\ Request \in Range(call'.cq) => Request \in Range(call.cq)
  /\ NoRequest \in Range(call'.cq) => NoRequest \in Range(call.cq)

\* The handler's call and what is pending for it.
LEMMA HandlerFacts ==
  ASSUME HInv
  PROVE  /\ call \in HandlerCall /\ call \in CallType(HBatches, HEvents, HEnds)
         /\ Distinct(call.cq) /\ ~call.error
         /\ call.out \subseteq HBatches /\ call.wire \in Seq(Nat) /\ Len(call.wire) \in Nat
         /\ call.cq \in Seq(HEvents) /\ Range(call.cq) \subseteq HEvents
         /\ pushed \in Nat /\ Pending(pending_ops, pushed)
         /\ pushed - Len(pending_ops) \in Nat
         /\ Len(Messages(pushed - Len(pending_ops))) = pushed - Len(pending_ops)
         /\ pending_ops = <<>> => pushed - Len(pending_ops) = pushed
<1>1. pushed \in Nat /\ Pending(pending_ops, pushed)
  BY DEF HInv, HandlerTypes, Order
<1>2. /\ pushed - Len(pending_ops) \in Nat
      /\ Len(Messages(pushed - Len(pending_ops))) = pushed - Len(pending_ops)
      /\ pending_ops = <<>> => pushed - Len(pending_ops) = pushed
  BY <1>1, PendingLen
<1>3. call \in HandlerCall /\ Distinct(call.cq) /\ ~call.error
  BY DEF HInv, HandlerTypes
<1>4. call.out \subseteq HBatches /\ call.wire \in Seq(Nat) /\ call.cq \in Seq(HEvents)
  BY <1>3 DEF HandlerCall, CallType
<1>5. Len(call.wire) \in Nat /\ Range(call.cq) \subseteq HEvents
  BY <1>4, LenProperties, RangeOfSeq
<1> QED
  BY <1>1, <1>2, <1>3, <1>4, <1>5 DEF HandlerCall

\* The worker takes the first event of the handler's call.
LEMMA HandlerTakes ==
  ASSUME HInv, call.cq # <<>>, NEW d, d = TakeEvent(call)
  PROVE  /\ d \in HandlerCall
         /\ Head(call.cq) \in HEvents /\ Head(call.cq) \in Range(call.cq)
         /\ d.out = call.out
         /\ Range(d.cq) = Range(call.cq) \ {Head(call.cq)} /\ Distinct(d.cq)
         /\ d.wire = call.wire /\ d.end = call.end
         /\ d.final_requested = call.final_requested /\ d.error = call.error
<1>1. call \in CallType(HBatches, HEvents, HEnds) /\ Distinct(call.cq)
  BY HandlerFacts
<1>2. PICK c : c = call
  OBVIOUS
<1>3. /\ d \in CallType(HBatches, HEvents, HEnds)
      /\ Head(c.cq) \in HEvents /\ Head(c.cq) \in Range(c.cq)
      /\ d.out = c.out
      /\ Range(d.cq) = Range(c.cq) \ {Head(c.cq)} /\ Distinct(d.cq)
      /\ d.wire = c.wire /\ d.end = c.end
      /\ d.final_requested = c.final_requested /\ d.error = c.error
  BY <1>1, <1>2, TakeFields
<1> QED
  BY <1>2, <1>3 DEF HandlerCall

\* flush_ sends the oldest of the replies that wait, when no other is being sent; after the
\* end of the call grpc core takes it and sends nothing.
LEMMA HandlerFlush ==
  ASSUME NEW c \in HandlerCall, Msg \notin c.out,
         NEW n \in Nat, NEW ops, Pending(ops, n), ops # <<>>, flush(c, ops)
  PROVE  /\ ready_to_send' = FALSE /\ Pending(pending_ops', n) /\ call' \in HandlerCall
         /\ call'.out = c.out \cup {Msg} /\ call'.cq = c.cq /\ call'.end = c.end
         /\ c.end = "none" /\ c.wire = Messages(n - Len(ops))
              => call'.wire = Messages(n - Len(pending_ops')) /\ Len(call'.wire) = Len(c.wire) + 1
         /\ c.end # "none" => call'.wire = c.wire
         /\ call'.final_requested = c.final_requested /\ call'.error = c.error
<1>1. Legal(c, Msg.ops) /\ Msg.ops \cap FinalRecvs = {}
  <2>1. \A b \in c.out : b = Shake \/ b = Ask \/ b = Close \/ b = Abort
    BY HandlerBatches DEF HandlerCall, CallType
  <2>2. \A b \in c.out : "send_message" \notin b.ops
    BY <2>1, HandlerBatches
  <2> QED
    BY <2>2, HandlerBatches DEF Legal, FinalSends, FinalRecvs
<1>2. PICK t : t = Tail(ops)
  OBVIOUS
<1>3. /\ Pending(t, n) /\ Head(ops) \in Nat
      /\ Messages(n - Len(ops)) \o <<Head(ops)>> = Messages(n - Len(t))
      /\ Len(Messages(n - Len(t))) = Len(Messages(n - Len(ops))) + 1
  BY <1>2, PendingSend
<1>4. PICK s : s = <<Head(ops)>>
  OBVIOUS
<1>5. s \in Seq(Nat)
  BY <1>3, <1>4
<1>6. PICK d : d = StartBatch(c, Msg.flags, Msg.ops, s)
  OBVIOUS
<1>7. call' = d /\ ready_to_send' = FALSE /\ pending_ops' = t
  BY <1>2, <1>4, <1>6, HandlerBatches DEF flush, front
<1>8. /\ d \in HandlerCall
      /\ d.out = c.out \cup {Msg}
      /\ d.cq = c.cq /\ d.end = c.end
      /\ d.wire = IF c.end = "none" THEN c.wire \o s ELSE c.wire
      /\ d.final_requested = c.final_requested /\ d.error = c.error
  <2>1. c \in CallType(HBatches, HEvents, HEnds)
    BY DEF HandlerCall
  <2>2. Msg \in HBatches /\ Msg = [flags |-> Msg.flags, ops |-> Msg.ops]
    BY HandlerBatches
  <2>3. /\ d \in CallType(HBatches, HEvents, HEnds)
        /\ d.out = c.out \cup {Msg}
        /\ d.cq = c.cq /\ d.end = c.end
        /\ d.wire = IF c.end = "none" THEN c.wire \o s ELSE c.wire
        /\ d.final_requested = c.final_requested /\ d.error = c.error
    BY <1>1, <1>5, <1>6, <2>1, <2>2, StartFields
  <2> QED
    BY <2>3 DEF HandlerCall
<1>9. c.end = "none" /\ c.wire = Messages(n - Len(ops))
        => d.wire = Messages(n - Len(t)) /\ Len(d.wire) = Len(c.wire) + 1
  BY <1>3, <1>4, <1>8
<1> QED
  BY <1>3, <1>7, <1>8, <1>9

\* Another request is asked for when none is outstanding.
LEMMA HandlerAsks ==
  ASSUME NEW c \in HandlerCall, Ask \notin c.out, NEW d, d = AskForRequest(c)
  PROVE  /\ d \in HandlerCall
         /\ d.out = c.out \cup {Ask} /\ d.cq = c.cq /\ d.end = c.end /\ d.wire = c.wire
         /\ d.final_requested = c.final_requested /\ d.error = c.error
<1>1. Legal(c, Ask.ops) /\ Ask.ops \cap FinalRecvs = {}
  <2>1. \A b \in c.out : b = Shake \/ b = Msg \/ b = Close \/ b = Abort
    BY HandlerBatches DEF HandlerCall, CallType
  <2>2. \A b \in c.out : "recv_message" \notin b.ops
    BY <2>1, HandlerBatches
  <2> QED
    BY <2>2, HandlerBatches DEF Legal, FinalSends, FinalRecvs
<1>2. PICK s : s = <<>>
  OBVIOUS
<1>3. d = StartBatch(c, Ask.flags, Ask.ops, s)
  BY <1>2, HandlerBatches DEF AskForRequest
<1>4. /\ c \in CallType(HBatches, HEvents, HEnds)
      /\ Ask \in HBatches /\ Ask = [flags |-> Ask.flags, ops |-> Ask.ops]
  BY HandlerBatches DEF HandlerCall
<1>5. Legal(c, Ask.ops)
  BY <1>1
<1>6. /\ d \in CallType(HBatches, HEvents, HEnds)
      /\ d.out = c.out \cup {Ask} /\ d.cq = c.cq /\ d.end = c.end /\ d.wire = c.wire
      /\ d.error = c.error
      /\ d.final_requested <=> c.final_requested \/ Ask.ops \cap FinalRecvs # {}
  BY <1>2, <1>3, <1>4, <1>5, AskFields
<1>7. d.final_requested = c.final_requested
  BY <1>1, <1>4, <1>6 DEF CallType
<1> QED
  BY <1>6, <1>7 DEF HandlerCall

\* The metadata can be sent at any time.
LEMMA HandlerShakes ==
  ASSUME NEW c \in HandlerCall, NEW d, d = StartBatch(c, Handshake, {"send_metadata"}, <<>>)
  PROVE  /\ d \in HandlerCall
         /\ d.out = c.out \cup {Shake} /\ d.cq = c.cq /\ d.end = c.end /\ d.wire = c.wire
         /\ d.final_requested = c.final_requested /\ d.error = c.error
<1>1. Legal(c, Shake.ops) /\ Shake.ops \cap FinalRecvs = {}
  <2>1. Shake.ops = {"send_metadata"}
    BY HandlerBatches
  <2>2. /\ "send_metadata" \notin FinalSends /\ "send_metadata" \notin FinalRecvs
        /\ "send_metadata" \notin {"send_message", "recv_message"}
    BY DEF FinalSends, FinalRecvs
  <2> QED
    BY <2>1, <2>2 DEF Legal
<1>2. PICK s : s = <<>>
  OBVIOUS
<1>3. d = StartBatch(c, Shake.flags, Shake.ops, s)
  BY <1>2, HandlerBatches
<1>4. /\ c \in CallType(HBatches, HEvents, HEnds)
      /\ Shake \in HBatches /\ Shake = [flags |-> Shake.flags, ops |-> Shake.ops]
  BY HandlerBatches DEF HandlerCall
<1>5. Legal(c, Shake.ops)
  BY <1>1
<1>6. /\ d \in CallType(HBatches, HEvents, HEnds)
      /\ d.out = c.out \cup {Shake} /\ d.cq = c.cq /\ d.end = c.end /\ d.wire = c.wire
      /\ d.error = c.error
      /\ d.final_requested <=> c.final_requested \/ Shake.ops \cap FinalRecvs # {}
  BY <1>2, <1>3, <1>4, <1>5, AskFields
<1>7. d.final_requested = c.final_requested
  BY <1>1, <1>4, <1>6 DEF CallType
<1> QED
  BY <1>6, <1>7 DEF HandlerCall

\* The call can be ended once, whatever is outstanding, with a flag or without.
LEMMA HandlerEnds ==
  ASSUME NEW c \in HandlerCall, c.end = "none", ~c.final_requested,
         NEW b, b = Close \/ b = Abort, NEW d, d = EndBatch(c, b.flags, b.ops, "OK")
  PROVE  /\ d \in HandlerCall
         /\ d.out = c.out \cup {b} /\ d.cq = c.cq /\ d.end = "OK" /\ d.wire = c.wire
         /\ d.final_requested /\ d.error = c.error
<1>1. b.ops = {"recv_close", "send_status"} /\ b \in HBatches /\ b = [flags |-> b.flags, ops |-> b.ops]
  BY HandlerBatches
<1>2. PICK ops : ops = b.ops
  OBVIOUS
<1>3. ops \cap {"send_message", "recv_message"} = {} /\ "recv_close" \in ops
  BY <1>1, <1>2
<1>4. Legal(c, ops)
  BY <1>3 DEF Legal
<1>5. ops \cap FinalRecvs # {}
  BY <1>3 DEF FinalRecvs
<1>6. PICK n : n = "OK"
  OBVIOUS
<1>7. n \in HEnds /\ c \in CallType(HBatches, HEvents, HEnds) /\ d = EndBatch(c, b.flags, b.ops, n)
  BY <1>6 DEF HEnds, HandlerCall
<1>8. b \in HBatches /\ b = [flags |-> b.flags, ops |-> b.ops] /\ Legal(c, b.ops) /\ b.ops \cap FinalRecvs # {}
  BY <1>1, <1>2, <1>4, <1>5
<1>9. /\ d \in CallType(HBatches, HEvents, HEnds)
      /\ d.out = c.out \cup {b} /\ d.cq = c.cq /\ d.end = n /\ d.wire = c.wire
      /\ d.final_requested /\ d.error = c.error
  BY <1>7, <1>8, EndFields
<1> QED
  BY <1>6, <1>9 DEF HandlerCall

----------------------------------------------------------------------------
\* The steps of the handler.

\* The reply stream is attached.
LEMMA perform_attach_step ==
  ASSUME HInv, perform_attach
  PROVE  HInv' /\ WireGrows /\ HearsNothing
<1>1. /\ phase = "new" /\ phase' = "attached" /\ reader' = "open"
      /\ UNCHANGED <<alive, finished, ready_to_send, pending_ops, call, read, pushed, ended>>
  BY DEF perform_attach, sending, replies
<1>2. reader = "null"
  BY <1>1 DEF HInv, Reads
<1>3. HandlerTypes'
  BY <1>1, <1>2 DEF HInv, HandlerTypes
<1>4. OneOfEach'
  BY <1>1, <1>2, HandlerBatches DEF HInv, OneOfEach, Shaking, Sending, Receiving, Ending, Aborting
<1>5. Sends'
  BY <1>1, <1>2, HandlerBatches DEF HInv, HandlerTypes, OneOfEach, Sends, Shaking, Sending, Receiving
<1>6. Ends'
  BY <1>1, <1>2, HandlerBatches DEF HInv, HandlerTypes, OneOfEach, Sends, Sending, Ends, Ending, Aborting
<1>7. Reads'
  BY <1>1, <1>2, HandlerBatches DEF HInv, HandlerTypes, OneOfEach, Sends, Reads, Shaking, Sending, Receiving
<1>8. Order'
  BY <1>1, <1>2 DEF HInv, HandlerTypes, Order, Ends
<1>9. WireGrows /\ HearsNothing
  BY <1>1, <1>2, HandlerFacts, HandlerBatches DEF HInv, Ends, Order, WireGrows, HearsNothing
<1> QED
  BY <1>3, <1>4, <1>5, <1>6, <1>7, <1>8, <1>9 DEF HInv

\* The metadata are sent, perhaps after the reply stream has failed.
LEMMA perform_handshake_step ==
  ASSUME HInv, perform_handshake
  PROVE  HInv' /\ WireGrows /\ HearsNothing
<1>1. /\ phase = "attached" /\ phase' = "performed"
      /\ UNCHANGED <<alive, finished, ready_to_send, pending_ops, reader, read, pushed, ended>>
  BY DEF perform_handshake, sending, reading, replies
<1>2. PICK d : d = StartBatch(call, Handshake, {"send_metadata"}, <<>>)
  OBVIOUS
<1>3. call \in HandlerCall
  BY HandlerFacts
<1>4. /\ d \in HandlerCall
      /\ d.out = call.out \cup {Shake} /\ d.cq = call.cq /\ d.end = call.end /\ d.wire = call.wire
      /\ d.final_requested = call.final_requested /\ d.error = call.error
  BY <1>2, <1>3, HandlerShakes
<1>5. call' = d
  BY <1>2 DEF perform_handshake
<1>6. ~Shaking /\ ~Sending /\ ~Receiving /\ ~ready_to_send /\ reader # "null" /\ reader # "complete"
  BY <1>1 DEF HInv, Sends, Reads
<1>7. HandlerTypes'
  BY <1>1, <1>4, <1>5, <1>6 DEF HInv, HandlerTypes
<1>8. OneOfEach'
  BY <1>1, <1>4, <1>5, <1>6, HandlerBatches DEF HInv, OneOfEach, Shaking, Sending, Receiving, Ending, Aborting
<1>9. Sends'
  BY <1>1, <1>4, <1>5, <1>6, HandlerBatches DEF HInv, HandlerTypes, OneOfEach, Sends, Shaking, Sending, Receiving
<1>10. Ends'
  BY <1>1, <1>4, <1>5, <1>6, HandlerBatches DEF HInv, HandlerTypes, OneOfEach, Sends, Sending, Ends, Ending, Aborting
<1>11. Reads'
  BY <1>1, <1>4, <1>5, <1>6, HandlerBatches DEF HInv, HandlerTypes, OneOfEach, Sends, Reads, Shaking, Sending, Receiving
<1>12. Order'
  BY <1>1, <1>4, <1>5, <1>6 DEF HInv, HandlerTypes, Order, Ends
<1>13. WireGrows /\ HearsNothing
  BY <1>1, <1>4, <1>5, <1>6, HandlerFacts, HandlerBatches DEF HInv, Ends, Order, WireGrows, HearsNothing
<1> QED
  BY <1>7, <1>8, <1>9, <1>10, <1>11, <1>12, <1>13 DEF HInv

\* A reply is sent when ready_to_send_, and appended to pending_ops_ otherwise.
LEMMA push_step ==
  ASSUME HInv, push
  PROVE  HInv' /\ WireGrows /\ HearsNothing
<1>1. PICK ops : ops = Append(pending_ops, pushed + 1)
  OBVIOUS
<1>2. PICK n : n = pushed + 1
  OBVIOUS
<1>3. n \in Nat /\ Pending(ops, n) /\ ops # <<>> /\ n - Len(ops) = pushed - Len(pending_ops)
  <2>1. pushed \in Nat /\ Pending(pending_ops, pushed)
    BY HandlerFacts
  <2>2. Pending(ops, pushed + 1) /\ ops # <<>> /\ (pushed + 1) - Len(ops) = pushed - Len(pending_ops)
    BY <1>1, <2>1, PendingPush
  <2> QED
    BY <1>2, <2>1, <2>2
<1>4. /\ phase # "new" /\ ended = "no" /\ pushed' = n
      /\ UNCHANGED <<phase, alive, finished, reader, read, ended>>
  BY <1>2 DEF push, Streaming, reading
<1>5. call.end = "none" /\ ~call.final_requested
  BY <1>4 DEF HInv, Ends
<1>6. CASE ~ready_to_send
  <2>1. pending_ops' = ops /\ UNCHANGED <<ready_to_send, call>>
    BY <1>1, <1>6 DEF push, MaySend
  <2>2. HandlerTypes'
    BY <1>3, <1>4, <1>5, <1>6, <2>1 DEF HInv, HandlerTypes
  <2>3. OneOfEach'
    BY <1>3, <1>4, <1>5, <1>6, <2>1, HandlerBatches DEF HInv, OneOfEach, Shaking, Sending, Receiving, Ending, Aborting
  <2>4. Sends'
    BY <1>3, <1>4, <1>5, <1>6, <2>1, HandlerBatches DEF HInv, HandlerTypes, OneOfEach, Sends, Shaking, Sending, Receiving
  <2>5. Ends'
    BY <1>3, <1>4, <1>5, <1>6, <2>1, HandlerBatches DEF HInv, HandlerTypes, OneOfEach, Sends, Sending, Ends, Ending, Aborting
  <2>6. Reads'
    BY <1>3, <1>4, <1>5, <1>6, <2>1, HandlerBatches DEF HInv, HandlerTypes, OneOfEach, Sends, Reads, Shaking, Sending, Receiving
  <2>7. Order'
    BY <1>3, <1>4, <1>5, <1>6, <2>1 DEF HInv, HandlerTypes, Order, Ends
  <2>8. WireGrows /\ HearsNothing
    BY <1>3, <1>4, <1>5, <1>6, <2>1, HandlerFacts, HandlerBatches DEF HInv, Ends, Order, WireGrows, HearsNothing
  <2> QED
    BY <2>2, <2>3, <2>4, <2>5, <2>6, <2>7, <2>8 DEF HInv
<1>7. CASE ready_to_send
  <2>1. flush(call, ops) /\ phase = "performed" /\ ~Shaking /\ ~Sending /\ pending_ops = <<>>
    BY <1>1, <1>7 DEF push, MaySend, HInv, Sends, HandlerTypes
  <2>2. Msg \notin call.out /\ call \in HandlerCall
    BY <2>1, HandlerFacts DEF Sending
  <2>3. /\ ready_to_send' = FALSE /\ Pending(pending_ops', n) /\ call' \in HandlerCall
        /\ call'.out = call.out \cup {Msg} /\ call'.cq = call.cq /\ call'.end = call.end
        /\ call.end = "none" /\ call.wire = Messages(n - Len(ops))
             => call'.wire = Messages(n - Len(pending_ops')) /\ Len(call'.wire) = Len(call.wire) + 1
        /\ call.end # "none" => call'.wire = call.wire
        /\ call'.final_requested = call.final_requested /\ call'.error = call.error
    BY <1>3, <2>1, <2>2, HandlerFlush
  <2>4. call.wire = Messages(n - Len(ops))
    BY <1>3, <1>4 DEF HInv, Order
  <2>5. HandlerTypes'
    BY <1>3, <1>4, <1>5, <1>7, <2>1, <2>2, <2>3, <2>4 DEF HInv, HandlerTypes
  <2>6. OneOfEach'
    BY <1>3, <1>4, <1>5, <1>7, <2>1, <2>2, <2>3, <2>4, HandlerBatches DEF HInv, OneOfEach, Shaking, Sending, Receiving, Ending, Aborting
  <2>7. Sends'
    BY <1>3, <1>4, <1>5, <1>7, <2>1, <2>2, <2>3, <2>4, HandlerBatches DEF HInv, HandlerTypes, OneOfEach, Sends, Shaking, Sending, Receiving
  <2>8. Ends'
    BY <1>3, <1>4, <1>5, <1>7, <2>1, <2>2, <2>3, <2>4, HandlerBatches DEF HInv, HandlerTypes, OneOfEach, Sends, Sending, Ends, Ending, Aborting
  <2>9. Reads'
    BY <1>3, <1>4, <1>5, <1>7, <2>1, <2>2, <2>3, <2>4, HandlerBatches DEF HInv, HandlerTypes, OneOfEach, Sends, Reads, Shaking, Sending, Receiving
  <2>10. Order'
    BY <1>3, <1>4, <1>5, <1>7, <2>1, <2>2, <2>3, <2>4 DEF HInv, HandlerTypes, Order, Ends
  <2>11. WireGrows /\ HearsNothing
    BY <1>3, <1>4, <1>5, <1>7, <2>1, <2>2, <2>3, <2>4, HandlerFacts, HandlerBatches DEF HInv, Ends, Order, WireGrows, HearsNothing
  <2> QED
    BY <2>5, <2>6, <2>7, <2>8, <2>9, <2>10, <2>11 DEF HInv
<1> QED
  BY <1>6, <1>7 DEF HInv, HandlerTypes

\* The status is sent when ready_to_send_.
LEMMA finish_step ==
  ASSUME HInv, finish
  PROVE  HInv' /\ WireGrows /\ HearsNothing
<1>1. /\ phase # "new" /\ ended = "no" /\ finished' = TRUE /\ ended' = "finish"
      /\ UNCHANGED <<phase, alive, ready_to_send, pending_ops, reader, read, pushed>>
  BY DEF finish, Streaming, reading
<1>2. call.end = "none" /\ ~call.final_requested /\ ~Ending /\ ~Aborting /\ alive
  BY <1>1 DEF HInv, Ends
<1>3. CASE ~ready_to_send
  <2>1. call' = call
    BY <1>3 DEF finish, MaySend
  <2>2. HandlerTypes'
    BY <1>1, <1>2, <1>3, <2>1 DEF HInv, HandlerTypes
  <2>3. OneOfEach'
    BY <1>1, <1>2, <1>3, <2>1, HandlerBatches DEF HInv, OneOfEach, Shaking, Sending, Receiving, Ending, Aborting
  <2>4. Sends'
    BY <1>1, <1>2, <1>3, <2>1, HandlerBatches DEF HInv, HandlerTypes, OneOfEach, Sends, Shaking, Sending, Receiving
  <2>5. Ends'
    BY <1>1, <1>2, <1>3, <2>1, HandlerBatches DEF HInv, HandlerTypes, OneOfEach, Sends, Sending, Ends, Ending, Aborting
  <2>6. Reads'
    BY <1>1, <1>2, <1>3, <2>1, HandlerBatches DEF HInv, HandlerTypes, OneOfEach, Sends, Reads, Shaking, Sending, Receiving
  <2>7. Order'
    BY <1>1, <1>2, <1>3, <2>1 DEF HInv, HandlerTypes, Order, Ends
  <2>8. WireGrows /\ HearsNothing
    BY <1>1, <1>2, <1>3, <2>1, HandlerFacts, HandlerBatches DEF HInv, Ends, Order, WireGrows, HearsNothing
  <2> QED
    BY <2>2, <2>3, <2>4, <2>5, <2>6, <2>7, <2>8 DEF HInv
<1>4. CASE ready_to_send
  <2>1. PICK d : d = EndBatch(call, Close.flags, Close.ops, "OK")
    OBVIOUS
  <2>2. call' = d
    BY <1>4, <2>1, HandlerBatches DEF finish, MaySend, send_server_end
  <2>3. call \in HandlerCall
    BY HandlerFacts
  <2>4. PICK b : b = Close
    OBVIOUS
  <2>5. /\ d \in HandlerCall
        /\ d.out = call.out \cup {Close} /\ d.cq = call.cq /\ d.end = "OK" /\ d.wire = call.wire
        /\ d.final_requested /\ d.error = call.error
    BY <1>2, <2>1, <2>3, <2>4, HandlerEnds
  <2>6. ~Shaking /\ ~Sending /\ pending_ops = <<>>
    BY <1>4 DEF HInv, Sends
  <2>7. HandlerTypes'
    BY <1>1, <1>2, <1>4, <2>2, <2>5, <2>6 DEF HInv, HandlerTypes
  <2>8. OneOfEach'
    BY <1>1, <1>2, <1>4, <2>2, <2>5, <2>6, HandlerBatches DEF HInv, OneOfEach, Shaking, Sending, Receiving, Ending, Aborting
  <2>9. Sends'
    BY <1>1, <1>2, <1>4, <2>2, <2>5, <2>6, HandlerBatches DEF HInv, HandlerTypes, OneOfEach, Sends, Shaking, Sending, Receiving
  <2>10. Ends'
    BY <1>1, <1>2, <1>4, <2>2, <2>5, <2>6, HandlerBatches DEF HInv, HandlerTypes, OneOfEach, Sends, Sending, Ends, Ending, Aborting
  <2>11. Reads'
    BY <1>1, <1>2, <1>4, <2>2, <2>5, <2>6, HandlerBatches DEF HInv, HandlerTypes, OneOfEach, Sends, Reads, Shaking, Sending, Receiving
  <2>12. Order'
    BY <1>1, <1>2, <1>4, <2>2, <2>5, <2>6 DEF HInv, HandlerTypes, Order, Ends
  <2>13. WireGrows /\ HearsNothing
    BY <1>1, <1>2, <1>4, <2>2, <2>5, <2>6, HandlerFacts, HandlerBatches DEF HInv, Ends, Order, WireGrows, HearsNothing
  <2> QED
    BY <2>7, <2>8, <2>9, <2>10, <2>11, <2>12, <2>13 DEF HInv
<1> QED
  BY <1>3, <1>4 DEF HInv, HandlerTypes

\* fail sends a status beside whatever is outstanding.
LEMMA fail_step ==
  ASSUME HInv, fail
  PROVE  HInv' /\ WireGrows /\ HearsNothing
<1>1. /\ phase # "new" /\ ended = "no" /\ ended' = "fail"
      /\ UNCHANGED <<phase, alive, finished, ready_to_send, pending_ops, reader, read, pushed>>
  BY DEF fail, Streaming, sending, reading
<1>2. call.end = "none" /\ ~call.final_requested /\ ~Ending /\ ~Aborting /\ alive /\ ~finished
  BY <1>1 DEF HInv, Ends
<1>3. PICK d : d = EndBatch(call, Abort.flags, Abort.ops, "OK")
  OBVIOUS
<1>4. call' = d
  <2>1. {"send_status", "recv_close"} = {"recv_close", "send_status"}
    OBVIOUS
  <2>2. Abort.flags = {} /\ Abort.ops = {"recv_close", "send_status"}
    BY HandlerBatches
  <2> QED
    BY <1>3, <2>1, <2>2 DEF fail
<1>5. call \in HandlerCall
  BY HandlerFacts
<1>6. PICK b : b = Abort
  OBVIOUS
<1>7. /\ d \in HandlerCall
      /\ d.out = call.out \cup {Abort} /\ d.cq = call.cq /\ d.end = "OK" /\ d.wire = call.wire
      /\ d.final_requested /\ d.error = call.error
  BY <1>2, <1>3, <1>5, <1>6, HandlerEnds
<1>8. HandlerTypes'
  BY <1>1, <1>2, <1>4, <1>7 DEF HInv, HandlerTypes
<1>9. OneOfEach'
  BY <1>1, <1>2, <1>4, <1>7, HandlerBatches DEF HInv, OneOfEach, Shaking, Sending, Receiving, Ending, Aborting
<1>10. Sends'
  BY <1>1, <1>2, <1>4, <1>7, HandlerBatches DEF HInv, HandlerTypes, OneOfEach, Sends, Shaking, Sending, Receiving
<1>11. Ends'
  BY <1>1, <1>2, <1>4, <1>7, HandlerBatches DEF HInv, HandlerTypes, OneOfEach, Sends, Sending, Ends, Ending, Aborting
<1>12. Reads'
  BY <1>1, <1>2, <1>4, <1>7, HandlerBatches DEF HInv, HandlerTypes, OneOfEach, Sends, Reads, Shaking, Sending, Receiving
<1>13. Order'
  BY <1>1, <1>2, <1>4, <1>7 DEF HInv, HandlerTypes, Order, Ends
<1>14. WireGrows /\ HearsNothing
  BY <1>1, <1>2, <1>4, <1>7, HandlerFacts, HandlerBatches DEF HInv, Ends, Order, WireGrows, HearsNothing
<1> QED
  BY <1>8, <1>9, <1>10, <1>11, <1>12, <1>13, <1>14 DEF HInv

\* Sending and receiving start when the metadata have been sent.
LEMMA exec_handshake_step ==
  ASSUME HInv, exec_handshake
  PROVE  HInv' /\ WireGrows /\ HearsNothing
<1>1. PICK d : d = TakeEvent(call)
  OBVIOUS
<1>2. /\ d \in HandlerCall
      /\ Head(call.cq) \in HEvents /\ Head(call.cq) \in Range(call.cq)
      /\ d.out = call.out
      /\ Range(d.cq) = Range(call.cq) \ {Head(call.cq)} /\ Distinct(d.cq)
      /\ d.wire = call.wire /\ d.end = call.end
      /\ d.final_requested = call.final_requested /\ d.error = call.error
  BY <1>1, HandlerTakes DEF exec_handshake, Handles, Event
<1>3. Head(call.cq) = Shaken /\ alive /\ phase = "performed"
  BY <1>2, HandlerBatches DEF exec_handshake, Handles, Event
<1>4. UNCHANGED <<phase, alive, finished, reader, read, pushed, ended>>
  BY DEF exec_handshake, reading, replies
<1>5. PICK x : x = AskForRequest(d)
  OBVIOUS
<1>6. /\ Ask \notin d.out /\ Shake \notin d.out /\ Msg \notin d.out /\ Shaken \notin Range(d.cq)
      /\ Sent \notin Range(d.cq) /\ ~ready_to_send /\ reader # "complete"
      /\ Request \notin Range(d.cq) /\ NoRequest \notin Range(d.cq)
  BY <1>2, <1>3 DEF HInv, OneOfEach, Sends, Shaking, Sending, Receiving, Reads
<1>7. /\ x \in HandlerCall
      /\ x.out = d.out \cup {Ask} /\ x.cq = d.cq /\ x.end = d.end /\ x.wire = d.wire
      /\ x.final_requested = d.final_requested /\ x.error = d.error
  BY <1>2, <1>5, <1>6, HandlerAsks
<1>8. CASE pending_ops # <<>>
  <2>1. flush(x, pending_ops)
    BY <1>1, <1>5, <1>8 DEF exec_handshake
  <2>2. Msg \notin x.out /\ pushed \in Nat /\ Pending(pending_ops, pushed)
    BY <1>6, <1>7, HandlerFacts, HandlerBatches
  <2>3. /\ ready_to_send' = FALSE /\ Pending(pending_ops', pushed) /\ call' \in HandlerCall
        /\ call'.out = x.out \cup {Msg} /\ call'.cq = x.cq /\ call'.end = x.end
        /\ x.end = "none" /\ x.wire = Messages(pushed - Len(pending_ops))
             => call'.wire = Messages(pushed - Len(pending_ops')) /\ Len(call'.wire) = Len(x.wire) + 1
        /\ x.end # "none" => call'.wire = x.wire
        /\ call'.final_requested = x.final_requested /\ call'.error = x.error
    BY <1>7, <1>8, <2>1, <2>2, HandlerFlush
  <2>4. (ended = "finish" => call.end = "none") /\ (ended = "no" => call.end = "none")
    BY <1>6 DEF HInv, Ends
  <2>5. HandlerTypes'
    BY <1>2, <1>3, <1>4, <1>6, <1>7, <1>8, <2>3, <2>4 DEF HInv, HandlerTypes
  <2>6. OneOfEach'
    BY <1>2, <1>3, <1>4, <1>6, <1>7, <1>8, <2>3, <2>4, HandlerBatches DEF HInv, OneOfEach, Shaking, Sending, Receiving, Ending, Aborting
  <2>7. Sends'
    BY <1>2, <1>3, <1>4, <1>6, <1>7, <1>8, <2>3, <2>4, HandlerBatches DEF HInv, HandlerTypes, OneOfEach, Sends, Shaking, Sending, Receiving
  <2>8. Ends'
    BY <1>2, <1>3, <1>4, <1>6, <1>7, <1>8, <2>3, <2>4, HandlerBatches DEF HInv, HandlerTypes, OneOfEach, Sends, Sending, Ends, Ending, Aborting
  <2>9. Reads'
    BY <1>2, <1>3, <1>4, <1>6, <1>7, <1>8, <2>3, <2>4, HandlerBatches DEF HInv, HandlerTypes, OneOfEach, Sends, Reads, Shaking, Sending, Receiving
  <2>10. Order'
    BY <1>2, <1>3, <1>4, <1>6, <1>7, <1>8, <2>3, <2>4 DEF HInv, HandlerTypes, Order, Ends
  <2>11. WireGrows /\ HearsNothing
    BY <1>2, <1>3, <1>4, <1>6, <1>7, <1>8, <2>3, <2>4, HandlerFacts, HandlerBatches DEF HInv, Ends, Order, WireGrows, HearsNothing
  <2> QED
    BY <2>5, <2>6, <2>7, <2>8, <2>9, <2>10, <2>11 DEF HInv
<1>9. CASE pending_ops = <<>>
  <2>1. ready_to_send' = TRUE /\ call' = x /\ pending_ops' = pending_ops
    BY <1>1, <1>5, <1>9 DEF exec_handshake
  <2>2. HandlerTypes'
    BY <1>2, <1>3, <1>4, <1>6, <1>7, <1>9, <2>1 DEF HInv, HandlerTypes
  <2>3. OneOfEach'
    BY <1>2, <1>3, <1>4, <1>6, <1>7, <1>9, <2>1, HandlerBatches DEF HInv, OneOfEach, Shaking, Sending, Receiving, Ending, Aborting
  <2>4. Sends'
    BY <1>2, <1>3, <1>4, <1>6, <1>7, <1>9, <2>1, HandlerBatches DEF HInv, HandlerTypes, OneOfEach, Sends, Shaking, Sending, Receiving
  <2>5. Ends'
    BY <1>2, <1>3, <1>4, <1>6, <1>7, <1>9, <2>1, HandlerBatches DEF HInv, HandlerTypes, OneOfEach, Sends, Sending, Ends, Ending, Aborting
  <2>6. Reads'
    BY <1>2, <1>3, <1>4, <1>6, <1>7, <1>9, <2>1, HandlerBatches DEF HInv, HandlerTypes, OneOfEach, Sends, Reads, Shaking, Sending, Receiving
  <2>7. Order'
    BY <1>2, <1>3, <1>4, <1>6, <1>7, <1>9, <2>1 DEF HInv, HandlerTypes, Order, Ends
  <2>8. WireGrows /\ HearsNothing
    BY <1>2, <1>3, <1>4, <1>6, <1>7, <1>9, <2>1, HandlerFacts, HandlerBatches DEF HInv, Ends, Order, WireGrows, HearsNothing
  <2> QED
    BY <2>2, <2>3, <2>4, <2>5, <2>6, <2>7, <2>8 DEF HInv
<1> QED
  BY <1>8, <1>9

\* The next reply is sent, or the status of a stream that has finished.
LEMMA exec_send_step ==
  ASSUME HInv, exec_send
  PROVE  HInv' /\ WireGrows /\ HearsNothing
<1>1. PICK d : d = TakeEvent(call)
  OBVIOUS
<1>2. /\ d \in HandlerCall
      /\ Head(call.cq) \in HEvents /\ Head(call.cq) \in Range(call.cq)
      /\ d.out = call.out
      /\ Range(d.cq) = Range(call.cq) \ {Head(call.cq)} /\ Distinct(d.cq)
      /\ d.wire = call.wire /\ d.end = call.end
      /\ d.final_requested = call.final_requested /\ d.error = call.error
  BY <1>1, HandlerTakes DEF exec_send, Handles, Event
<1>3. Head(call.cq) = Sent /\ alive /\ phase = "performed"
  BY <1>2, HandlerBatches DEF exec_send, Handles, Event
<1>4. UNCHANGED <<phase, alive, finished, reader, read, pushed, ended>>
  BY DEF exec_send, reading, replies
<1>5. /\ Msg \notin d.out /\ Shake \notin d.out /\ Shaken \notin Range(d.cq)
      /\ Sent \notin Range(d.cq) /\ ~ready_to_send
  BY <1>2, <1>3 DEF HInv, OneOfEach, Sends, Shaking, Sending
<1>6. (ended = "finish" => call.end = "none") /\ (ended = "no" => call.end = "none")
  BY <1>5 DEF HInv, Ends
<1>7. CASE pending_ops # <<>>
  <2>1. flush(d, pending_ops)
    BY <1>1, <1>7 DEF exec_send
  <2>2. pushed \in Nat /\ Pending(pending_ops, pushed)
    BY HandlerFacts
  <2>3. /\ ready_to_send' = FALSE /\ Pending(pending_ops', pushed) /\ call' \in HandlerCall
        /\ call'.out = d.out \cup {Msg} /\ call'.cq = d.cq /\ call'.end = d.end
        /\ d.end = "none" /\ d.wire = Messages(pushed - Len(pending_ops))
             => call'.wire = Messages(pushed - Len(pending_ops')) /\ Len(call'.wire) = Len(d.wire) + 1
        /\ d.end # "none" => call'.wire = d.wire
        /\ call'.final_requested = d.final_requested /\ call'.error = d.error
    BY <1>2, <1>5, <1>7, <2>1, <2>2, HandlerFlush
  <2>4. HandlerTypes'
    BY <1>2, <1>3, <1>4, <1>5, <1>6, <1>7, <2>3 DEF HInv, HandlerTypes
  <2>5. OneOfEach'
    BY <1>2, <1>3, <1>4, <1>5, <1>6, <1>7, <2>3, HandlerBatches DEF HInv, OneOfEach, Shaking, Sending, Receiving, Ending, Aborting
  <2>6. Sends'
    BY <1>2, <1>3, <1>4, <1>5, <1>6, <1>7, <2>3, HandlerBatches DEF HInv, HandlerTypes, OneOfEach, Sends, Shaking, Sending, Receiving
  <2>7. Ends'
    BY <1>2, <1>3, <1>4, <1>5, <1>6, <1>7, <2>3, HandlerBatches DEF HInv, HandlerTypes, OneOfEach, Sends, Sending, Ends, Ending, Aborting
  <2>8. Reads'
    BY <1>2, <1>3, <1>4, <1>5, <1>6, <1>7, <2>3, HandlerBatches DEF HInv, HandlerTypes, OneOfEach, Sends, Reads, Shaking, Sending, Receiving
  <2>9. Order'
    BY <1>2, <1>3, <1>4, <1>5, <1>6, <1>7, <2>3 DEF HInv, HandlerTypes, Order, Ends
  <2>10. WireGrows /\ HearsNothing
    BY <1>2, <1>3, <1>4, <1>5, <1>6, <1>7, <2>3, HandlerFacts, HandlerBatches DEF HInv, Ends, Order, WireGrows, HearsNothing
  <2> QED
    BY <2>4, <2>5, <2>6, <2>7, <2>8, <2>9, <2>10 DEF HInv
<1>8. CASE pending_ops = <<>> /\ finished
  <2>1. PICK x : x = EndBatch(d, Close.flags, Close.ops, "OK")
    OBVIOUS
  <2>2. ready_to_send' = TRUE /\ call' = x /\ pending_ops' = pending_ops
    BY <1>1, <1>8, <2>1, HandlerBatches DEF exec_send, close_if_finished, send_server_end
  <2>3. PICK b : b = Close
    OBVIOUS
  <2>4. ended = "finish" /\ d.end = "none" /\ ~d.final_requested
    BY <1>2, <1>6, <1>8 DEF HInv, Ends
  <2>5. /\ x \in HandlerCall
        /\ x.out = d.out \cup {Close} /\ x.cq = d.cq /\ x.end = "OK" /\ x.wire = d.wire
        /\ x.final_requested /\ x.error = d.error
    BY <1>2, <2>1, <2>3, <2>4, HandlerEnds
  <2>6. ~Ending /\ Aborted \notin Range(call.cq) /\ Abort \notin call.out
    BY <1>2, <2>4, HandlerBatches DEF HInv, Ends, Aborting
  <2>7. HandlerTypes'
    BY <1>2, <1>3, <1>4, <1>5, <1>8, <2>2, <2>4, <2>5, <2>6 DEF HInv, HandlerTypes
  <2>8. OneOfEach'
    BY <1>2, <1>3, <1>4, <1>5, <1>8, <2>2, <2>4, <2>5, <2>6, HandlerBatches DEF HInv, OneOfEach, Shaking, Sending, Receiving, Ending, Aborting
  <2>9. Sends'
    BY <1>2, <1>3, <1>4, <1>5, <1>8, <2>2, <2>4, <2>5, <2>6, HandlerBatches DEF HInv, HandlerTypes, OneOfEach, Sends, Shaking, Sending, Receiving
  <2>10. Ends'
    BY <1>2, <1>3, <1>4, <1>5, <1>8, <2>2, <2>4, <2>5, <2>6, HandlerBatches DEF HInv, HandlerTypes, OneOfEach, Sends, Sending, Ends, Ending, Aborting
  <2>11. Reads'
    BY <1>2, <1>3, <1>4, <1>5, <1>8, <2>2, <2>4, <2>5, <2>6, HandlerBatches DEF HInv, HandlerTypes, OneOfEach, Sends, Reads, Shaking, Sending, Receiving
  <2>12. Order'
    BY <1>2, <1>3, <1>4, <1>5, <1>8, <2>2, <2>4, <2>5, <2>6 DEF HInv, HandlerTypes, Order, Ends
  <2>13. WireGrows /\ HearsNothing
    BY <1>2, <1>3, <1>4, <1>5, <1>8, <2>2, <2>4, <2>5, <2>6, HandlerFacts, HandlerBatches DEF HInv, Ends, Order, WireGrows, HearsNothing
  <2> QED
    BY <2>7, <2>8, <2>9, <2>10, <2>11, <2>12, <2>13 DEF HInv
<1>9. CASE pending_ops = <<>> /\ ~finished
  <2>1. ready_to_send' = TRUE /\ call' = d /\ pending_ops' = pending_ops
    BY <1>1, <1>9 DEF exec_send, close_if_finished
  <2>2. HandlerTypes'
    BY <1>2, <1>3, <1>4, <1>5, <1>9, <2>1 DEF HInv, HandlerTypes
  <2>3. OneOfEach'
    BY <1>2, <1>3, <1>4, <1>5, <1>9, <2>1, HandlerBatches DEF HInv, OneOfEach, Shaking, Sending, Receiving, Ending, Aborting
  <2>4. Sends'
    BY <1>2, <1>3, <1>4, <1>5, <1>9, <2>1, HandlerBatches DEF HInv, HandlerTypes, OneOfEach, Sends, Shaking, Sending, Receiving
  <2>5. Ends'
    BY <1>2, <1>3, <1>4, <1>5, <1>9, <2>1, HandlerBatches DEF HInv, HandlerTypes, OneOfEach, Sends, Sending, Ends, Ending, Aborting
  <2>6. Reads'
    BY <1>2, <1>3, <1>4, <1>5, <1>9, <2>1, HandlerBatches DEF HInv, HandlerTypes, OneOfEach, Sends, Reads, Shaking, Sending, Receiving
  <2>7. Order'
    BY <1>2, <1>3, <1>4, <1>5, <1>9, <2>1 DEF HInv, HandlerTypes, Order, Ends
  <2>8. WireGrows /\ HearsNothing
    BY <1>2, <1>3, <1>4, <1>5, <1>9, <2>1, HandlerFacts, HandlerBatches DEF HInv, Ends, Order, WireGrows, HearsNothing
  <2> QED
    BY <2>2, <2>3, <2>4, <2>5, <2>6, <2>7, <2>8 DEF HInv
<1> QED
  BY <1>7, <1>8, <1>9 DEF HInv, HandlerTypes

\* The batch of fail is done.
LEMMA exec_none_step ==
  ASSUME HInv, exec_none
  PROVE  HInv' /\ WireGrows /\ HearsNothing
<1>1. PICK d : d = TakeEvent(call)
  OBVIOUS
<1>2. /\ d \in HandlerCall
      /\ Head(call.cq) \in HEvents /\ Head(call.cq) \in Range(call.cq)
      /\ d.out = call.out
      /\ Range(d.cq) = Range(call.cq) \ {Head(call.cq)} /\ Distinct(d.cq)
      /\ d.wire = call.wire /\ d.end = call.end
      /\ d.final_requested = call.final_requested /\ d.error = call.error
  BY <1>1, HandlerTakes DEF exec_none, Handles, Event
<1>3. Head(call.cq) = Aborted /\ alive /\ phase = "performed"
  BY <1>2, HandlerBatches DEF exec_none, Handles, Event
<1>4. call' = d /\ UNCHANGED <<phase, alive, finished, ready_to_send, pending_ops, reader, read, pushed, ended>>
  BY <1>1 DEF exec_none, sending, reading, replies
<1>5. HandlerTypes'
  BY <1>2, <1>3, <1>4 DEF HInv, HandlerTypes
<1>6. OneOfEach'
  BY <1>2, <1>3, <1>4, HandlerBatches DEF HInv, OneOfEach, Shaking, Sending, Receiving, Ending, Aborting
<1>7. Sends'
  BY <1>2, <1>3, <1>4, HandlerBatches DEF HInv, HandlerTypes, OneOfEach, Sends, Shaking, Sending, Receiving
<1>8. Ends'
  BY <1>2, <1>3, <1>4, HandlerBatches DEF HInv, HandlerTypes, OneOfEach, Sends, Sending, Ends, Ending, Aborting
<1>9. Reads'
  BY <1>2, <1>3, <1>4, HandlerBatches DEF HInv, HandlerTypes, OneOfEach, Sends, Reads, Shaking, Sending, Receiving
<1>10. Order'
  BY <1>2, <1>3, <1>4 DEF HInv, HandlerTypes, Order, Ends
<1>11. WireGrows /\ HearsNothing
  BY <1>2, <1>3, <1>4, HandlerFacts, HandlerBatches DEF HInv, Ends, Order, WireGrows, HearsNothing
<1> QED
  BY <1>5, <1>6, <1>7, <1>8, <1>9, <1>10, <1>11 DEF HInv

\* The handler is deleted when its status has been sent.
LEMMA exec_closing_step ==
  ASSUME HInv, exec_closing
  PROVE  HInv' /\ WireGrows /\ HearsNothing
<1>1. PICK d : d = TakeEvent(call)
  OBVIOUS
<1>2. /\ d \in HandlerCall
      /\ Head(call.cq) \in HEvents /\ Head(call.cq) \in Range(call.cq)
      /\ d.out = call.out
      /\ Range(d.cq) = Range(call.cq) \ {Head(call.cq)} /\ Distinct(d.cq)
      /\ d.wire = call.wire /\ d.end = call.end
      /\ d.final_requested = call.final_requested /\ d.error = call.error
  BY <1>1, HandlerTakes DEF exec_closing, Handles, Event
<1>3. Head(call.cq) = Closed /\ alive /\ phase = "performed"
  BY <1>2, HandlerBatches DEF exec_closing, Handles, Event
<1>4. /\ call' = d /\ alive' = FALSE
      /\ reader' = (IF reader = "open" THEN "failed" ELSE reader)
      /\ UNCHANGED <<phase, finished, ready_to_send, pending_ops, read, pushed, ended>>
  BY <1>1 DEF exec_closing, sending, replies
<1>5. HandlerTypes'
  BY <1>2, <1>3, <1>4 DEF HInv, HandlerTypes
<1>6. OneOfEach'
  BY <1>2, <1>3, <1>4, HandlerBatches DEF HInv, OneOfEach, Shaking, Sending, Receiving, Ending, Aborting
<1>7. Sends'
  BY <1>2, <1>3, <1>4, HandlerBatches DEF HInv, HandlerTypes, OneOfEach, Sends, Shaking, Sending, Receiving
<1>8. Ends'
  BY <1>2, <1>3, <1>4, HandlerBatches DEF HInv, HandlerTypes, OneOfEach, Sends, Sending, Ends, Ending, Aborting
<1>9. Reads'
  BY <1>2, <1>3, <1>4, HandlerBatches DEF HInv, HandlerTypes, OneOfEach, Sends, Reads, Shaking, Sending, Receiving
<1>10. Order'
  BY <1>2, <1>3, <1>4 DEF HInv, HandlerTypes, Order, Ends
<1>11. WireGrows /\ HearsNothing
  BY <1>2, <1>3, <1>4, HandlerFacts, HandlerBatches DEF HInv, Ends, Order, WireGrows, HearsNothing
<1> QED
  BY <1>5, <1>6, <1>7, <1>8, <1>9, <1>10, <1>11 DEF HInv

\* The model drops an event for a handler that was deleted.
LEMMA exec_deleted_step ==
  ASSUME HInv, exec_deleted
  PROVE  HInv' /\ WireGrows /\ HearsNothing
<1>1. PICK d : d = TakeEvent(call)
  OBVIOUS
<1>2. /\ d \in HandlerCall
      /\ Head(call.cq) \in HEvents /\ Head(call.cq) \in Range(call.cq)
      /\ d.out = call.out
      /\ Range(d.cq) = Range(call.cq) \ {Head(call.cq)} /\ Distinct(d.cq)
      /\ d.wire = call.wire /\ d.end = call.end
      /\ d.final_requested = call.final_requested /\ d.error = call.error
  BY <1>1, HandlerTakes DEF exec_deleted
<1>3. ~alive /\ call' = d /\ UNCHANGED <<phase, alive, finished, ready_to_send, pending_ops, reader, read, pushed, ended>>
  BY <1>1 DEF exec_deleted, sending, reading, replies
<1>4. HandlerTypes'
  BY <1>2, <1>3 DEF HInv, HandlerTypes
<1>5. OneOfEach'
  BY <1>2, <1>3, HandlerBatches DEF HInv, OneOfEach, Shaking, Sending, Receiving, Ending, Aborting
<1>6. Sends'
  BY <1>2, <1>3, HandlerBatches DEF HInv, HandlerTypes, OneOfEach, Sends, Shaking, Sending, Receiving
<1>7. Ends'
  BY <1>2, <1>3, HandlerBatches DEF HInv, HandlerTypes, OneOfEach, Sends, Sending, Ends, Ending, Aborting
<1>8. Reads'
  BY <1>2, <1>3, HandlerBatches DEF HInv, HandlerTypes, OneOfEach, Sends, Reads, Shaking, Sending, Receiving
<1>9. Order'
  BY <1>2, <1>3 DEF HInv, HandlerTypes, Order, Ends
<1>10. WireGrows /\ HearsNothing
  BY <1>2, <1>3, HandlerFacts, HandlerBatches DEF HInv, Ends, Order, WireGrows, HearsNothing
<1> QED
  BY <1>4, <1>5, <1>6, <1>7, <1>8, <1>9, <1>10 DEF HInv

\* What exec_recv makes of what the handler was told.
Hears ==
  /\ Head(call.cq) \in Range(call.cq) /\ reader # "complete"
  /\ \/ Head(call.cq) = Request /\ read' = read + 1 /\ reader' = reader
     \/ Head(call.cq) = NoRequest /\ read' = read /\ reader' = "complete"
  /\ Request \notin Range(call'.cq) /\ NoRequest \notin Range(call'.cq)

\* A request is handed on and the next one asked for, or the reader completed.
LEMMA exec_recv_step ==
  ASSUME HInv, exec_recv
  PROVE  HInv' /\ WireGrows /\ Hears
<1>1. PICK d : d = TakeEvent(call)
  OBVIOUS
<1>2. /\ d \in HandlerCall
      /\ Head(call.cq) \in HEvents /\ Head(call.cq) \in Range(call.cq)
      /\ d.out = call.out
      /\ Range(d.cq) = Range(call.cq) \ {Head(call.cq)} /\ Distinct(d.cq)
      /\ d.wire = call.wire /\ d.end = call.end
      /\ d.final_requested = call.final_requested /\ d.error = call.error
  BY <1>1, HandlerTakes DEF exec_recv, Handles, Event
<1>3. (Head(call.cq) = Request \/ Head(call.cq) = NoRequest) /\ alive /\ phase = "performed"
  BY <1>2, HandlerBatches DEF exec_recv, Handles, Event
<1>4. UNCHANGED <<phase, alive, finished, ready_to_send, pending_ops, pushed, ended>>
  BY DEF exec_recv, sending, replies
<1>5. /\ Ask \notin d.out /\ Request \notin Range(d.cq) /\ NoRequest \notin Range(d.cq)
      /\ ~Shaking /\ reader # "complete" /\ reader # "null"
  BY <1>2, <1>3 DEF HInv, OneOfEach, Sends, Receiving, Reads
<1>6. CASE Head(call.cq) = Request
  <2>1. PICK x : x = AskForRequest(d)
    OBVIOUS
  <2>2. /\ x \in HandlerCall
        /\ x.out = d.out \cup {Ask} /\ x.cq = d.cq /\ x.end = d.end /\ x.wire = d.wire
        /\ x.final_requested = d.final_requested /\ x.error = d.error
    BY <1>2, <1>5, <2>1, HandlerAsks
  <2>3. call' = x /\ read' = read + 1 /\ reader' = reader
    BY <1>1, <1>6, <2>1, HandlerBatches DEF exec_recv
  <2>4. HandlerTypes'
    BY <1>2, <1>3, <1>4, <1>5, <1>6, <2>2, <2>3 DEF HInv, HandlerTypes
  <2>5. OneOfEach'
    BY <1>2, <1>3, <1>4, <1>5, <1>6, <2>2, <2>3, HandlerBatches DEF HInv, OneOfEach, Shaking, Sending, Receiving, Ending, Aborting
  <2>6. Sends'
    BY <1>2, <1>3, <1>4, <1>5, <1>6, <2>2, <2>3, HandlerBatches DEF HInv, HandlerTypes, OneOfEach, Sends, Shaking, Sending, Receiving
  <2>7. Ends'
    BY <1>2, <1>3, <1>4, <1>5, <1>6, <2>2, <2>3, HandlerBatches DEF HInv, HandlerTypes, OneOfEach, Sends, Sending, Ends, Ending, Aborting
  <2>8. Reads'
    BY <1>2, <1>3, <1>4, <1>5, <1>6, <2>2, <2>3, HandlerBatches DEF HInv, HandlerTypes, OneOfEach, Sends, Reads, Shaking, Sending, Receiving
  <2>9. Order'
    BY <1>2, <1>3, <1>4, <1>5, <1>6, <2>2, <2>3 DEF HInv, HandlerTypes, Order, Ends
  <2>10. WireGrows /\ Hears
    BY <1>2, <1>3, <1>4, <1>5, <1>6, <2>2, <2>3, HandlerFacts, HandlerBatches DEF HInv, Ends, Order, WireGrows, Hears
  <2> QED
    BY <2>4, <2>5, <2>6, <2>7, <2>8, <2>9, <2>10 DEF HInv
<1>7. CASE Head(call.cq) = NoRequest
  <2>1. call' = d /\ read' = read /\ reader' = "complete"
    BY <1>1, <1>7, HandlerBatches DEF exec_recv, AfterRequests
  <2>2. HandlerTypes'
    BY <1>2, <1>3, <1>4, <1>5, <1>7, <2>1 DEF HInv, HandlerTypes
  <2>3. OneOfEach'
    BY <1>2, <1>3, <1>4, <1>5, <1>7, <2>1, HandlerBatches DEF HInv, OneOfEach, Shaking, Sending, Receiving, Ending, Aborting
  <2>4. Sends'
    BY <1>2, <1>3, <1>4, <1>5, <1>7, <2>1, HandlerBatches DEF HInv, HandlerTypes, OneOfEach, Sends, Shaking, Sending, Receiving
  <2>5. Ends'
    BY <1>2, <1>3, <1>4, <1>5, <1>7, <2>1, HandlerBatches DEF HInv, HandlerTypes, OneOfEach, Sends, Sending, Ends, Ending, Aborting
  <2>6. Reads'
    BY <1>2, <1>3, <1>4, <1>5, <1>7, <2>1, HandlerBatches DEF HInv, HandlerTypes, OneOfEach, Sends, Reads, Shaking, Sending, Receiving
  <2>7. Order'
    BY <1>2, <1>3, <1>4, <1>5, <1>7, <2>1 DEF HInv, HandlerTypes, Order, Ends
  <2>8. WireGrows /\ Hears
    BY <1>2, <1>3, <1>4, <1>5, <1>7, <2>1, HandlerFacts, HandlerBatches DEF HInv, Ends, Order, WireGrows, Hears
  <2> QED
    BY <2>2, <2>3, <2>4, <2>5, <2>6, <2>7, <2>8 DEF HInv
<1> QED
  BY <1>3, <1>6, <1>7

\* A batch of the handler is done.
LEMMA HandlerCompletes ==
  ASSUME HInv, NEW b, NEW r, NEW e, e = [flags |-> b.flags, result |-> r],
         e \in HEvents, e \notin Range(call.cq), call' = Complete(call, b, r)
  PROVE  /\ call' \in HandlerCall
         /\ call'.out = call.out \ {b}
         /\ Range(call'.cq) = Range(call.cq) \cup {e} /\ Distinct(call'.cq)
         /\ call'.wire = call.wire /\ call'.end = call.end
         /\ call'.final_requested = call.final_requested /\ call'.error = call.error
<1>1. PICK d : d = Complete(call, b, r)
  OBVIOUS
<1>2. call \in CallType(HBatches, HEvents, HEnds) /\ Distinct(call.cq)
  BY HandlerFacts
<1>3. /\ d \in CallType(HBatches, HEvents, HEnds)
      /\ d.out = call.out \ {b} /\ Range(d.cq) = Range(call.cq) \cup {e} /\ Distinct(d.cq)
      /\ d.wire = call.wire /\ d.end = call.end
      /\ d.final_requested = call.final_requested /\ d.error = call.error
  BY <1>1, <1>2, CompleteFields
<1> QED
  BY <1>1, <1>3 DEF HandlerCall

\* A completion brings the handler at most what the session has put on the wire.
HearsWire ==
  /\ read' = read /\ reader' = reader /\ ended' = ended
  /\ Request \in Range(call'.cq) => Request \in Range(call.cq) \/ read < Len(session_call.wire)
  /\ NoRequest \in Range(call'.cq) =>
       \/ NoRequest \in Range(call.cq)
       \/ broken \/ call.end # "none"
       \/ session_call.end # "none" /\ read = Len(session_call.wire)

\* One of the batches completes; a receive with what the session has put on the wire.
LEMMA BatchDone_step ==
  ASSUME HInv, BatchDone(session_call, broken)
  PROVE  HInv' /\ WireGrows /\ HearsWire
<1>1. UNCHANGED <<phase, alive, finished, ready_to_send, pending_ops, reader, read, pushed, ended>>
  BY DEF BatchDone, sending, reading, replies
<1>2. PICK cut : cut = (broken \/ call.end # "none")
  OBVIOUS
<1>3. PICK b \in call.out : \E r \in Results(b, session_call, read + Queued(call), cut) :
          call' = Complete(call, b, r)
  BY <1>2 DEF BatchDone, Completed
<1>4. PICK r \in Results(b, session_call, read + Queued(call), cut) : call' = Complete(call, b, r)
  BY <1>3
<1>5. b \in HBatches /\ read \in Nat
  BY <1>3, HandlerFacts DEF HInv, HandlerTypes
<1>6. PICK e : e = [flags |-> b.flags, result |-> r]
  OBVIOUS
<1>7. CASE b # Ask
  <2>1. b = Shake \/ b = Msg \/ b = Close \/ b = Abort
    BY <1>5, <1>7, HandlerBatches
  <2>2. "recv_status" \notin b.ops /\ "recv_message" \notin b.ops
    BY <2>1, HandlerBatches
  <2>3. r = "none"
    BY <1>4, <2>2 DEF Results
  <2>4. \/ b = Shake /\ e = Shaken
        \/ b = Msg /\ e = Sent
        \/ b = Close /\ e = Closed
        \/ b = Abort /\ e = Aborted
    BY <1>6, <2>1, <2>3, HandlerBatches DEF Shaken, Sent, Closed, Aborted
  <2>5. e \in HEvents /\ e \notin Range(call.cq)
    BY <1>3, <2>4, HandlerBatches DEF HInv, OneOfEach
  <2>6. /\ call' \in HandlerCall
        /\ call'.out = call.out \ {b}
        /\ Range(call'.cq) = Range(call.cq) \cup {e} /\ Distinct(call'.cq)
        /\ call'.wire = call.wire /\ call'.end = call.end
        /\ call'.final_requested = call.final_requested /\ call'.error = call.error
    BY <1>4, <1>6, <2>5, HandlerCompletes
  <2>7. HandlerTypes'
    BY <1>1, <1>3, <2>4, <2>6 DEF HInv, HandlerTypes
  <2>8. OneOfEach'
    BY <1>1, <1>3, <2>4, <2>6, HandlerBatches DEF HInv, OneOfEach, Shaking, Sending, Receiving, Ending, Aborting
  <2>9. Sends'
    BY <1>1, <1>3, <2>4, <2>6, HandlerBatches DEF HInv, HandlerTypes, OneOfEach, Sends, Shaking, Sending, Receiving
  <2>10. Ends'
    BY <1>1, <1>3, <2>4, <2>6, HandlerBatches DEF HInv, HandlerTypes, OneOfEach, Sends, Sending, Ends, Ending, Aborting
  <2>11. Reads'
    BY <1>1, <1>3, <2>4, <2>6, HandlerBatches DEF HInv, HandlerTypes, OneOfEach, Sends, Reads, Shaking, Sending, Receiving
  <2>12. Order'
    BY <1>1, <1>3, <2>4, <2>6 DEF HInv, HandlerTypes, Order, Ends
  <2>13. WireGrows /\ HearsWire
    BY <1>1, <1>3, <2>4, <2>6, HandlerFacts, HandlerBatches DEF HInv, Ends, Order, WireGrows, HearsWire
  <2> QED
    BY <2>7, <2>8, <2>9, <2>10, <2>11, <2>12, <2>13 DEF HInv
<1>8. CASE b = Ask
  <2>1. "recv_status" \notin b.ops /\ "recv_message" \in b.ops /\ b.flags = Recv
    BY <1>8, HandlerBatches
  <2>2. Request \notin Range(call.cq) /\ NoRequest \notin Range(call.cq)
    BY <1>3, <1>8 DEF HInv, OneOfEach
  <2>3. Queued(call) = 0
    <3>1. \A x \in Range(call.cq) : x.result # "message"
      BY <2>2, HandlerFacts, HandlerBatches
    <3>2. call.cq \in Seq(HEvents)
      BY HandlerFacts
    <3> QED
      BY <3>1, <3>2, QueuedNone
  <2>4. r \in Results(b, session_call, read, cut)
    BY <1>4, <1>5, <2>3
  <2>5. \/ r = "message" /\ read < Len(session_call.wire)
        \/ r = "null" /\ (broken \/ call.end # "none" \/ (session_call.end # "none" /\ read = Len(session_call.wire)))
    BY <1>2, <2>1, <2>4 DEF Results
  <2>6. (r = "message" => e = Request) /\ (r = "null" => e = NoRequest)
    BY <1>6, <2>1 DEF Request, NoRequest
  <2>7. e \in HEvents /\ e \notin Range(call.cq)
    BY <2>2, <2>5, <2>6, HandlerBatches
  <2>8. /\ call' \in HandlerCall
        /\ call'.out = call.out \ {b}
        /\ Range(call'.cq) = Range(call.cq) \cup {e} /\ Distinct(call'.cq)
        /\ call'.wire = call.wire /\ call'.end = call.end
        /\ call'.final_requested = call.final_requested /\ call'.error = call.error
    BY <1>4, <1>6, <2>7, HandlerCompletes
  <2>9. HandlerTypes'
    BY <1>1, <1>3, <1>8, <2>2, <2>5, <2>6, <2>8 DEF HInv, HandlerTypes
  <2>10. OneOfEach'
    BY <1>1, <1>3, <1>8, <2>2, <2>5, <2>6, <2>8, HandlerBatches DEF HInv, OneOfEach, Shaking, Sending, Receiving, Ending, Aborting
  <2>11. Sends'
    BY <1>1, <1>3, <1>8, <2>2, <2>5, <2>6, <2>8, HandlerBatches DEF HInv, HandlerTypes, OneOfEach, Sends, Shaking, Sending, Receiving
  <2>12. Ends'
    BY <1>1, <1>3, <1>8, <2>2, <2>5, <2>6, <2>8, HandlerBatches DEF HInv, HandlerTypes, OneOfEach, Sends, Sending, Ends, Ending, Aborting
  <2>13. Reads'
    BY <1>1, <1>3, <1>8, <2>2, <2>5, <2>6, <2>8, HandlerBatches DEF HInv, HandlerTypes, OneOfEach, Sends, Reads, Shaking, Sending, Receiving
  <2>14. Order'
    BY <1>1, <1>3, <1>8, <2>2, <2>5, <2>6, <2>8 DEF HInv, HandlerTypes, Order, Ends
  <2>15. WireGrows /\ HearsWire
    BY <1>1, <1>3, <1>8, <2>2, <2>5, <2>6, <2>8, HandlerFacts, HandlerBatches DEF HInv, Ends, Order, WireGrows, HearsWire
  <2> QED
    BY <2>9, <2>10, <2>11, <2>12, <2>13, <2>14, <2>15 DEF HInv
<1> QED
  BY <1>7, <1>8

----------------------------------------------------------------------------
\* The session uses the same grpc core.
LEMMA SessionCore ==
  ASSUME NEW c, NEW flags, NEW ops, NEW sends, NEW end
  PROVE  /\ Session!StartBatch(c, flags, ops, sends) = StartBatch(c, flags, ops, sends)
         /\ Session!EndBatch(c, flags, ops, end) = EndBatch(c, flags, ops, end)
         /\ Session!TakeEvent(c) = TakeEvent(c) /\ Session!Queued(c) = Queued(c)
<1>1. Session!Legal(c, ops) = Legal(c, ops)
  BY DEF Session!Legal, Legal, Session!FinalSends, Session!FinalRecvs, FinalSends, FinalRecvs
<1>2. \A s : Session!StartBatch(c, flags, ops, s) = StartBatch(c, flags, ops, s)
  BY <1>1 DEF Session!StartBatch, StartBatch, Session!FinalRecvs, FinalRecvs
<1>3. Session!EndBatch(c, flags, ops, end) = EndBatch(c, flags, ops, end)
  BY <1>1, <1>2 DEF Session!EndBatch, EndBatch
<1>4. Session!TakeEvent(c) = TakeEvent(c)
  BY DEF Session!TakeEvent, TakeEvent
<1>5. Session!Queued(c) = Queued(c)
  BY Zenon DEF Session!Queued, Queued, Session!Cardinality, Cardinality
<1> QED
  BY <1>2, <1>3, <1>4, <1>5

\* The batches and events of the session are told apart by flags and results.
LEMMA SessionBatches ==
  /\ Session!Read # Session!Write /\ Session!Read # Session!Handshake
  /\ Session!Read # Session!Ending /\ Session!Read # Session!Closing
  /\ Session!Write # Session!Handshake /\ Session!Write # Session!Ending
  /\ Session!Write # Session!Closing /\ Session!Handshake # Session!Ending
  /\ Session!Handshake # Session!Closing /\ Session!Ending # Session!Closing
  /\ Open.flags = Session!Handshake /\ Open.ops = {"send_metadata", "recv_metadata"}
  /\ Write.flags = Session!Write /\ Write.ops = {"send_message"}
  /\ Read.flags = Session!Read /\ Read.ops = {"recv_message"}
  /\ End.flags = Session!Ending /\ End.ops = {"send_close"}
  /\ Finish.flags = Session!Closing /\ Finish.ops = {"recv_status"}
  /\ Opened.flags = Session!Handshake /\ Opened.result = "none"
  /\ Written.flags = Session!Write /\ Written.result = "none"
  /\ Ended.flags = Session!Ending /\ Ended.result = "none" /\ Reply.flags = Session!Read
  /\ Reply.result = "message" /\ NoReply.flags = Session!Read /\ NoReply.result = "null"
  /\ StatusOK.flags = Session!Closing /\ StatusOK.result = "OK"
  /\ StatusError.flags = Session!Closing /\ StatusError.result = "error"
  /\ Open \in SBatches /\ Write \in SBatches /\ Read \in SBatches /\ End \in SBatches
  /\ Finish \in SBatches
  /\ Open = [flags |-> Open.flags, ops |-> Open.ops]
  /\ Write = [flags |-> Write.flags, ops |-> Write.ops]
  /\ Read = [flags |-> Read.flags, ops |-> Read.ops]
  /\ End = [flags |-> End.flags, ops |-> End.ops]
  /\ Finish = [flags |-> Finish.flags, ops |-> Finish.ops]
  /\ Open # Write /\ Open # Read /\ Open # End /\ Open # Finish /\ Write # Read
  /\ Write # End /\ Write # Finish /\ Read # End /\ Read # Finish /\ End # Finish
  /\ \A b \in SBatches : /\ b = [flags |-> b.flags, ops |-> b.ops]
                         /\ b = Open \/ b = Write \/ b = Read \/ b = End \/ b = Finish
  /\ Opened \in SEvents /\ Written \in SEvents /\ Ended \in SEvents /\ Reply \in SEvents
  /\ NoReply \in SEvents /\ StatusOK \in SEvents /\ StatusError \in SEvents
  /\ Opened # Written /\ Opened # Ended /\ Opened # Reply /\ Opened # NoReply
  /\ Opened # StatusOK /\ Opened # StatusError /\ Written # Ended /\ Written # Reply
  /\ Written # NoReply /\ Written # StatusOK /\ Written # StatusError /\ Ended # Reply
  /\ Ended # NoReply /\ Ended # StatusOK /\ Ended # StatusError /\ Reply # NoReply
  /\ Reply # StatusOK /\ Reply # StatusError /\ NoReply # StatusOK
  /\ NoReply # StatusError /\ StatusOK # StatusError
  /\ \A e \in SEvents : \/ e = Opened \/ e = Written \/ e = Ended \/ e = Reply
                        \/ e = NoReply \/ e = StatusOK \/ e = StatusError
<1>1. /\ Session!Read # Session!Write /\ Session!Read # Session!Handshake
      /\ Session!Read # Session!Ending /\ Session!Read # Session!Closing
      /\ Session!Write # Session!Handshake /\ Session!Write # Session!Ending
      /\ Session!Write # Session!Closing /\ Session!Handshake # Session!Ending
      /\ Session!Handshake # Session!Closing /\ Session!Ending # Session!Closing
  BY DEF Session!Read, Session!Write, Session!Handshake, Session!Ending, Session!Closing
<1>2. /\ Open.flags = Session!Handshake /\ Open.ops = {"send_metadata", "recv_metadata"}
      /\ Write.flags = Session!Write /\ Write.ops = {"send_message"}
      /\ Read.flags = Session!Read /\ Read.ops = {"recv_message"}
      /\ End.flags = Session!Ending /\ End.ops = {"send_close"}
      /\ Finish.flags = Session!Closing /\ Finish.ops = {"recv_status"}
  BY DEF Open, Write, Read, End, Finish
<1>3. /\ Opened.flags = Session!Handshake /\ Opened.result = "none"
      /\ Written.flags = Session!Write /\ Written.result = "none"
      /\ Ended.flags = Session!Ending /\ Ended.result = "none"
      /\ Reply.flags = Session!Read /\ Reply.result = "message"
      /\ NoReply.flags = Session!Read /\ NoReply.result = "null"
      /\ StatusOK.flags = Session!Closing /\ StatusOK.result = "OK"
      /\ StatusError.flags = Session!Closing /\ StatusError.result = "error"
  BY DEF Opened, Written, Ended, Reply, NoReply, StatusOK, StatusError
<1>4. /\ Open \in SBatches /\ Write \in SBatches /\ Read \in SBatches
      /\ End \in SBatches /\ Finish \in SBatches
      /\ Opened \in SEvents /\ Written \in SEvents /\ Ended \in SEvents
      /\ Reply \in SEvents /\ NoReply \in SEvents /\ StatusOK \in SEvents
      /\ StatusError \in SEvents
  BY DEF SBatches, SEvents
<1>5. /\ Open # Write /\ Open # Read /\ Open # End /\ Open # Finish /\ Write # Read
      /\ Write # End /\ Write # Finish /\ Read # End /\ Read # Finish /\ End # Finish
  BY <1>1, <1>2
<1>6. /\ Opened # Written /\ Opened # Ended /\ Opened # Reply /\ Opened # NoReply
      /\ Opened # StatusOK /\ Opened # StatusError /\ Written # Ended /\ Written # Reply
      /\ Written # NoReply /\ Written # StatusOK /\ Written # StatusError
      /\ Ended # Reply /\ Ended # NoReply /\ Ended # StatusOK /\ Ended # StatusError
      /\ Reply # NoReply /\ Reply # StatusOK /\ Reply # StatusError
      /\ NoReply # StatusOK /\ NoReply # StatusError /\ StatusOK # StatusError
  BY <1>1, <1>3
<1>7. /\ \A b \in SBatches : /\ b = [flags |-> b.flags, ops |-> b.ops]
                             /\ b = Open \/ b = Write \/ b = Read \/ b = End \/ b = Finish
  BY DEF SBatches, Open, Write, Read, End, Finish
<1>8. /\ Open = [flags |-> Open.flags, ops |-> Open.ops]
      /\ Write = [flags |-> Write.flags, ops |-> Write.ops]
      /\ Read = [flags |-> Read.flags, ops |-> Read.ops]
      /\ End = [flags |-> End.flags, ops |-> End.ops]
      /\ Finish = [flags |-> Finish.flags, ops |-> Finish.ops]
  BY DEF Open, Write, Read, End, Finish
<1>9. /\ \A e \in SEvents : \/ e = Opened \/ e = Written \/ e = Ended \/ e = Reply
                            \/ e = NoReply \/ e = StatusOK \/ e = StatusError
  BY DEF SEvents
<1> QED
  BY <1>1, <1>2, <1>3, <1>4, <1>5, <1>6, <1>7, <1>9, <1>8

\* The session's part of the invariant.
SInv == SessionTypes /\ SessionOneOfEach /\ SessionSends /\ SessionEnds /\ SessionOrder

\* What the handler may rely on: the wire grows, and not after its end; a call that broke
\* stays broken; and no request is pushed when their stream has ended.
SessionWireGrows ==
  /\ Len(session_call.wire) <= Len(session_call'.wire)
  /\ session_call.end # "none" => session_call'.end # "none" /\ session_call'.wire = session_call.wire
  /\ broken => broken'
  /\ caller = "done" => caller' = "done" /\ requested' = requested

\* A step in which the session hears nothing of the handler.
SessionHearsNothing ==
  /\ UNCHANGED <<received, finished_receiving>> /\ (rep' = "complete" => rep = "complete")
  /\ Reply \in Range(session_call'.cq) => Reply \in Range(session_call.cq)
  /\ NoReply \in Range(session_call'.cq) => NoReply \in Range(session_call.cq)
  /\ StatusOK \in Range(session_call'.cq) => StatusOK \in Range(session_call.cq)

\* The session's call and what is pending for it.
LEMMA SessionFacts ==
  ASSUME SInv
  PROVE  /\ session_call \in SessionCall /\ session_call \in CallType(SBatches, SEvents, SEnds)
         /\ Distinct(session_call.cq)
         /\ session_call.out \subseteq SBatches
         /\ session_call.wire \in Seq(Nat) /\ Len(session_call.wire) \in Nat
         /\ session_call.cq \in Seq(SEvents) /\ Range(session_call.cq) \subseteq SEvents
         /\ requested \in Nat /\ Pending(session_ops, requested)
         /\ requested - Len(session_ops) \in Nat
         /\ Len(Messages(requested - Len(session_ops))) = requested - Len(session_ops)
         /\ session_ops = <<>> => requested - Len(session_ops) = requested
<1>1. requested \in Nat /\ Pending(session_ops, requested)
  BY DEF SInv, SessionTypes, SessionOrder
<1>2. /\ requested - Len(session_ops) \in Nat
      /\ Len(Messages(requested - Len(session_ops))) = requested - Len(session_ops)
      /\ session_ops = <<>> => requested - Len(session_ops) = requested
  BY <1>1, PendingLen
<1>3. session_call \in SessionCall /\ Distinct(session_call.cq)
  BY DEF SInv, SessionTypes
<1>4. /\ session_call.out \subseteq SBatches /\ session_call.wire \in Seq(Nat)
      /\ session_call.cq \in Seq(SEvents)
  BY <1>3 DEF SessionCall, CallType
<1>5. Len(session_call.wire) \in Nat /\ Range(session_call.cq) \subseteq SEvents
  BY <1>4, LenProperties, RangeOfSeq
<1> QED
  BY <1>1, <1>2, <1>3, <1>4, <1>5 DEF SessionCall

\* The worker takes the first event of the session's call.
LEMMA SessionTakes ==
  ASSUME SInv, session_call.cq # <<>>, NEW d, d = TakeEvent(session_call)
  PROVE  /\ d \in SessionCall
         /\ Head(session_call.cq) \in SEvents /\ Head(session_call.cq) \in Range(session_call.cq)
         /\ d.out = session_call.out
         /\ Range(d.cq) = Range(session_call.cq) \ {Head(session_call.cq)} /\ Distinct(d.cq)
         /\ d.wire = session_call.wire /\ d.end = session_call.end
         /\ d.final_requested = session_call.final_requested /\ d.error = session_call.error
<1>1. session_call \in CallType(SBatches, SEvents, SEnds) /\ Distinct(session_call.cq)
  BY SessionFacts
<1>2. PICK c : c = session_call
  OBVIOUS
<1>3. /\ d \in CallType(SBatches, SEvents, SEnds)
      /\ Head(c.cq) \in SEvents /\ Head(c.cq) \in Range(c.cq)
      /\ d.out = c.out
      /\ Range(d.cq) = Range(c.cq) \ {Head(c.cq)} /\ Distinct(d.cq)
      /\ d.wire = c.wire /\ d.end = c.end
      /\ d.final_requested = c.final_requested /\ d.error = c.error
  BY <1>1, <1>2, TakeFields
<1> QED
  BY <1>2, <1>3 DEF SessionCall

\* flush_ sends the oldest of the requests that wait, when no other is being sent.
LEMMA SessionFlush ==
  ASSUME NEW c \in SessionCall, Write \notin c.out, c.end = "none",
         NEW n \in Nat, NEW ops, Pending(ops, n), ops # <<>>, Session!flush(c, ops),
         c.wire = Messages(n - Len(ops))
  PROVE  /\ can_send' = FALSE /\ Pending(session_ops', n) /\ session_call' \in SessionCall
         /\ session_call'.out = c.out \cup {Write} /\ session_call'.cq = c.cq
         /\ session_call'.end = c.end
         /\ session_call'.wire = Messages(n - Len(session_ops'))
         /\ Len(session_call'.wire) = Len(c.wire) + 1
         /\ session_call'.final_requested = c.final_requested /\ session_call'.error = c.error
<1>1. Legal(c, Write.ops) /\ Write.ops \cap FinalRecvs = {}
  <2>1. \A b \in c.out : b = Open \/ b = Read \/ b = End \/ b = Finish
    BY SessionBatches DEF SessionCall, CallType
  <2>2. \A b \in c.out : "send_message" \notin b.ops
    BY <2>1, SessionBatches
  <2> QED
    BY <2>2, SessionBatches DEF Legal, FinalSends, FinalRecvs
<1>2. PICK t : t = Tail(ops)
  OBVIOUS
<1>3. /\ Pending(t, n) /\ Head(ops) \in Nat
      /\ Messages(n - Len(ops)) \o <<Head(ops)>> = Messages(n - Len(t))
      /\ Len(Messages(n - Len(t))) = Len(Messages(n - Len(ops))) + 1
  BY <1>2, PendingSend
<1>4. PICK s : s = <<Head(ops)>>
  OBVIOUS
<1>5. s \in Seq(Nat)
  BY <1>3, <1>4
<1>6. PICK d : d = StartBatch(c, Write.flags, Write.ops, s)
  OBVIOUS
<1>7. session_call' = d /\ can_send' = FALSE /\ session_ops' = t
  <2>1. session_call' = StartBatch(c, Session!Write, {"send_message"}, s)
    BY <1>4, SessionCore DEF Session!flush
  <2> QED
    BY <1>2, <1>6, <2>1, SessionBatches DEF Session!flush
<1>8. /\ d \in SessionCall
      /\ d.out = c.out \cup {Write}
      /\ d.cq = c.cq /\ d.end = c.end
      /\ d.wire = c.wire \o s
      /\ d.final_requested = c.final_requested /\ d.error = c.error
  <2>1. PICK x : x = c
    OBVIOUS
  <2>2. /\ x \in CallType(SBatches, SEvents, SEnds) /\ Legal(x, Write.ops)
        /\ d = StartBatch(x, Write.flags, Write.ops, s)
    BY <1>1, <1>6, <2>1 DEF SessionCall
  <2>3. Write \in SBatches /\ Write = [flags |-> Write.flags, ops |-> Write.ops]
    BY SessionBatches
  <2>4. /\ d \in CallType(SBatches, SEvents, SEnds)
        /\ d.out = x.out \cup {Write}
        /\ d.cq = x.cq /\ d.end = x.end
        /\ d.wire = IF x.end = "none" THEN x.wire \o s ELSE x.wire
        /\ d.final_requested = x.final_requested /\ d.error = x.error
    BY <1>1, <1>5, <2>2, <2>3, StartFields
  <2> QED
    BY <2>1, <2>4 DEF SessionCall
<1>9. d.wire = Messages(n - Len(t)) /\ Len(d.wire) = Len(c.wire) + 1
  BY <1>3, <1>4, <1>8
<1> QED
  BY <1>3, <1>7, <1>8, <1>9

\* Another reply is asked for when none is outstanding.
LEMMA SessionAsks ==
  ASSUME NEW c \in SessionCall, Read \notin c.out, NEW d, d = Session!AskForReply(c)
  PROVE  /\ d \in SessionCall
         /\ d.out = c.out \cup {Read} /\ d.cq = c.cq /\ d.end = c.end /\ d.wire = c.wire
         /\ d.final_requested = c.final_requested /\ d.error = c.error
<1>1. Legal(c, Read.ops) /\ Read.ops \cap FinalRecvs = {}
  <2>1. \A b \in c.out : b = Open \/ b = Write \/ b = End \/ b = Finish
    BY SessionBatches DEF SessionCall, CallType
  <2>2. \A b \in c.out : "recv_message" \notin b.ops
    BY <2>1, SessionBatches
  <2> QED
    BY <2>2, SessionBatches DEF Legal, FinalSends, FinalRecvs
<1>2. PICK s : s = <<>>
  OBVIOUS
<1>3. d = StartBatch(c, Read.flags, Read.ops, s)
  <2>1. d = StartBatch(c, Session!Read, {"recv_message"}, s)
    BY <1>2, SessionCore DEF Session!AskForReply
  <2> QED
    BY <2>1, SessionBatches
<1>4. /\ c \in CallType(SBatches, SEvents, SEnds)
      /\ Read \in SBatches /\ Read = [flags |-> Read.flags, ops |-> Read.ops]
  BY SessionBatches DEF SessionCall
<1>5. Legal(c, Read.ops)
  BY <1>1
<1>6. /\ d \in CallType(SBatches, SEvents, SEnds)
      /\ d.out = c.out \cup {Read} /\ d.cq = c.cq /\ d.end = c.end /\ d.wire = c.wire
      /\ d.error = c.error
      /\ d.final_requested <=> c.final_requested \/ Read.ops \cap FinalRecvs # {}
  BY <1>2, <1>3, <1>4, <1>5, AskFields
<1>7. d.final_requested = c.final_requested
  BY <1>1, <1>4, <1>6 DEF CallType
<1> QED
  BY <1>6, <1>7 DEF SessionCall

\* The status can be asked for once; grpc core refuses to be asked again.
LEMMA SessionFinishes ==
  ASSUME NEW c \in SessionCall, NEW d, d = Session!AskForStatus(c)
  PROVE  /\ d \in SessionCall
         /\ d.cq = c.cq /\ d.end = c.end /\ d.wire = c.wire /\ d.final_requested
         /\ ~c.final_requested => d.out = c.out \cup {Finish} /\ d.error = c.error
         /\ c.final_requested => d.out = c.out
<1>1. PICK s : s = <<>>
  OBVIOUS
<1>2. d = StartBatch(c, Finish.flags, Finish.ops, s)
  <2>1. d = StartBatch(c, Session!Closing, {"recv_status"}, s)
    BY <1>1, SessionCore DEF Session!AskForStatus
  <2> QED
    BY <2>1, SessionBatches
<1>3. /\ c \in CallType(SBatches, SEvents, SEnds)
      /\ Finish \in SBatches /\ Finish = [flags |-> Finish.flags, ops |-> Finish.ops]
  BY SessionBatches DEF SessionCall
<1>4. Finish.ops \cap FinalRecvs # {}
  BY SessionBatches DEF FinalRecvs
<1>5. Legal(c, Finish.ops) <=> ~c.final_requested
  <2>1. Finish.ops \cap {"send_message", "recv_message"} = {} /\ Finish.ops \cap FinalSends = {}
    BY SessionBatches DEF FinalSends
  <2> QED
    BY <1>4, <2>1 DEF Legal
<1>6. CASE ~c.final_requested
  <2>1. Legal(c, Finish.ops)
    BY <1>5, <1>6
  <2>2. /\ d \in CallType(SBatches, SEvents, SEnds)
        /\ d.out = c.out \cup {Finish} /\ d.cq = c.cq /\ d.end = c.end /\ d.wire = c.wire
        /\ d.error = c.error
        /\ d.final_requested <=> c.final_requested \/ Finish.ops \cap FinalRecvs # {}
    BY <1>1, <1>2, <1>3, <2>1, AskFields
  <2> QED
    BY <1>4, <1>6, <2>2 DEF SessionCall
<1>7. CASE c.final_requested
  <2>1. ~Legal(c, Finish.ops)
    BY <1>5, <1>7
  <2>2. /\ d \in CallType(SBatches, SEvents, SEnds)
        /\ d.out = c.out /\ d.cq = c.cq /\ d.end = c.end /\ d.wire = c.wire
        /\ d.final_requested = c.final_requested /\ d.error
    BY <1>2, <1>3, <2>1, RefusedFields
  <2> QED
    BY <1>7, <2>2 DEF SessionCall
<1> QED
  BY <1>6, <1>7

\* The requests can be ended once.
LEMMA SessionCloses ==
  ASSUME NEW c \in SessionCall, c.end = "none", Session!send_client_end(c)
  PROVE  /\ end_sent' = TRUE /\ session_call' \in SessionCall
         /\ session_call'.out = c.out \cup {End} /\ session_call'.cq = c.cq
         /\ session_call'.end = "close" /\ session_call'.wire = c.wire
         /\ session_call'.final_requested = c.final_requested /\ session_call'.error = c.error
<1>1. Legal(c, End.ops) /\ End.ops \cap FinalRecvs = {}
  <2>1. End.ops \cap {"send_message", "recv_message"} = {} /\ End.ops \cap FinalRecvs = {}
    BY SessionBatches DEF FinalRecvs
  <2> QED
    BY <2>1 DEF Legal
<1>2. PICK n : n = "close"
  OBVIOUS
<1>3. PICK d : d = EndBatch(c, End.flags, End.ops, n)
  OBVIOUS
<1>4. end_sent' = TRUE /\ session_call' = d
  <2>1. end_sent' = TRUE /\ session_call' = EndBatch(c, Session!Ending, {"send_close"}, n)
    BY <1>2, SessionCore DEF Session!send_client_end
  <2> QED
    BY <1>3, <2>1, SessionBatches
<1>5. /\ c \in CallType(SBatches, SEvents, SEnds) /\ n \in SEnds
      /\ End \in SBatches /\ End = [flags |-> End.flags, ops |-> End.ops]
  BY <1>2, SessionBatches DEF SessionCall, SEnds
<1>6. /\ d \in CallType(SBatches, SEvents, SEnds)
      /\ d.out = c.out \cup {End} /\ d.cq = c.cq /\ d.end = n /\ d.wire = c.wire
      /\ d.final_requested = c.final_requested /\ d.error = c.error
  BY <1>1, <1>3, <1>5, ShutFields
<1> QED
  BY <1>2, <1>4, <1>6 DEF SessionCall

----------------------------------------------------------------------------
\* The steps of the session.

\* rep_ gets its storage.
LEMMA session_get_future_step ==
  ASSUME SInv, Session!get_future
  PROVE  SInv' /\ SessionWireGrows /\ SessionHearsNothing
<1>1. /\ caller = "starting" /\ caller' = "streaming" /\ rep' = "open"
      /\ UNCHANGED <<session_alive, can_send, finished_sending, finished_receiving, end_sent, session_ops,
                      session_call, requested, broken, received, crashed, early>>
  BY DEF Session!get_future, Session!flags, Session!replies
<1>2. SessionTypes'
  BY <1>1 DEF SInv, SessionTypes
<1>3. SessionOneOfEach'
  BY <1>1, SessionBatches DEF SInv, SessionOneOfEach, Opening, Writing, Reading, Closes, Finishes
<1>4. SessionSends'
  BY <1>1, SessionBatches DEF SInv, SessionTypes, SessionOneOfEach, SessionSends, Opening, Writing, Reading, Closes
<1>5. SessionEnds'
  BY <1>1, SessionBatches DEF SInv, SessionTypes, SessionOneOfEach, SessionSends, SessionEnds,
       Opening, Reading, Closes, Finishes
<1>6. SessionOrder'
  BY <1>1 DEF SInv, SessionOrder
<1>7. SessionWireGrows /\ SessionHearsNothing
  BY <1>1, SessionFacts, SessionBatches DEF SInv, SessionSends, SessionOrder, SessionWireGrows, SessionHearsNothing
<1> QED
  BY <1>2, <1>3, <1>4, <1>5, <1>6, <1>7 DEF SInv

\* The call breaks.
LEMMA session_Break_step ==
  ASSUME SInv, Session!Break
  PROVE  SInv' /\ SessionWireGrows /\ SessionHearsNothing
<1>1. /\ broken' = TRUE
      /\ UNCHANGED <<caller, session_alive, can_send, finished_sending, finished_receiving, end_sent,
                      session_ops, session_call, requested, rep, received, crashed, early>>
  BY DEF Session!Break, Session!flags, Session!replies
<1>2. SessionTypes'
  BY <1>1 DEF SInv, SessionTypes
<1>3. SessionOneOfEach'
  BY <1>1, SessionBatches DEF SInv, SessionOneOfEach, Opening, Writing, Reading, Closes, Finishes
<1>4. SessionSends'
  BY <1>1, SessionBatches DEF SInv, SessionTypes, SessionOneOfEach, SessionSends, Opening, Writing, Reading, Closes
<1>5. SessionEnds'
  BY <1>1, SessionBatches DEF SInv, SessionTypes, SessionOneOfEach, SessionSends, SessionEnds,
       Opening, Reading, Closes, Finishes
<1>6. SessionOrder'
  BY <1>1 DEF SInv, SessionOrder
<1>7. SessionWireGrows /\ SessionHearsNothing
  BY <1>1, SessionFacts, SessionBatches DEF SInv, SessionSends, SessionOrder, SessionWireGrows, SessionHearsNothing
<1> QED
  BY <1>2, <1>3, <1>4, <1>5, <1>6, <1>7 DEF SInv

\* A request is sent when can_send_, and appended to pending_ops_ otherwise.
LEMMA session_push_step ==
  ASSUME SInv, Session!push
  PROVE  SInv' /\ SessionWireGrows /\ SessionHearsNothing
<1>1. PICK ops : ops = Append(session_ops, requested + 1)
  OBVIOUS
<1>2. PICK n : n = requested + 1
  OBVIOUS
<1>3. n \in Nat /\ Pending(ops, n) /\ ops # <<>> /\ n - Len(ops) = requested - Len(session_ops)
  <2>1. requested \in Nat /\ Pending(session_ops, requested)
    BY SessionFacts
  <2>2. Pending(ops, requested + 1) /\ ops # <<>> /\ (requested + 1) - Len(ops) = requested - Len(session_ops)
    BY <1>1, <2>1, PendingPush
  <2> QED
    BY <1>2, <2>1, <2>2
<1>4. /\ caller = "streaming" /\ requested' = n
      /\ UNCHANGED <<caller, session_alive, finished_sending, finished_receiving, end_sent, broken,
                     rep, received, crashed, early>>
  BY <1>2 DEF Session!push, Session!replies
<1>5. ~finished_sending /\ ~end_sent /\ session_call.end = "none"
  BY <1>4 DEF SInv, SessionSends
<1>6. CASE ~can_send
  <2>1. session_ops' = ops /\ UNCHANGED <<can_send, session_call>>
    BY <1>1, <1>6 DEF Session!push
  <2>2. SessionTypes'
    BY <1>3, <1>4, <1>5, <1>6, <2>1 DEF SInv, SessionTypes
  <2>3. SessionOneOfEach'
    BY <1>3, <1>4, <1>5, <1>6, <2>1, SessionBatches DEF SInv, SessionOneOfEach, Opening, Writing, Reading, Closes, Finishes
  <2>4. SessionSends'
    BY <1>3, <1>4, <1>5, <1>6, <2>1, SessionBatches DEF SInv, SessionTypes, SessionOneOfEach, SessionSends, Opening, Writing, Reading, Closes
  <2>5. SessionEnds'
    BY <1>3, <1>4, <1>5, <1>6, <2>1, SessionBatches DEF SInv, SessionTypes, SessionOneOfEach, SessionSends, SessionEnds,
         Opening, Reading, Closes, Finishes
  <2>6. SessionOrder'
    BY <1>3, <1>4, <1>5, <1>6, <2>1 DEF SInv, SessionOrder
  <2>7. SessionWireGrows /\ SessionHearsNothing
    BY <1>3, <1>4, <1>5, <1>6, <2>1, SessionFacts, SessionBatches DEF SInv, SessionSends, SessionOrder, SessionWireGrows, SessionHearsNothing
  <2> QED
    BY <2>2, <2>3, <2>4, <2>5, <2>6, <2>7 DEF SInv
<1>7. CASE can_send
  <2>1. Session!flush(session_call, ops) /\ ~Opening /\ ~Writing /\ session_ops = <<>>
    BY <1>1, <1>7 DEF Session!push, SInv, SessionSends
  <2>2. Write \notin session_call.out /\ session_call \in SessionCall
    BY <2>1, SessionFacts DEF Writing
  <2>3. session_call.wire = Messages(n - Len(ops))
    BY <1>3 DEF SInv, SessionOrder
  <2>4. /\ can_send' = FALSE /\ Pending(session_ops', n) /\ session_call' \in SessionCall
        /\ session_call'.out = session_call.out \cup {Write} /\ session_call'.cq = session_call.cq
        /\ session_call'.end = session_call.end
        /\ session_call'.wire = Messages(n - Len(session_ops'))
        /\ Len(session_call'.wire) = Len(session_call.wire) + 1
        /\ session_call'.final_requested = session_call.final_requested /\ session_call'.error = session_call.error
    BY <1>3, <1>5, <2>1, <2>2, <2>3, SessionFlush
  <2>5. SessionTypes'
    BY <1>3, <1>4, <1>5, <1>7, <2>1, <2>2, <2>3, <2>4 DEF SInv, SessionTypes
  <2>6. SessionOneOfEach'
    BY <1>3, <1>4, <1>5, <1>7, <2>1, <2>2, <2>3, <2>4, SessionBatches DEF SInv, SessionOneOfEach, Opening, Writing, Reading, Closes, Finishes
  <2>7. SessionSends'
    BY <1>3, <1>4, <1>5, <1>7, <2>1, <2>2, <2>3, <2>4, SessionBatches DEF SInv, SessionTypes, SessionOneOfEach, SessionSends, Opening, Writing, Reading, Closes
  <2>8. SessionEnds'
    BY <1>3, <1>4, <1>5, <1>7, <2>1, <2>2, <2>3, <2>4, SessionBatches DEF SInv, SessionTypes, SessionOneOfEach, SessionSends, SessionEnds,
         Opening, Reading, Closes, Finishes
  <2>9. SessionOrder'
    BY <1>3, <1>4, <1>5, <1>7, <2>1, <2>2, <2>3, <2>4 DEF SInv, SessionOrder
  <2>10. SessionWireGrows /\ SessionHearsNothing
    BY <1>3, <1>4, <1>5, <1>7, <2>1, <2>2, <2>3, <2>4, SessionFacts, SessionBatches DEF SInv, SessionSends, SessionOrder, SessionWireGrows, SessionHearsNothing
  <2> QED
    BY <2>5, <2>6, <2>7, <2>8, <2>9, <2>10 DEF SInv
<1> QED
  BY <1>6, <1>7 DEF SInv, SessionTypes

\* The requests are ended when can_send_; a stream that failed breaks the call.
LEMMA session_end_requests_step ==
  ASSUME SInv, Session!end_requests
  PROVE  SInv' /\ SessionWireGrows /\ SessionHearsNothing
<1>1. /\ caller = "streaming" /\ caller' = "done" /\ finished_sending' = TRUE
      /\ UNCHANGED <<session_alive, can_send, finished_receiving, session_ops, requested,
                     rep, received, crashed, early>>
  BY DEF Session!end_requests, Session!replies
<1>2. ~finished_sending /\ ~end_sent /\ session_call.end = "none" /\ ~Closes
  BY <1>1 DEF SInv, SessionSends
<1>3. broken' \in BOOLEAN /\ (broken => broken')
  <2>1. PICK b : b = broken'
    OBVIOUS
  <2>2. b = broken \/ b = TRUE
    BY <2>1 DEF Session!end_requests
  <2>3. broken \in BOOLEAN
    BY DEF SInv, SessionTypes
  <2>4. b \in BOOLEAN
    BY <2>2, <2>3
  <2>5. broken => b
    BY <2>2
  <2> QED
    BY <2>1, <2>4, <2>5
<1>4. CASE ~can_send
  <2>1. UNCHANGED <<session_call, end_sent>>
    BY <1>4 DEF Session!end_requests, Session!MayClose
  <2>2. SessionTypes'
    BY <1>1, <1>2, <1>3, <1>4, <2>1 DEF SInv, SessionTypes
  <2>3. SessionOneOfEach'
    BY <1>1, <1>2, <1>3, <1>4, <2>1, SessionBatches DEF SInv, SessionOneOfEach, Opening, Writing, Reading, Closes, Finishes
  <2>4. SessionSends'
    BY <1>1, <1>2, <1>3, <1>4, <2>1, SessionBatches DEF SInv, SessionTypes, SessionOneOfEach, SessionSends, Opening, Writing, Reading, Closes
  <2>5. SessionEnds'
    BY <1>1, <1>2, <1>3, <1>4, <2>1, SessionBatches DEF SInv, SessionTypes, SessionOneOfEach, SessionSends, SessionEnds,
         Opening, Reading, Closes, Finishes
  <2>6. SessionOrder'
    BY <1>1, <1>2, <1>3, <1>4, <2>1 DEF SInv, SessionOrder
  <2>7. SessionWireGrows /\ SessionHearsNothing
    BY <1>1, <1>2, <1>3, <1>4, <2>1, SessionFacts, SessionBatches DEF SInv, SessionSends, SessionOrder, SessionWireGrows, SessionHearsNothing
  <2> QED
    BY <2>2, <2>3, <2>4, <2>5, <2>6, <2>7 DEF SInv
<1>5. CASE can_send
  <2>1. Session!send_client_end(session_call) /\ session_ops = <<>>
    BY <1>5 DEF Session!end_requests, Session!MayClose, SInv, SessionSends
  <2>2. session_call \in SessionCall
    BY SessionFacts
  <2>3. /\ end_sent' = TRUE /\ session_call' \in SessionCall
        /\ session_call'.out = session_call.out \cup {End} /\ session_call'.cq = session_call.cq
        /\ session_call'.end = "close" /\ session_call'.wire = session_call.wire
        /\ session_call'.final_requested = session_call.final_requested /\ session_call'.error = session_call.error
    BY <1>2, <2>1, <2>2, SessionCloses
  <2>4. ~session_call.final_requested
    BY <1>2 DEF SInv, SessionEnds
  <2>5. SessionTypes'
    BY <1>1, <1>2, <1>3, <1>5, <2>1, <2>3, <2>4 DEF SInv, SessionTypes
  <2>6. SessionOneOfEach'
    BY <1>1, <1>2, <1>3, <1>5, <2>1, <2>3, <2>4, SessionBatches DEF SInv, SessionOneOfEach, Opening, Writing, Reading, Closes, Finishes
  <2>7. SessionSends'
    BY <1>1, <1>2, <1>3, <1>5, <2>1, <2>3, <2>4, SessionBatches DEF SInv, SessionTypes, SessionOneOfEach, SessionSends, Opening, Writing, Reading, Closes
  <2>8. SessionEnds'
    BY <1>1, <1>2, <1>3, <1>5, <2>1, <2>3, <2>4, SessionBatches DEF SInv, SessionTypes, SessionOneOfEach, SessionSends, SessionEnds,
         Opening, Reading, Closes, Finishes
  <2>9. SessionOrder'
    BY <1>1, <1>2, <1>3, <1>5, <2>1, <2>3, <2>4 DEF SInv, SessionOrder
  <2>10. SessionWireGrows /\ SessionHearsNothing
    BY <1>1, <1>2, <1>3, <1>5, <2>1, <2>3, <2>4, SessionFacts, SessionBatches DEF SInv, SessionSends, SessionOrder, SessionWireGrows, SessionHearsNothing
  <2> QED
    BY <2>5, <2>6, <2>7, <2>8, <2>9, <2>10 DEF SInv
<1> QED
  BY <1>4, <1>5 DEF SInv, SessionTypes

\* Sending and receiving start when the metadata have come.
LEMMA session_exec_handshake_step ==
  ASSUME SInv, Session!exec_handshake
  PROVE  SInv' /\ SessionWireGrows /\ SessionHearsNothing
<1>1. PICK d : d = TakeEvent(session_call)
  OBVIOUS
<1>2. /\ d \in SessionCall
      /\ Head(session_call.cq) \in SEvents /\ Head(session_call.cq) \in Range(session_call.cq)
      /\ d.out = session_call.out
      /\ Range(d.cq) = Range(session_call.cq) \ {Head(session_call.cq)} /\ Distinct(d.cq)
      /\ d.wire = session_call.wire /\ d.end = session_call.end
      /\ d.final_requested = session_call.final_requested /\ d.error = session_call.error
  BY <1>1, SessionTakes DEF Session!exec_handshake, Session!Handles, Session!Event
<1>3. Head(session_call.cq) = Opened /\ session_alive
  BY <1>2, SessionBatches DEF Session!exec_handshake, Session!Handles, Session!Event
<1>4. /\ UNCHANGED <<caller, session_alive, finished_sending, finished_receiving, end_sent,
                      requested, broken, rep, received, crashed, early>>
  BY DEF Session!exec_handshake, Session!flags, Session!replies
<1>5. PICK x : x = Session!AskForReply(d)
  OBVIOUS
<1>6. /\ Open \notin d.out /\ Write \notin d.out /\ Read \notin d.out /\ Opened \notin Range(d.cq)
      /\ Written \notin Range(d.cq) /\ Reply \notin Range(d.cq) /\ NoReply \notin Range(d.cq)
      /\ ~can_send /\ ~end_sent /\ ~finished_receiving /\ ~Closes /\ session_call.end = "none"
  BY <1>2, <1>3 DEF SInv, SessionOneOfEach, SessionSends, Opening, Writing, Reading
<1>7. /\ x \in SessionCall
      /\ x.out = d.out \cup {Read} /\ x.cq = d.cq /\ x.end = d.end /\ x.wire = d.wire
      /\ x.final_requested = d.final_requested /\ x.error = d.error
  BY <1>2, <1>5, <1>6, SessionAsks
<1>8. CASE session_ops # <<>>
  <2>1. Session!flush(x, session_ops)
    BY <1>1, <1>5, <1>8, SessionCore DEF Session!exec_handshake
  <2>2. Write \notin x.out /\ requested \in Nat /\ Pending(session_ops, requested)
    BY <1>6, <1>7, SessionFacts, SessionBatches
  <2>3. x.end = "none" /\ x.wire = Messages(requested - Len(session_ops))
    BY <1>2, <1>6, <1>7 DEF SInv, SessionOrder
  <2>4. /\ can_send' = FALSE /\ Pending(session_ops', requested) /\ session_call' \in SessionCall
        /\ session_call'.out = x.out \cup {Write} /\ session_call'.cq = x.cq
        /\ session_call'.end = x.end
        /\ session_call'.wire = Messages(requested - Len(session_ops'))
        /\ Len(session_call'.wire) = Len(x.wire) + 1
        /\ session_call'.final_requested = x.final_requested /\ session_call'.error = x.error
    BY <1>7, <1>8, <2>1, <2>2, <2>3, SessionFlush
  <2>5. SessionTypes'
    BY <1>2, <1>3, <1>4, <1>6, <1>7, <1>8, <2>3, <2>4 DEF SInv, SessionTypes
  <2>6. SessionOneOfEach'
    BY <1>2, <1>3, <1>4, <1>6, <1>7, <1>8, <2>3, <2>4, SessionBatches DEF SInv, SessionOneOfEach, Opening, Writing, Reading, Closes, Finishes
  <2>7. SessionSends'
    BY <1>2, <1>3, <1>4, <1>6, <1>7, <1>8, <2>3, <2>4, SessionBatches DEF SInv, SessionTypes, SessionOneOfEach, SessionSends, Opening, Writing, Reading, Closes
  <2>8. SessionEnds'
    BY <1>2, <1>3, <1>4, <1>6, <1>7, <1>8, <2>3, <2>4, SessionBatches DEF SInv, SessionTypes, SessionOneOfEach, SessionSends, SessionEnds,
         Opening, Reading, Closes, Finishes
  <2>9. SessionOrder'
    BY <1>2, <1>3, <1>4, <1>6, <1>7, <1>8, <2>3, <2>4 DEF SInv, SessionOrder
  <2>10. SessionWireGrows /\ SessionHearsNothing
    BY <1>2, <1>3, <1>4, <1>6, <1>7, <1>8, <2>3, <2>4, SessionFacts, SessionBatches DEF SInv, SessionSends, SessionOrder, SessionWireGrows, SessionHearsNothing
  <2> QED
    BY <2>5, <2>6, <2>7, <2>8, <2>9, <2>10 DEF SInv
<1>9. CASE session_ops = <<>>
  <2>1. can_send' = TRUE /\ session_call' = x /\ session_ops' = session_ops
    BY <1>1, <1>5, <1>9, SessionCore DEF Session!exec_handshake
  <2>2. SessionTypes'
    BY <1>2, <1>3, <1>4, <1>6, <1>7, <1>9, <2>1 DEF SInv, SessionTypes
  <2>3. SessionOneOfEach'
    BY <1>2, <1>3, <1>4, <1>6, <1>7, <1>9, <2>1, SessionBatches DEF SInv, SessionOneOfEach, Opening, Writing, Reading, Closes, Finishes
  <2>4. SessionSends'
    BY <1>2, <1>3, <1>4, <1>6, <1>7, <1>9, <2>1, SessionBatches DEF SInv, SessionTypes, SessionOneOfEach, SessionSends, Opening, Writing, Reading, Closes
  <2>5. SessionEnds'
    BY <1>2, <1>3, <1>4, <1>6, <1>7, <1>9, <2>1, SessionBatches DEF SInv, SessionTypes, SessionOneOfEach, SessionSends, SessionEnds,
         Opening, Reading, Closes, Finishes
  <2>6. SessionOrder'
    BY <1>2, <1>3, <1>4, <1>6, <1>7, <1>9, <2>1 DEF SInv, SessionOrder
  <2>7. SessionWireGrows /\ SessionHearsNothing
    BY <1>2, <1>3, <1>4, <1>6, <1>7, <1>9, <2>1, SessionFacts, SessionBatches DEF SInv, SessionSends, SessionOrder, SessionWireGrows, SessionHearsNothing
  <2> QED
    BY <2>2, <2>3, <2>4, <2>5, <2>6, <2>7 DEF SInv
<1> QED
  BY <1>8, <1>9

\* The next request is sent, or the end of a stream that has ended.
LEMMA session_exec_write_step ==
  ASSUME SInv, Session!exec_write
  PROVE  SInv' /\ SessionWireGrows /\ SessionHearsNothing
<1>1. PICK d : d = TakeEvent(session_call)
  OBVIOUS
<1>2. /\ d \in SessionCall
      /\ Head(session_call.cq) \in SEvents /\ Head(session_call.cq) \in Range(session_call.cq)
      /\ d.out = session_call.out
      /\ Range(d.cq) = Range(session_call.cq) \ {Head(session_call.cq)} /\ Distinct(d.cq)
      /\ d.wire = session_call.wire /\ d.end = session_call.end
      /\ d.final_requested = session_call.final_requested /\ d.error = session_call.error
  BY <1>1, SessionTakes DEF Session!exec_write, Session!Handles, Session!Event
<1>3. Head(session_call.cq) = Written /\ session_alive
  BY <1>2, SessionBatches DEF Session!exec_write, Session!Handles, Session!Event
<1>4. /\ UNCHANGED <<caller, session_alive, finished_sending, finished_receiving, requested,
                      broken, rep, received, crashed, early>>
  BY DEF Session!exec_write, Session!flags, Session!replies
<1>5. /\ Open \notin d.out /\ Write \notin d.out /\ Opened \notin Range(d.cq) /\ Written \notin Range(d.cq)
      /\ ~can_send /\ ~end_sent /\ ~Closes /\ session_call.end = "none" /\ ~session_call.final_requested
  BY <1>2, <1>3 DEF SInv, SessionOneOfEach, SessionSends, SessionEnds, Opening, Writing
<1>6. CASE session_ops # <<>>
  <2>1. Session!flush(d, session_ops) /\ end_sent' = end_sent
    BY <1>1, <1>6, SessionCore DEF Session!exec_write
  <2>2. requested \in Nat /\ Pending(session_ops, requested)
    BY SessionFacts
  <2>3. d.end = "none" /\ d.wire = Messages(requested - Len(session_ops))
    BY <1>2, <1>5 DEF SInv, SessionOrder
  <2>4. /\ can_send' = FALSE /\ Pending(session_ops', requested) /\ session_call' \in SessionCall
        /\ session_call'.out = d.out \cup {Write} /\ session_call'.cq = d.cq
        /\ session_call'.end = d.end
        /\ session_call'.wire = Messages(requested - Len(session_ops'))
        /\ Len(session_call'.wire) = Len(d.wire) + 1
        /\ session_call'.final_requested = d.final_requested /\ session_call'.error = d.error
    BY <1>2, <1>5, <1>6, <2>1, <2>2, <2>3, SessionFlush
  <2>5. SessionTypes'
    BY <1>2, <1>3, <1>4, <1>5, <1>6, <2>1, <2>3, <2>4 DEF SInv, SessionTypes
  <2>6. SessionOneOfEach'
    BY <1>2, <1>3, <1>4, <1>5, <1>6, <2>1, <2>3, <2>4, SessionBatches DEF SInv, SessionOneOfEach, Opening, Writing, Reading, Closes, Finishes
  <2>7. SessionSends'
    BY <1>2, <1>3, <1>4, <1>5, <1>6, <2>1, <2>3, <2>4, SessionBatches DEF SInv, SessionTypes, SessionOneOfEach, SessionSends, Opening, Writing, Reading, Closes
  <2>8. SessionEnds'
    BY <1>2, <1>3, <1>4, <1>5, <1>6, <2>1, <2>3, <2>4, SessionBatches DEF SInv, SessionTypes, SessionOneOfEach, SessionSends, SessionEnds,
         Opening, Reading, Closes, Finishes
  <2>9. SessionOrder'
    BY <1>2, <1>3, <1>4, <1>5, <1>6, <2>1, <2>3, <2>4 DEF SInv, SessionOrder
  <2>10. SessionWireGrows /\ SessionHearsNothing
    BY <1>2, <1>3, <1>4, <1>5, <1>6, <2>1, <2>3, <2>4, SessionFacts, SessionBatches DEF SInv, SessionSends, SessionOrder, SessionWireGrows, SessionHearsNothing
  <2> QED
    BY <2>5, <2>6, <2>7, <2>8, <2>9, <2>10 DEF SInv
<1>7. CASE session_ops = <<>> /\ finished_sending
  <2>1. can_send' = TRUE /\ session_ops' = session_ops /\ Session!send_client_end(d)
    BY <1>1, <1>7, SessionCore DEF Session!exec_write
  <2>2. d.end = "none"
    BY <1>2, <1>5
  <2>3. /\ end_sent' = TRUE /\ session_call' \in SessionCall
        /\ session_call'.out = d.out \cup {End} /\ session_call'.cq = d.cq
        /\ session_call'.end = "close" /\ session_call'.wire = d.wire
        /\ session_call'.final_requested = d.final_requested /\ session_call'.error = d.error
    BY <1>2, <2>1, <2>2, SessionCloses
  <2>4. SessionTypes'
    BY <1>2, <1>3, <1>4, <1>5, <1>7, <2>1, <2>3 DEF SInv, SessionTypes
  <2>5. SessionOneOfEach'
    BY <1>2, <1>3, <1>4, <1>5, <1>7, <2>1, <2>3, SessionBatches DEF SInv, SessionOneOfEach, Opening, Writing, Reading, Closes, Finishes
  <2>6. SessionSends'
    BY <1>2, <1>3, <1>4, <1>5, <1>7, <2>1, <2>3, SessionBatches DEF SInv, SessionTypes, SessionOneOfEach, SessionSends, Opening, Writing, Reading, Closes
  <2>7. SessionEnds'
    BY <1>2, <1>3, <1>4, <1>5, <1>7, <2>1, <2>3, SessionBatches DEF SInv, SessionTypes, SessionOneOfEach, SessionSends, SessionEnds,
         Opening, Reading, Closes, Finishes
  <2>8. SessionOrder'
    BY <1>2, <1>3, <1>4, <1>5, <1>7, <2>1, <2>3 DEF SInv, SessionOrder
  <2>9. SessionWireGrows /\ SessionHearsNothing
    BY <1>2, <1>3, <1>4, <1>5, <1>7, <2>1, <2>3, SessionFacts, SessionBatches DEF SInv, SessionSends, SessionOrder, SessionWireGrows, SessionHearsNothing
  <2> QED
    BY <2>4, <2>5, <2>6, <2>7, <2>8, <2>9 DEF SInv
<1>8. CASE session_ops = <<>> /\ ~finished_sending
  <2>1. can_send' = TRUE /\ session_ops' = session_ops /\ session_call' = d /\ end_sent' = end_sent
    BY <1>1, <1>8, SessionCore DEF Session!exec_write
  <2>2. SessionTypes'
    BY <1>2, <1>3, <1>4, <1>5, <1>8, <2>1 DEF SInv, SessionTypes
  <2>3. SessionOneOfEach'
    BY <1>2, <1>3, <1>4, <1>5, <1>8, <2>1, SessionBatches DEF SInv, SessionOneOfEach, Opening, Writing, Reading, Closes, Finishes
  <2>4. SessionSends'
    BY <1>2, <1>3, <1>4, <1>5, <1>8, <2>1, SessionBatches DEF SInv, SessionTypes, SessionOneOfEach, SessionSends, Opening, Writing, Reading, Closes
  <2>5. SessionEnds'
    BY <1>2, <1>3, <1>4, <1>5, <1>8, <2>1, SessionBatches DEF SInv, SessionTypes, SessionOneOfEach, SessionSends, SessionEnds,
         Opening, Reading, Closes, Finishes
  <2>6. SessionOrder'
    BY <1>2, <1>3, <1>4, <1>5, <1>8, <2>1 DEF SInv, SessionOrder
  <2>7. SessionWireGrows /\ SessionHearsNothing
    BY <1>2, <1>3, <1>4, <1>5, <1>8, <2>1, SessionFacts, SessionBatches DEF SInv, SessionSends, SessionOrder, SessionWireGrows, SessionHearsNothing
  <2> QED
    BY <2>2, <2>3, <2>4, <2>5, <2>6, <2>7 DEF SInv
<1> QED
  BY <1>6, <1>7, <1>8

\* The status is asked for when the replies have ended; again, and refused, only when exec_null came first.
LEMMA session_exec_ending_step ==
  ASSUME SInv, Session!exec_ending
  PROVE  SInv' /\ SessionWireGrows /\ SessionHearsNothing
<1>1. PICK d : d = TakeEvent(session_call)
  OBVIOUS
<1>2. /\ d \in SessionCall
      /\ Head(session_call.cq) \in SEvents /\ Head(session_call.cq) \in Range(session_call.cq)
      /\ d.out = session_call.out
      /\ Range(d.cq) = Range(session_call.cq) \ {Head(session_call.cq)} /\ Distinct(d.cq)
      /\ d.wire = session_call.wire /\ d.end = session_call.end
      /\ d.final_requested = session_call.final_requested /\ d.error = session_call.error
  BY <1>1, SessionTakes DEF Session!exec_ending, Session!Handles, Session!Event
<1>3. Head(session_call.cq) = Ended /\ session_alive
  BY <1>2, SessionBatches DEF Session!exec_ending, Session!Handles, Session!Event
<1>4. /\ UNCHANGED <<caller, session_alive, can_send, finished_sending, finished_receiving, session_ops,
                      requested, broken, rep, received, crashed, early>>
  BY DEF Session!exec_ending, Session!flags, Session!replies
<1>5. /\ End \notin d.out /\ Ended \notin Range(d.cq) /\ end_sent /\ can_send /\ finished_sending
      /\ session_call.final_requested => early
      /\ Finishes => session_call.final_requested
  BY <1>2, <1>3 DEF SInv, SessionOneOfEach, SessionSends, SessionEnds, Closes
<1>6. CASE ~finished_receiving
  <2>1. session_call' = d /\ end_sent' = end_sent
    BY <1>1, <1>6, SessionCore DEF Session!exec_ending
  <2>2. SessionTypes'
    BY <1>2, <1>3, <1>4, <1>5, <1>6, <2>1 DEF SInv, SessionTypes
  <2>3. SessionOneOfEach'
    BY <1>2, <1>3, <1>4, <1>5, <1>6, <2>1, SessionBatches DEF SInv, SessionOneOfEach, Opening, Writing, Reading, Closes, Finishes
  <2>4. SessionSends'
    BY <1>2, <1>3, <1>4, <1>5, <1>6, <2>1, SessionBatches DEF SInv, SessionTypes, SessionOneOfEach, SessionSends, Opening, Writing, Reading, Closes
  <2>5. SessionEnds'
    BY <1>2, <1>3, <1>4, <1>5, <1>6, <2>1, SessionBatches DEF SInv, SessionTypes, SessionOneOfEach, SessionSends, SessionEnds,
         Opening, Reading, Closes, Finishes
  <2>6. SessionOrder'
    BY <1>2, <1>3, <1>4, <1>5, <1>6, <2>1 DEF SInv, SessionOrder
  <2>7. SessionWireGrows /\ SessionHearsNothing
    BY <1>2, <1>3, <1>4, <1>5, <1>6, <2>1, SessionFacts, SessionBatches DEF SInv, SessionSends, SessionOrder, SessionWireGrows, SessionHearsNothing
  <2> QED
    BY <2>2, <2>3, <2>4, <2>5, <2>6, <2>7 DEF SInv
<1>7. CASE finished_receiving
  <2>1. PICK x : x = Session!AskForStatus(d)
    OBVIOUS
  <2>2. session_call' = x /\ end_sent' = TRUE
    BY <1>1, <1>7, <2>1, SessionCore DEF Session!exec_ending
  <2>3. /\ x \in SessionCall
        /\ x.cq = d.cq /\ x.end = d.end /\ x.wire = d.wire /\ x.final_requested
        /\ ~d.final_requested => x.out = d.out \cup {Finish} /\ x.error = d.error
        /\ d.final_requested => x.out = d.out
    BY <1>2, <2>1, SessionFinishes
  <2>4. SessionTypes'
    BY <1>2, <1>3, <1>4, <1>5, <1>7, <2>2, <2>3 DEF SInv, SessionTypes
  <2>5. SessionOneOfEach'
    BY <1>2, <1>3, <1>4, <1>5, <1>7, <2>2, <2>3, SessionBatches DEF SInv, SessionOneOfEach, Opening, Writing, Reading, Closes, Finishes
  <2>6. SessionSends'
    BY <1>2, <1>3, <1>4, <1>5, <1>7, <2>2, <2>3, SessionBatches DEF SInv, SessionTypes, SessionOneOfEach, SessionSends, Opening, Writing, Reading, Closes
  <2>7. SessionEnds'
    BY <1>2, <1>3, <1>4, <1>5, <1>7, <2>2, <2>3, SessionBatches DEF SInv, SessionTypes, SessionOneOfEach, SessionSends, SessionEnds,
         Opening, Reading, Closes, Finishes
  <2>8. SessionOrder'
    BY <1>2, <1>3, <1>4, <1>5, <1>7, <2>2, <2>3 DEF SInv, SessionOrder
  <2>9. SessionWireGrows /\ SessionHearsNothing
    BY <1>2, <1>3, <1>4, <1>5, <1>7, <2>2, <2>3, SessionFacts, SessionBatches DEF SInv, SessionSends, SessionOrder, SessionWireGrows, SessionHearsNothing
  <2> QED
    BY <2>4, <2>5, <2>6, <2>7, <2>8, <2>9 DEF SInv
<1> QED
  BY <1>6, <1>7 DEF SInv, SessionTypes

\* What exec makes of a reply, of the end of the replies, and of the status.
SessionHearsReply ==
  /\ Reply \in Range(session_call.cq) /\ received' = received + 1
  /\ UNCHANGED <<finished_receiving, rep>>
  /\ Reply \notin Range(session_call'.cq) /\ NoReply \notin Range(session_call'.cq)
  /\ StatusOK \in Range(session_call'.cq) => StatusOK \in Range(session_call.cq)
SessionHearsEnd ==
  /\ NoReply \in Range(session_call.cq) /\ UNCHANGED <<received, rep>>
  /\ Reply \notin Range(session_call'.cq) /\ NoReply \notin Range(session_call'.cq)
  /\ StatusOK \in Range(session_call'.cq) => StatusOK \in Range(session_call.cq)
SessionHearsStatus ==
  /\ rep' = "complete" => StatusOK \in Range(session_call.cq)
  /\ UNCHANGED <<received, finished_receiving>>
  /\ Reply \in Range(session_call'.cq) => Reply \in Range(session_call.cq)
  /\ NoReply \in Range(session_call'.cq) => NoReply \in Range(session_call.cq)
  /\ StatusOK \in Range(session_call'.cq) => StatusOK \in Range(session_call.cq)

\* A reply is handed on and the next one asked for.
LEMMA session_exec_reply_step ==
  ASSUME SInv, Session!exec_reply
  PROVE  SInv' /\ SessionWireGrows /\ SessionHearsReply
<1>1. PICK d : d = TakeEvent(session_call)
  OBVIOUS
<1>2. /\ d \in SessionCall
      /\ Head(session_call.cq) \in SEvents /\ Head(session_call.cq) \in Range(session_call.cq)
      /\ d.out = session_call.out
      /\ Range(d.cq) = Range(session_call.cq) \ {Head(session_call.cq)} /\ Distinct(d.cq)
      /\ d.wire = session_call.wire /\ d.end = session_call.end
      /\ d.final_requested = session_call.final_requested /\ d.error = session_call.error
  BY <1>1, SessionTakes DEF Session!exec_reply, Session!Handles, Session!Event
<1>3. Head(session_call.cq) = Reply /\ session_alive
  BY <1>2, SessionBatches DEF Session!exec_reply, Session!Handles, Session!Event
<1>4. /\ received' = received + 1 /\ crashed' \in BOOLEAN
      /\ UNCHANGED <<caller, session_alive, can_send, finished_sending, finished_receiving,
                      end_sent, session_ops, requested, broken, rep, early>>
  BY DEF Session!exec_reply, Session!flags, Session!replies
<1>5. /\ Read \notin d.out /\ Reply \notin Range(d.cq) /\ NoReply \notin Range(d.cq)
      /\ ~Opening /\ ~finished_receiving
  BY <1>2, <1>3 DEF SInv, SessionOneOfEach, SessionSends, SessionEnds, Reading
<1>6. PICK x : x = Session!AskForReply(d)
  OBVIOUS
<1>7. /\ x \in SessionCall
      /\ x.out = d.out \cup {Read} /\ x.cq = d.cq /\ x.end = d.end /\ x.wire = d.wire
      /\ x.final_requested = d.final_requested /\ x.error = d.error
  BY <1>2, <1>5, <1>6, SessionAsks
<1>8. session_call' = x
  BY <1>1, <1>6, SessionCore DEF Session!exec_reply
<1>9. SessionTypes'
  BY <1>2, <1>3, <1>4, <1>5, <1>7, <1>8 DEF SInv, SessionTypes
<1>10. SessionOneOfEach'
  BY <1>2, <1>3, <1>4, <1>5, <1>7, <1>8, SessionBatches DEF SInv, SessionOneOfEach, Opening, Writing, Reading, Closes, Finishes
<1>11. SessionSends'
  BY <1>2, <1>3, <1>4, <1>5, <1>7, <1>8, SessionBatches DEF SInv, SessionTypes, SessionOneOfEach, SessionSends, Opening, Writing, Reading, Closes
<1>12. SessionEnds'
  BY <1>2, <1>3, <1>4, <1>5, <1>7, <1>8, SessionBatches DEF SInv, SessionTypes, SessionOneOfEach, SessionSends, SessionEnds,
       Opening, Reading, Closes, Finishes
<1>13. SessionOrder'
  BY <1>2, <1>3, <1>4, <1>5, <1>7, <1>8 DEF SInv, SessionOrder
<1>14. SessionWireGrows /\ SessionHearsReply
  BY <1>2, <1>3, <1>4, <1>5, <1>7, <1>8, SessionFacts, SessionBatches DEF SInv, SessionSends, SessionOrder, SessionWireGrows, SessionHearsReply
<1> QED
  BY <1>9, <1>10, <1>11, <1>12, <1>13, <1>14 DEF SInv

\* The end of the requests is outstanding while its batch or its event is there.
LEMMA EndOutstanding ==
  ASSUME SInv, Closes
  PROVE  Session!EndOutstanding
<1>1. CASE End \in session_call.out
  BY <1>1, SessionBatches DEF Session!EndOutstanding
<1>2. CASE Ended \in Range(session_call.cq)
  <2>1. PICK s : s = session_call.cq
    OBVIOUS
  <2>2. s \in Seq(SEvents)
    BY <2>1, SessionFacts
  <2>3. Range(s) = {s[i] : i \in 1..Len(s)}
    BY <2>2, RangeEquality
  <2>4. PICK i \in 1..Len(s) : s[i] = Ended
    BY <1>2, <2>1, <2>3
  <2> QED
    BY <2>1, <2>4, SessionBatches DEF Session!EndOutstanding
<1> QED
  BY <1>1, <1>2 DEF Closes

\* The status is asked for when the requests have ended too.
LEMMA session_exec_null_step ==
  ASSUME SInv, Session!exec_null
  PROVE  SInv' /\ SessionWireGrows /\ SessionHearsEnd
<1>1. PICK d : d = TakeEvent(session_call)
  OBVIOUS
<1>2. /\ d \in SessionCall
      /\ Head(session_call.cq) \in SEvents /\ Head(session_call.cq) \in Range(session_call.cq)
      /\ d.out = session_call.out
      /\ Range(d.cq) = Range(session_call.cq) \ {Head(session_call.cq)} /\ Distinct(d.cq)
      /\ d.wire = session_call.wire /\ d.end = session_call.end
      /\ d.final_requested = session_call.final_requested /\ d.error = session_call.error
  BY <1>1, SessionTakes DEF Session!exec_null, Session!Handles, Session!Event
<1>3. Head(session_call.cq) = NoReply /\ session_alive
  BY <1>2, SessionBatches DEF Session!exec_null, Session!Handles, Session!Event
<1>4. /\ finished_receiving' = TRUE
      /\ UNCHANGED <<caller, session_alive, can_send, finished_sending, end_sent,
                      session_ops, requested, broken, rep, received, crashed>>
  BY DEF Session!exec_null, Session!flags, Session!replies
<1>5. /\ Read \notin d.out /\ Reply \notin Range(d.cq) /\ NoReply \notin Range(d.cq)
      /\ ~Opening /\ ~finished_receiving /\ ~session_call.final_requested /\ ~Finishes
  BY <1>2, <1>3 DEF SInv, SessionOneOfEach, SessionSends, SessionEnds, Reading
<1>6. early' \in BOOLEAN /\ (early => early') /\ (Closes => early')
  <2>1. early' = (early \/ (end_sent /\ Session!EndOutstanding))
    BY DEF Session!exec_null
  <2>2. Closes => end_sent /\ Session!EndOutstanding
    BY EndOutstanding DEF SInv, SessionSends
  <2> QED
    BY <2>1, <2>2
<1>7. CASE end_sent
  <2>1. PICK x : x = Session!AskForStatus(d)
    OBVIOUS
  <2>2. session_call' = x /\ can_send /\ finished_sending
    BY <1>1, <1>7, <2>1, SessionCore DEF Session!exec_null, Session!BothEnded, SInv, SessionSends
  <2>3. /\ x \in SessionCall
        /\ x.cq = d.cq /\ x.end = d.end /\ x.wire = d.wire /\ x.final_requested
        /\ ~d.final_requested => x.out = d.out \cup {Finish} /\ x.error = d.error
        /\ d.final_requested => x.out = d.out
    BY <1>2, <2>1, SessionFinishes
  <2>4. SessionTypes'
    BY <1>2, <1>3, <1>4, <1>5, <1>6, <1>7, <2>2, <2>3 DEF SInv, SessionTypes
  <2>5. SessionOneOfEach'
    BY <1>2, <1>3, <1>4, <1>5, <1>6, <1>7, <2>2, <2>3, SessionBatches DEF SInv, SessionOneOfEach, Opening, Writing, Reading, Closes, Finishes
  <2>6. SessionSends'
    BY <1>2, <1>3, <1>4, <1>5, <1>6, <1>7, <2>2, <2>3, SessionBatches DEF SInv, SessionTypes, SessionOneOfEach, SessionSends, Opening, Writing, Reading, Closes
  <2>7. SessionEnds'
    BY <1>2, <1>3, <1>4, <1>5, <1>6, <1>7, <2>2, <2>3, SessionBatches DEF SInv, SessionTypes, SessionOneOfEach, SessionSends, SessionEnds,
         Opening, Reading, Closes, Finishes
  <2>8. SessionOrder'
    BY <1>2, <1>3, <1>4, <1>5, <1>6, <1>7, <2>2, <2>3 DEF SInv, SessionOrder
  <2>9. SessionWireGrows /\ SessionHearsEnd
    BY <1>2, <1>3, <1>4, <1>5, <1>6, <1>7, <2>2, <2>3, SessionFacts, SessionBatches DEF SInv, SessionSends, SessionOrder, SessionWireGrows, SessionHearsEnd
  <2> QED
    BY <2>4, <2>5, <2>6, <2>7, <2>8, <2>9 DEF SInv
<1>8. CASE ~end_sent
  <2>1. session_call' = d
    BY <1>1, <1>8, SessionCore DEF Session!exec_null, Session!BothEnded
  <2>2. SessionTypes'
    BY <1>2, <1>3, <1>4, <1>5, <1>6, <1>8, <2>1 DEF SInv, SessionTypes
  <2>3. SessionOneOfEach'
    BY <1>2, <1>3, <1>4, <1>5, <1>6, <1>8, <2>1, SessionBatches DEF SInv, SessionOneOfEach, Opening, Writing, Reading, Closes, Finishes
  <2>4. SessionSends'
    BY <1>2, <1>3, <1>4, <1>5, <1>6, <1>8, <2>1, SessionBatches DEF SInv, SessionTypes, SessionOneOfEach, SessionSends, Opening, Writing, Reading, Closes
  <2>5. SessionEnds'
    BY <1>2, <1>3, <1>4, <1>5, <1>6, <1>8, <2>1, SessionBatches DEF SInv, SessionTypes, SessionOneOfEach, SessionSends, SessionEnds,
         Opening, Reading, Closes, Finishes
  <2>6. SessionOrder'
    BY <1>2, <1>3, <1>4, <1>5, <1>6, <1>8, <2>1 DEF SInv, SessionOrder
  <2>7. SessionWireGrows /\ SessionHearsEnd
    BY <1>2, <1>3, <1>4, <1>5, <1>6, <1>8, <2>1, SessionFacts, SessionBatches DEF SInv, SessionSends, SessionOrder, SessionWireGrows, SessionHearsEnd
  <2> QED
    BY <2>2, <2>3, <2>4, <2>5, <2>6, <2>7 DEF SInv
<1> QED
  BY <1>7, <1>8 DEF SInv, SessionTypes

\* The session is deleted with the status.
LEMMA session_exec_closing_step ==
  ASSUME SInv, Session!exec_closing
  PROVE  SInv' /\ SessionWireGrows /\ SessionHearsStatus
<1>1. PICK d : d = TakeEvent(session_call)
  OBVIOUS
<1>2. /\ d \in SessionCall
      /\ Head(session_call.cq) \in SEvents /\ Head(session_call.cq) \in Range(session_call.cq)
      /\ d.out = session_call.out
      /\ Range(d.cq) = Range(session_call.cq) \ {Head(session_call.cq)} /\ Distinct(d.cq)
      /\ d.wire = session_call.wire /\ d.end = session_call.end
      /\ d.final_requested = session_call.final_requested /\ d.error = session_call.error
  BY <1>1, SessionTakes DEF Session!exec_closing, Session!Handles, Session!Event
<1>3. (Head(session_call.cq) = StatusOK \/ Head(session_call.cq) = StatusError) /\ session_alive
  BY <1>2, SessionBatches DEF Session!exec_closing, Session!Handles, Session!Event
<1>4. /\ session_alive' = FALSE /\ session_call' = d
      /\ UNCHANGED <<caller, can_send, finished_sending, finished_receiving, end_sent,
                      session_ops, requested, broken, received, crashed, early>>
  BY <1>1, SessionCore DEF Session!exec_closing, Session!flags, Session!replies
<1>5. rep' \in {"complete", "failed"} /\ (rep' = "complete" => Head(session_call.cq) = StatusOK)
  BY <1>3, SessionBatches DEF Session!exec_closing, Session!Outcome
<1>6. /\ Finish \notin d.out /\ StatusOK \notin Range(d.cq) /\ StatusError \notin Range(d.cq)
      /\ session_call.final_requested
  BY <1>2, <1>3 DEF SInv, SessionOneOfEach, SessionEnds, Finishes
<1>7. SessionTypes'
  BY <1>2, <1>3, <1>4, <1>5, <1>6 DEF SInv, SessionTypes
<1>8. SessionOneOfEach'
  BY <1>2, <1>3, <1>4, <1>5, <1>6, SessionBatches DEF SInv, SessionOneOfEach, Opening, Writing, Reading, Closes, Finishes
<1>9. SessionSends'
  BY <1>2, <1>3, <1>4, <1>5, <1>6, SessionBatches DEF SInv, SessionTypes, SessionOneOfEach, SessionSends, Opening, Writing, Reading, Closes
<1>10. SessionEnds'
  BY <1>2, <1>3, <1>4, <1>5, <1>6, SessionBatches DEF SInv, SessionTypes, SessionOneOfEach, SessionSends, SessionEnds,
       Opening, Reading, Closes, Finishes
<1>11. SessionOrder'
  BY <1>2, <1>3, <1>4, <1>5, <1>6 DEF SInv, SessionOrder
<1>12. SessionWireGrows /\ SessionHearsStatus
  BY <1>2, <1>3, <1>4, <1>5, <1>6, SessionFacts, SessionBatches DEF SInv, SessionSends, SessionOrder, SessionWireGrows, SessionHearsStatus
<1> QED
  BY <1>7, <1>8, <1>9, <1>10, <1>11, <1>12 DEF SInv

\* The model drops an event for a session that was deleted.
LEMMA session_exec_deleted_step ==
  ASSUME SInv, Session!exec_deleted
  PROVE  SInv' /\ SessionWireGrows /\ SessionHearsNothing
<1>1. PICK d : d = TakeEvent(session_call)
  OBVIOUS
<1>2. /\ d \in SessionCall
      /\ Head(session_call.cq) \in SEvents /\ Head(session_call.cq) \in Range(session_call.cq)
      /\ d.out = session_call.out
      /\ Range(d.cq) = Range(session_call.cq) \ {Head(session_call.cq)} /\ Distinct(d.cq)
      /\ d.wire = session_call.wire /\ d.end = session_call.end
      /\ d.final_requested = session_call.final_requested /\ d.error = session_call.error
  BY <1>1, SessionTakes DEF Session!exec_deleted
<1>3. /\ ~session_alive /\ session_call' = d
      /\ UNCHANGED <<caller, session_alive, can_send, finished_sending, finished_receiving, end_sent,
                      session_ops, requested, broken, rep, received, crashed, early>>
  BY <1>1, SessionCore DEF Session!exec_deleted, Session!flags, Session!replies
<1>4. Finish \notin d.out /\ StatusOK \notin Range(d.cq) /\ StatusError \notin Range(d.cq)
  BY <1>2, <1>3 DEF SInv, SessionEnds, Finishes
<1>5. SessionTypes'
  BY <1>2, <1>3, <1>4 DEF SInv, SessionTypes
<1>6. SessionOneOfEach'
  BY <1>2, <1>3, <1>4, SessionBatches DEF SInv, SessionOneOfEach, Opening, Writing, Reading, Closes, Finishes
<1>7. SessionSends'
  BY <1>2, <1>3, <1>4, SessionBatches DEF SInv, SessionTypes, SessionOneOfEach, SessionSends, Opening, Writing, Reading, Closes
<1>8. SessionEnds'
  BY <1>2, <1>3, <1>4, SessionBatches DEF SInv, SessionTypes, SessionOneOfEach, SessionSends, SessionEnds,
       Opening, Reading, Closes, Finishes
<1>9. SessionOrder'
  BY <1>2, <1>3, <1>4 DEF SInv, SessionOrder
<1>10. SessionWireGrows /\ SessionHearsNothing
  BY <1>2, <1>3, <1>4, SessionFacts, SessionBatches DEF SInv, SessionSends, SessionOrder, SessionWireGrows, SessionHearsNothing
<1> QED
  BY <1>5, <1>6, <1>7, <1>8, <1>9, <1>10 DEF SInv

\* A batch of the session is done.
LEMMA SessionCompletes ==
  ASSUME SInv, NEW b, NEW r, NEW e, e = [flags |-> b.flags, result |-> r],
         e \in SEvents, e \notin Range(session_call.cq),
         session_call' = Session!Complete(session_call, b, r)
  PROVE  /\ session_call' \in SessionCall
         /\ session_call'.out = session_call.out \ {b}
         /\ Range(session_call'.cq) = Range(session_call.cq) \cup {e} /\ Distinct(session_call'.cq)
         /\ session_call'.wire = session_call.wire /\ session_call'.end = session_call.end
         /\ session_call'.final_requested = session_call.final_requested
         /\ session_call'.error = session_call.error
<1>1. PICK d : d = Complete(session_call, b, r)
  OBVIOUS
<1>2. session_call' = d
  BY <1>1 DEF Session!Complete, Complete
<1>3. session_call \in CallType(SBatches, SEvents, SEnds) /\ Distinct(session_call.cq)
  BY SessionFacts
<1>4. /\ d \in CallType(SBatches, SEvents, SEnds)
      /\ d.out = session_call.out \ {b} /\ Range(d.cq) = Range(session_call.cq) \cup {e} /\ Distinct(d.cq)
      /\ d.wire = session_call.wire /\ d.end = session_call.end
      /\ d.final_requested = session_call.final_requested /\ d.error = session_call.error
  BY <1>1, <1>3, CompleteFields
<1> QED
  BY <1>2, <1>4 DEF SessionCall

\* A completion brings the session what the handler has put on the wire, and its status.
SessionHearsWire ==
  /\ UNCHANGED <<received, finished_receiving, rep>>
  /\ Reply \in Range(session_call'.cq) => Reply \in Range(session_call.cq) \/ received < Len(call.wire)
  /\ NoReply \in Range(session_call'.cq) =>
       NoReply \in Range(session_call.cq) \/ broken \/ (call.end # "none" /\ received = Len(call.wire))
  /\ Reply \in Range(session_call'.cq) => NoReply \notin Range(session_call'.cq)
  /\ StatusOK \in Range(session_call'.cq) =>
       \/ StatusOK \in Range(session_call.cq)
       \/ ~broken /\ call.end # "none" /\ session_call.final_requested

\* One of the batches completes; a receive with what the handler has sent.
LEMMA session_BatchDone_step ==
  ASSUME SInv, HInv, Session!BatchDone(call)
  PROVE  SInv' /\ SessionWireGrows /\ SessionHearsWire
<1>1. /\ UNCHANGED <<caller, session_alive, can_send, finished_sending, finished_receiving, end_sent,
                      session_ops, requested, broken, rep, received, crashed, early>>
  BY DEF Session!BatchDone, Session!flags, Session!replies
<1>2. PICK b \in session_call.out :
          \E r \in Session!Results(b, call, received + Queued(session_call), broken) :
            session_call' = Session!Complete(session_call, b, r)
  BY SessionCore DEF Session!BatchDone, Session!Completed
<1>3. PICK r \in Session!Results(b, call, received + Queued(session_call), broken) :
          session_call' = Session!Complete(session_call, b, r)
  BY <1>2
<1>4. b \in SBatches /\ received \in Nat
  BY <1>2, SessionFacts DEF SInv, SessionTypes
<1>5. PICK e : e = [flags |-> b.flags, result |-> r]
  OBVIOUS
<1>6. CASE b # Read /\ b # Finish
  <2>1. b = Open \/ b = Write \/ b = End
    BY <1>4, <1>6, SessionBatches
  <2>2. "recv_status" \notin b.ops /\ "recv_message" \notin b.ops
    BY <2>1, SessionBatches
  <2>3. r = "none"
    BY <1>3, <2>2 DEF Session!Results
  <2>4. \/ b = Open /\ e = Opened
        \/ b = Write /\ e = Written
        \/ b = End /\ e = Ended
    BY <1>5, <2>1, <2>3, SessionBatches DEF Opened, Written, Ended
  <2>5. e \in SEvents /\ e \notin Range(session_call.cq)
    BY <1>2, <2>4, SessionBatches DEF SInv, SessionOneOfEach
  <2>6. /\ session_call' \in SessionCall
        /\ session_call'.out = session_call.out \ {b}
        /\ Range(session_call'.cq) = Range(session_call.cq) \cup {e} /\ Distinct(session_call'.cq)
        /\ session_call'.wire = session_call.wire /\ session_call'.end = session_call.end
        /\ session_call'.final_requested = session_call.final_requested
        /\ session_call'.error = session_call.error
    BY <1>3, <1>5, <2>5, SessionCompletes
  <2>7. Reply \in Range(session_call.cq) => NoReply \notin Range(session_call.cq)
    BY DEF SInv, SessionOneOfEach
  <2>8. SessionTypes'
    BY <1>1, <1>2, <2>4, <2>6, <2>7 DEF SInv, SessionTypes
  <2>9. SessionOneOfEach'
    BY <1>1, <1>2, <2>4, <2>6, <2>7, SessionBatches DEF SInv, SessionOneOfEach, Opening, Writing, Reading, Closes, Finishes
  <2>10. SessionSends'
    BY <1>1, <1>2, <2>4, <2>6, <2>7, SessionBatches DEF SInv, SessionTypes, SessionOneOfEach, SessionSends, Opening, Writing, Reading, Closes
  <2>11. SessionEnds'
    BY <1>1, <1>2, <2>4, <2>6, <2>7, SessionBatches DEF SInv, SessionTypes, SessionOneOfEach, SessionSends, SessionEnds,
         Opening, Reading, Closes, Finishes
  <2>12. SessionOrder'
    BY <1>1, <1>2, <2>4, <2>6, <2>7 DEF SInv, SessionOrder
  <2>13. SessionWireGrows /\ SessionHearsWire
    BY <1>1, <1>2, <2>4, <2>6, <2>7, SessionFacts, SessionBatches DEF SInv, SessionSends, SessionOrder, SessionWireGrows, SessionHearsWire
  <2> QED
    BY <2>8, <2>9, <2>10, <2>11, <2>12, <2>13 DEF SInv
<1>7. CASE b = Read
  <2>1. "recv_status" \notin b.ops /\ "recv_message" \in b.ops /\ b.flags = Session!Read
    BY <1>7, SessionBatches
  <2>2. Reply \notin Range(session_call.cq) /\ NoReply \notin Range(session_call.cq)
    BY <1>2, <1>7 DEF SInv, SessionOneOfEach
  <2>3. Queued(session_call) = 0
    <3>1. \A x \in Range(session_call.cq) : x.result # "message"
      BY <2>2, SessionFacts, SessionBatches
    <3>2. session_call.cq \in Seq(SEvents)
      BY SessionFacts
    <3> QED
      BY <3>1, <3>2, QueuedNone
  <2>4. r \in Session!Results(b, call, received, broken)
    BY <1>3, <1>4, <2>3
  <2>5. \/ r = "message" /\ received < Len(call.wire)
        \/ r = "null" /\ (broken \/ (call.end # "none" /\ received = Len(call.wire)))
    BY <2>1, <2>4 DEF Session!Results
  <2>6. (r = "message" => e = Reply) /\ (r = "null" => e = NoReply)
    BY <1>5, <2>1 DEF Reply, NoReply
  <2>7. e \in SEvents /\ e \notin Range(session_call.cq)
    BY <2>2, <2>5, <2>6, SessionBatches
  <2>8. /\ session_call' \in SessionCall
        /\ session_call'.out = session_call.out \ {b}
        /\ Range(session_call'.cq) = Range(session_call.cq) \cup {e} /\ Distinct(session_call'.cq)
        /\ session_call'.wire = session_call.wire /\ session_call'.end = session_call.end
        /\ session_call'.final_requested = session_call.final_requested
        /\ session_call'.error = session_call.error
    BY <1>3, <1>5, <2>7, SessionCompletes
  <2>9. SessionTypes'
    BY <1>1, <1>2, <1>7, <2>2, <2>5, <2>6, <2>8 DEF SInv, SessionTypes
  <2>10. SessionOneOfEach'
    BY <1>1, <1>2, <1>7, <2>2, <2>5, <2>6, <2>8, SessionBatches DEF SInv, SessionOneOfEach, Opening, Writing, Reading, Closes, Finishes
  <2>11. SessionSends'
    BY <1>1, <1>2, <1>7, <2>2, <2>5, <2>6, <2>8, SessionBatches DEF SInv, SessionTypes, SessionOneOfEach, SessionSends, Opening, Writing, Reading, Closes
  <2>12. SessionEnds'
    BY <1>1, <1>2, <1>7, <2>2, <2>5, <2>6, <2>8, SessionBatches DEF SInv, SessionTypes, SessionOneOfEach, SessionSends, SessionEnds,
         Opening, Reading, Closes, Finishes
  <2>13. SessionOrder'
    BY <1>1, <1>2, <1>7, <2>2, <2>5, <2>6, <2>8 DEF SInv, SessionOrder
  <2>14. SessionWireGrows /\ SessionHearsWire
    BY <1>1, <1>2, <1>7, <2>2, <2>5, <2>6, <2>8, SessionFacts, SessionBatches DEF SInv, SessionSends, SessionOrder, SessionWireGrows, SessionHearsWire
  <2> QED
    BY <2>9, <2>10, <2>11, <2>12, <2>13, <2>14 DEF SInv
<1>8. CASE b = Finish
  <2>1. "recv_status" \in b.ops /\ b.flags = Session!Closing
    BY <1>8, SessionBatches
  <2>2. call.end \in {"none", "OK"}
    BY HandlerFacts DEF CallType, HEnds
  <2>3. r = "error" \/ (r = "OK" /\ ~broken /\ call.end # "none")
    BY <1>3, <2>1, <2>2 DEF Session!Results
  <2>4. (r = "error" => e = StatusError) /\ (r = "OK" => e = StatusOK)
    BY <1>5, <2>1 DEF StatusError, StatusOK
  <2>5. StatusOK \notin Range(session_call.cq) /\ StatusError \notin Range(session_call.cq)
    BY <1>2, <1>8 DEF SInv, SessionOneOfEach
  <2>6. e \in SEvents /\ e \notin Range(session_call.cq)
    BY <2>3, <2>4, <2>5, SessionBatches
  <2>7. /\ session_call' \in SessionCall
        /\ session_call'.out = session_call.out \ {b}
        /\ Range(session_call'.cq) = Range(session_call.cq) \cup {e} /\ Distinct(session_call'.cq)
        /\ session_call'.wire = session_call.wire /\ session_call'.end = session_call.end
        /\ session_call'.final_requested = session_call.final_requested
        /\ session_call'.error = session_call.error
    BY <1>3, <1>5, <2>6, SessionCompletes
  <2>8. /\ session_call.final_requested
        /\ Reply \in Range(session_call.cq) => NoReply \notin Range(session_call.cq)
    BY <1>2, <1>8 DEF SInv, SessionOneOfEach, SessionEnds, Finishes
  <2>9. SessionTypes'
    BY <1>1, <1>2, <1>8, <2>3, <2>4, <2>5, <2>7, <2>8 DEF SInv, SessionTypes
  <2>10. SessionOneOfEach'
    BY <1>1, <1>2, <1>8, <2>3, <2>4, <2>5, <2>7, <2>8, SessionBatches DEF SInv, SessionOneOfEach, Opening, Writing, Reading, Closes, Finishes
  <2>11. SessionSends'
    BY <1>1, <1>2, <1>8, <2>3, <2>4, <2>5, <2>7, <2>8, SessionBatches DEF SInv, SessionTypes, SessionOneOfEach, SessionSends, Opening, Writing, Reading, Closes
  <2>12. SessionEnds'
    BY <1>1, <1>2, <1>8, <2>3, <2>4, <2>5, <2>7, <2>8, SessionBatches DEF SInv, SessionTypes, SessionOneOfEach, SessionSends, SessionEnds,
         Opening, Reading, Closes, Finishes
  <2>13. SessionOrder'
    BY <1>1, <1>2, <1>8, <2>3, <2>4, <2>5, <2>7, <2>8 DEF SInv, SessionOrder
  <2>14. SessionWireGrows /\ SessionHearsWire
    BY <1>1, <1>2, <1>8, <2>3, <2>4, <2>5, <2>7, <2>8, SessionFacts, SessionBatches DEF SInv, SessionSends, SessionOrder, SessionWireGrows, SessionHearsWire
  <2> QED
    BY <2>9, <2>10, <2>11, <2>12, <2>13, <2>14 DEF SInv
<1> QED
  BY <1>6, <1>7, <1>8

----------------------------------------------------------------------------
\* Both sides.

\* What was sent is counted.
LEMMA WireLens ==
  ASSUME HInv, SInv
  PROVE  /\ Len(call.wire) \in Nat /\ Len(session_call.wire) \in Nat
         /\ read \in Nat /\ received \in Nat /\ pushed \in Nat /\ requested \in Nat
  BY HandlerFacts, SessionFacts DEF HInv, HandlerTypes, SInv, SessionTypes

\* A step of the handler leaves the session what it has heard.
LEMMA SessionHeardKept ==
  ASSUME HInv, SInv, SessionHeard, HInv', WireGrows, UNCHANGED session, method' = method
  PROVE  SInv' /\ SessionHeard'
<1>1. UNCHANGED <<session_alive, session_call, session_ops, caller, can_send, finished_sending,
                  finished_receiving, end_sent, requested, broken, rep, received, crashed, early>>
  BY DEF session
<1>2. SInv'
  BY <1>1 DEF SInv, SessionTypes, SessionOneOfEach, SessionSends, SessionEnds, SessionOrder, Opening, Writing, Reading, Closes, Finishes
<1>3. Len(call'.wire) \in Nat
  <2>1. PICK w : w = call'.wire
    OBVIOUS
  <2>2. w \in Seq(Nat)
    BY <2>1 DEF HInv, HandlerTypes, HandlerCall, CallType
  <2>3. Len(w) \in Nat
    BY <2>2, LenProperties
  <2> QED
    BY <2>1, <2>3
<1>4. call.end # "none" => ended # "no"
  BY DEF HInv, Ends
<1>5. SessionHeard'
  BY <1>1, <1>3, <1>4, WireLens DEF SessionHeard, WireGrows
<1> QED
  BY <1>2, <1>5

\* The steps of the worker in which no code of the method runs.
LEMMA WorkerAlone_step ==
  ASSUME HInv, WorkerAlone
  PROVE  HInv' /\ WireGrows /\ HearsNothing /\ UNCHANGED <<pushed, ended>>
<1>1. HInv' /\ WireGrows /\ HearsNothing
  BY perform_attach_step, perform_handshake_step, exec_handshake_step, exec_send_step,
     exec_none_step, exec_closing_step, exec_deleted_step DEF WorkerAlone
<1>2. UNCHANGED <<pushed, ended>>
  BY DEF WorkerAlone, perform_attach, perform_handshake, exec_handshake, exec_send, exec_none,
         exec_closing, exec_deleted, replies
<1> QED
  BY <1>1, <1>2

\* What a step of the server must show of the method, beside HInv.
LEMMA ServerStep ==
  ASSUME IInv, Server
  PROVE  IInv'
<1>1. HInv /\ SInv /\ Answers /\ HandlerHeard /\ SessionHeard /\ UNCHANGED session
  BY DEF IInv, HInv, SInv, Server
<1>2. UNCHANGED <<session_call, broken>>
  BY <1>1 DEF session
<1>3. HInv' /\ WireGrows /\ Answers' /\ HandlerHeard' /\ method' = method
  <2>1. CASE answering = "no" /\ WorkerAlone /\ UNCHANGED service
    <3>1. HInv' /\ WireGrows /\ HearsNothing /\ UNCHANGED <<pushed, ended>>
      BY <1>1, <2>1, WorkerAlone_step
    <3>2. UNCHANGED <<method, answering, misused>>
      BY <2>1 DEF service
    <3>3. Answers'
      BY <1>1, <3>1, <3>2 DEF Answers, HearsNothing
    <3>4. HandlerHeard'
      BY <1>1, <1>2, <3>1, <3>2, WireLens DEF HandlerHeard, HearsNothing
    <3> QED
      BY <3>1, <3>2, <3>3, <3>4
  <2>2. CASE Receives
    <3>1. HInv' /\ WireGrows /\ Hears
      BY <1>1, <2>2, exec_recv_step DEF Receives
    <3>2. UNCHANGED <<method, misused, pushed, ended>> /\ answering = "no"
      BY <2>2 DEF Receives, exec_recv, replies
    <3>3. /\ method = "any" => answering' = "no"
          /\ method = "reflection" /\ reader' = "complete" => answering' = "end"
          /\ method = "reflection" /\ reader' # "complete" => answering' = "request"
      BY <2>2 DEF Receives
    <3>4. Answers'
      BY <1>1, <3>1, <3>2, <3>3, WireLens DEF Answers, Hears
    <3>5. HandlerHeard'
      BY <1>1, <1>2, <3>1, <3>2, WireLens DEF HandlerHeard, Hears, Answers
    <3> QED
      BY <3>1, <3>2, <3>4, <3>5
  <2>3. CASE Produces
    <3>1. HInv' /\ WireGrows /\ HearsNothing
      BY <1>1, <2>3, push_step, finish_step, fail_step DEF Produces
    <3>2. UNCHANGED <<method, answering, misused>> /\ method = "any"
      BY <2>3 DEF Produces, service
    <3>3. Answers'
      BY <1>1, <3>1, <3>2 DEF Answers, HearsNothing
    <3>4. HandlerHeard'
      BY <1>1, <1>2, <3>1, <3>2, WireLens DEF HandlerHeard, HearsNothing, WireGrows
    <3> QED
      BY <3>1, <3>2, <3>3, <3>4
  <2>4. CASE on_request /\ ended = "no"
    <3>1. /\ answering = "request" /\ answering' = "no" /\ UNCHANGED <<method, misused>>
          /\ push \/ fail
      BY <2>4 DEF on_request, answer
    <3>2. HInv' /\ WireGrows /\ HearsNothing
      BY <1>1, <3>1, push_step, fail_step
    <3>3. ended' = "fail" \/ (ended' = "no" /\ pushed' = pushed + 1)
      BY <2>4, <3>1 DEF push, fail
    <3>4. Answers'
      BY <1>1, <2>4, <3>1, <3>2, <3>3, WireLens DEF Answers, HearsNothing
    <3>5. HandlerHeard'
      BY <1>1, <1>2, <2>4, <3>1, <3>2, <3>3, WireLens DEF HandlerHeard, HearsNothing
    <3> QED
      BY <3>1, <3>2, <3>4, <3>5
  <2>5. CASE on_request /\ ended # "no"
    <3>1. /\ answering = "request" /\ answering' = "no" /\ misused' = TRUE
          /\ UNCHANGED method /\ UNCHANGED vars
      BY <2>5 DEF on_request
    <3>2. UNCHANGED <<phase, alive, finished, ready_to_send, pending_ops, call, reader, read, pushed, ended>>
      BY <3>1 DEF vars, sending, reading, replies
    <3>3. HInv' /\ WireGrows
      BY <1>1, <3>2, WireLens DEF HInv, WireGrows, HandlerTypes, OneOfEach, Sends, Ends, Reads, Order, Shaking, Sending, Receiving, Ending, Aborting
    <3>4. Answers'
      BY <1>1, <2>5, <3>1, <3>2 DEF Answers
    <3>5. HandlerHeard'
      BY <1>1, <1>2, <3>1, <3>2 DEF HandlerHeard
    <3> QED
      BY <3>1, <3>3, <3>4, <3>5
  <2>6. CASE on_end /\ ended = "no"
    <3>1. answering = "end" /\ answering' = "no" /\ UNCHANGED <<method, misused>> /\ finish
      BY <2>6 DEF on_end
    <3>2. HInv' /\ WireGrows /\ HearsNothing
      BY <1>1, <3>1, finish_step
    <3>3. ended' = "finish" /\ pushed' = pushed
      BY <3>1 DEF finish
    <3>4. Answers'
      BY <1>1, <2>6, <3>1, <3>2, <3>3, WireLens DEF Answers, HearsNothing
    <3>5. HandlerHeard'
      BY <1>1, <1>2, <2>6, <3>1, <3>2, <3>3, WireLens DEF HandlerHeard, HearsNothing, Answers
    <3> QED
      BY <3>1, <3>2, <3>4, <3>5
  <2>7. CASE on_end /\ ended # "no"
    <3>1. answering = "end" /\ answering' = "no" /\ UNCHANGED <<method, misused>> /\ UNCHANGED vars
      BY <2>7 DEF on_end
    <3>2. UNCHANGED <<phase, alive, finished, ready_to_send, pending_ops, call, reader, read, pushed, ended>>
      BY <3>1 DEF vars, sending, reading, replies
    <3>3. HInv' /\ WireGrows
      BY <1>1, <3>2, WireLens DEF HInv, WireGrows, HandlerTypes, OneOfEach, Sends, Ends, Reads, Order, Shaking, Sending, Receiving, Ending, Aborting
    <3>4. Answers'
      BY <1>1, <2>7, <3>1, <3>2 DEF Answers
    <3>5. HandlerHeard'
      BY <1>1, <1>2, <3>1, <3>2 DEF HandlerHeard
    <3> QED
      BY <3>1, <3>3, <3>4, <3>5
  <2>8. CASE BatchDone(session_call, broken) /\ UNCHANGED service
    <3>1. HInv' /\ WireGrows /\ HearsWire
      BY <1>1, <2>8, BatchDone_step
    <3>2. UNCHANGED <<method, answering, misused, pushed>>
      BY <2>8 DEF service, BatchDone, replies
    <3>3. Answers'
      BY <1>1, <3>1, <3>2 DEF Answers, HearsWire
    <3>4. ended = "no" => call.end = "none"
      BY <1>1 DEF HInv, Ends
    <3>5. HandlerHeard'
      BY <1>1, <1>2, <3>1, <3>2, <3>4, WireLens DEF HandlerHeard, HearsWire
    <3> QED
      BY <3>1, <3>2, <3>3, <3>5
  <2> QED
    BY <2>1, <2>2, <2>3, <2>4, <2>5, <2>6, <2>7, <2>8 DEF Server, Worker
<1>4. SInv' /\ SessionHeard'
  BY <1>1, <1>3, SessionHeardKept
<1> QED
  BY <1>3, <1>4 DEF IInv, HInv, SInv

\* An unbroken call whose replies have all been received has, with the reflection
\* service, an answer to every request.
LEMMA AllAnswered ==
  ASSUME HInv, SInv, Answers, HandlerHeard, SessionHeard,
         ~broken, call.end # "none", session_call.final_requested
  PROVE  /\ received = Len(call.wire) /\ caller = "done"
         /\ method = "reflection" /\ ended # "fail" => received = requested
<1>1. finished_receiving /\ end_sent /\ finished_sending /\ caller = "done" /\ session_ops = <<>>
  BY DEF SInv, SessionTypes, SessionSends, SessionEnds
<1>2. received = Len(call.wire)
  BY <1>1 DEF SessionHeard
<1>3. ASSUME method = "reflection", ended # "fail" PROVE received = requested
  <2>1. ended = "finish" /\ pending_ops = <<>>
    BY <1>3 DEF HInv, HandlerTypes, Ends, Sends
  <2>2. Len(call.wire) = pushed
    BY <2>1, HandlerFacts DEF HInv, Order
  <2>3. Len(session_call.wire) = requested
    BY <1>1, SessionFacts DEF SInv, SessionOrder
  <2>4. pushed = read /\ read = Len(session_call.wire)
    BY <1>3, <2>1 DEF Answers, HandlerHeard
  <2> QED
    BY <1>2, <2>2, <2>3, <2>4
<1> QED
  BY <1>1, <1>2, <1>3

\* A step of the session leaves the handler what it has heard.
LEMMA ClientStep ==
  ASSUME IInv, Client
  PROVE  IInv'
<1>1. HInv /\ SInv /\ Answers /\ HandlerHeard /\ SessionHeard /\ UNCHANGED handler
  BY DEF IInv, HInv, SInv, Client
<1>2. UNCHANGED <<phase, alive, finished, ready_to_send, pending_ops, call, reader, read, pushed, ended,
                  method, answering, misused>>
  BY <1>1 DEF handler, service, vars, sending, reading, replies
<1>3. HInv' /\ Answers'
  BY <1>1, <1>2 DEF HInv, Answers, HandlerTypes, OneOfEach, Sends, Ends, Reads, Order, Shaking, Sending, Receiving, Ending, Aborting
<1>4. /\ SInv' /\ SessionWireGrows
      /\ \/ SessionHearsNothing \/ SessionHearsReply \/ SessionHearsEnd
         \/ SessionHearsStatus \/ SessionHearsWire
  BY <1>1, session_get_future_step, session_push_step, session_end_requests_step, session_Break_step,
     session_exec_handshake_step, session_exec_write_step, session_exec_ending_step,
     session_exec_reply_step, session_exec_null_step, session_exec_closing_step,
     session_exec_deleted_step, session_BatchDone_step DEF Client, Session!exec
<1>5. Len(session_call'.wire) \in Nat
  <2>1. PICK w : w = session_call'.wire
    OBVIOUS
  <2>2. w \in Seq(Nat)
    BY <1>4, <2>1 DEF SInv, SessionTypes, SessionCall, CallType
  <2>3. Len(w) \in Nat
    BY <2>2, LenProperties
  <2> QED
    BY <2>1, <2>3
<1>6. HandlerHeard'
  BY <1>1, <1>2, <1>4, <1>5, WireLens DEF HandlerHeard, SessionWireGrows
<1>7. SessionHeard'
  <2>1. CASE SessionHearsNothing
    BY <1>1, <1>2, <1>4, <2>1, WireLens DEF SessionHeard, SessionWireGrows, SessionHearsNothing
  <2>2. CASE SessionHearsReply
    BY <1>1, <1>2, <1>4, <2>2, WireLens DEF SessionHeard, SessionWireGrows, SessionHearsReply
  <2>3. CASE SessionHearsEnd
    BY <1>1, <1>2, <1>4, <2>3, WireLens DEF SessionHeard, SessionWireGrows, SessionHearsEnd
  <2>4. CASE SessionHearsStatus
    BY <1>1, <1>2, <1>4, <2>4, WireLens DEF SessionHeard, SessionWireGrows, SessionHearsStatus
  <2>5. CASE SessionHearsWire
    <3>1. ~broken /\ call.end # "none" /\ session_call.final_requested
            => /\ received = Len(call.wire) /\ caller = "done"
               /\ method = "reflection" /\ ended # "fail" => received = requested
      BY <1>1, AllAnswered
    <3>2. received + (IF Reply \in Range(session_call'.cq) THEN 1 ELSE 0) <= Len(call.wire)
      BY <1>1, <2>5, WireLens DEF SessionHeard, SessionHearsWire
    <3>3. (NoReply \in Range(session_call'.cq) \/ finished_receiving) /\ ~broken
            => call.end # "none" /\ received = Len(call.wire)
      BY <1>1, <2>5 DEF SessionHeard, SessionHearsWire
    <3>4. StatusOK \in Range(session_call'.cq) \/ rep = "complete"
            => /\ call.end # "none" /\ received = Len(call.wire) /\ caller = "done"
               /\ method = "reflection" /\ ended # "fail" => received = requested
      BY <1>1, <2>5, <3>1 DEF SessionHeard, SessionHearsWire
    <3> QED
      BY <1>2, <1>4, <2>5, <3>2, <3>3, <3>4 DEF SessionHeard, SessionHearsWire, SessionWireGrows
  <2> QED
    BY <1>4, <2>1, <2>2, <2>3, <2>4, <2>5
<1> QED
  BY <1>3, <1>4, <1>6, <1>7 DEF IInv, HInv, SInv

\* The invariant holds when the session has started its handshake.
LEMMA InitInv == RpcInit => IInv
<1> SUFFICES ASSUME RpcInit PROVE IInv
  OBVIOUS
<1>1. Session!NewCall = NewCall
  BY DEF Session!NewCall, NewCall
<1>2. /\ phase = "new" /\ alive = TRUE /\ finished = FALSE /\ ready_to_send = FALSE
      /\ pending_ops = <<>> /\ call = NewCall /\ reader = "null" /\ pushed = 0 /\ ended = "no" /\ read = 0
      /\ method \in {"any", "reflection"} /\ answering = "no" /\ misused = FALSE
  BY DEF RpcInit, MethodInit, Init
<1>3. /\ caller = "starting" /\ session_alive = TRUE /\ can_send = FALSE /\ finished_sending = FALSE
      /\ finished_receiving = FALSE /\ end_sent = FALSE /\ session_ops = <<>> /\ requested = 0
      /\ broken = FALSE /\ rep = "null" /\ received = 0 /\ crashed = FALSE /\ early = FALSE
  BY DEF RpcInit, Session!Init
<1>4. /\ NewCall \in HandlerCall /\ NewCall \in CallType(SBatches, SEvents, SEnds)
      /\ NewCall.out = {} /\ Range(NewCall.cq) = {} /\ Distinct(NewCall.cq)
      /\ NewCall.wire = <<>> /\ NewCall.end = "none"
      /\ ~NewCall.final_requested /\ ~NewCall.error
  BY NewFields DEF HandlerCall, HEnds, SEnds
<1>5. PICK s : s = <<>>
  OBVIOUS
<1>6. PICK c : c = NewCall
  OBVIOUS
<1>7. PICK d : d = StartBatch(c, Open.flags, Open.ops, s)
  OBVIOUS
<1>8. session_call = d
  <2>1. session_call = StartBatch(c, Session!Handshake, {"send_metadata", "recv_metadata"}, s)
    BY <1>1, <1>5, <1>6, SessionCore DEF RpcInit, Session!Init
  <2> QED
    BY <1>7, <2>1, SessionBatches
<1>9. /\ d \in SessionCall
      /\ d.out = {Open} /\ d.cq = c.cq /\ d.end = "none" /\ d.wire = <<>>
      /\ ~d.final_requested /\ d.error = c.error
  <2>1. c \in CallType(SBatches, SEvents, SEnds)
    BY <1>4, <1>6
  <2>2. Open.ops \cap FinalRecvs = {} /\ Open.ops \cap FinalSends = {}
    BY SessionBatches DEF FinalRecvs, FinalSends
  <2>3. Legal(c, Open.ops)
    BY <1>4, <1>6, <2>2 DEF Legal
  <2>4. Open \in SBatches /\ Open = [flags |-> Open.flags, ops |-> Open.ops]
    BY SessionBatches
  <2>5. /\ d \in CallType(SBatches, SEvents, SEnds)
        /\ d.out = c.out \cup {Open}
        /\ d.cq = c.cq /\ d.end = c.end /\ d.wire = c.wire /\ d.error = c.error
        /\ d.final_requested <=> c.final_requested \/ Open.ops \cap FinalRecvs # {}
    BY <1>5, <1>7, <2>1, <2>3, <2>4, AskFields
  <2> QED
    BY <1>4, <1>6, <2>2, <2>5 DEF SessionCall
<1>10. Messages(0) = <<>> /\ Len(<<>>) = 0 /\ Pending(pending_ops, pushed) /\ Pending(session_ops, requested)
  BY <1>2, <1>3 DEF Messages, Pending
<1>11. HandlerTypes
  BY <1>2, <1>4 DEF HandlerTypes
<1>12. OneOfEach /\ Sends /\ Ends /\ Reads
  BY <1>2, <1>4 DEF HandlerTypes, OneOfEach, Sends, Ends, Reads, Order, Shaking, Sending, Receiving, Ending, Aborting
<1>13. Order
  BY <1>2, <1>4, <1>10 DEF Order
<1>14. Answers
  <2>1. misused \in BOOLEAN
    BY <1>2
  <2> QED
    BY <1>2, <2>1 DEF Answers
<1>15. SessionTypes
  BY <1>3, <1>4, <1>6, <1>8, <1>9 DEF SessionTypes
<1>16. SessionOneOfEach /\ SessionSends /\ SessionEnds
  BY <1>3, <1>4, <1>6, <1>8, <1>9, SessionBatches DEF SessionTypes, SessionOneOfEach, SessionSends, SessionEnds, SessionOrder, Opening, Writing, Reading, Closes, Finishes
<1>17. SessionOrder
  BY <1>3, <1>8, <1>9, <1>10 DEF SessionOrder
<1>18. HandlerHeard /\ SessionHeard
  BY <1>2, <1>3, <1>4, <1>6, <1>8, <1>9, <1>10 DEF HandlerHeard, SessionHeard
<1> QED
  BY <1>11, <1>12, <1>13, <1>14, <1>15, <1>16, <1>17, <1>18 DEF IInv

\* Every step of either side keeps the invariant.
LEMMA InvStep == IInv /\ [RpcNext]_all => IInv'
<1> SUFFICES ASSUME IInv, [RpcNext]_all PROVE IInv'
  OBVIOUS
<1>1. CASE Client
  BY <1>1, ClientStep
<1>2. CASE Server
  BY <1>2, ServerStep
<1>3. CASE UNCHANGED all
  <2>1. /\ UNCHANGED <<phase, alive, finished, ready_to_send, pending_ops, call, reader, read, pushed, ended,
                       method, answering, misused>>
        /\ UNCHANGED <<session_alive, session_call, session_ops, caller, can_send, finished_sending,
                       finished_receiving, end_sent, requested, broken, rep, received, crashed, early>>
    BY <1>3 DEF all, handler, session, service, vars, sending, reading, replies
  <2>2. HandlerTypes' /\ OneOfEach' /\ Sends' /\ Ends' /\ Reads' /\ Order'
    BY <2>1 DEF IInv, HandlerTypes, OneOfEach, Sends, Ends, Reads, Order, Shaking, Sending, Receiving, Ending, Aborting
  <2>3. SessionTypes' /\ SessionOneOfEach' /\ SessionSends' /\ SessionEnds' /\ SessionOrder'
    BY <2>1 DEF IInv, SessionTypes, SessionOneOfEach, SessionSends, SessionEnds, SessionOrder, Opening, Writing, Reading, Closes, Finishes
  <2>4. Answers' /\ HandlerHeard' /\ SessionHeard'
    BY <2>1 DEF IInv, Answers, HandlerHeard, SessionHeard
  <2> QED
    BY <2>2, <2>3, <2>4 DEF IInv
<1> QED
  BY <1>1, <1>2, <1>3 DEF RpcNext, Done

----------------------------------------------------------------------------
\* The invariant holds in every state, for any number of requests and replies.
THEOREM Invariant == RpcSpec => []IInv
  BY InitInv, InvStep, PTL DEF RpcSpec

\* grpc core never refuses a batch of the handler: the assertions on the status of
\* start_batch in perform, flush_, send_server_end, fail and exec hold.
THEOREM HandlerNotRefused == RpcSpec => []NoRefusedBatch
<1>1. IInv => NoRefusedBatch
  BY DEF IInv, HandlerTypes, NoRefusedBatch
<1> QED
  BY <1>1, Invariant, PTL

\* push, finish and exec put every reply on the wire in the order of push, and the
\* status of a stream that finished after the last of them.
THEOREM StatusAfterReplies == RpcSpec => []RepliesThenStatus
<1>1. ASSUME IInv PROVE RepliesThenStatus
  <2>1. HInv
    BY <1>1 DEF IInv, HInv
  <2>2. ended # "fail" /\ call.end # "none" => ended = "finish" /\ pending_ops = <<>>
    BY <2>1 DEF HInv, HandlerTypes, Ends, Sends
  <2>3. pending_ops = <<>> => pushed - Len(pending_ops) = pushed
    BY <2>1, HandlerFacts
  <2> QED
    BY <2>1, <2>2, <2>3 DEF HInv, Order, RepliesThenStatus
<1> QED
  BY <1>1, Invariant, PTL

\* No batch and no completion is left for a handler that exec_closing has deleted after
\* its reader was completed.
THEOREM DeletedLast == RpcSpec => []NoEventAfterDelete
<1>1. ASSUME IInv, ~alive, reader = "complete" PROVE Quiescent(call)
  <2>1. HInv
    BY <1>1 DEF IInv, HInv
  <2>2. ~Shaking /\ ~Sending /\ ~Receiving /\ ~Ending /\ ~Aborting
    BY <1>1, <2>1 DEF HInv, Sends, Ends, Reads
  <2>3. call.out = {} /\ Range(call.cq) = {}
    <3>1. call.out \subseteq HBatches /\ Range(call.cq) \subseteq HEvents
      BY <2>1, HandlerFacts
    <3>2. call.out = {}
      BY <2>2, <3>1 DEF Shaking, Sending, Receiving, Ending, Aborting, HBatches
    <3>3. Range(call.cq) = {}
      BY <2>2, <3>1 DEF Shaking, Sending, Receiving, Ending, Aborting, HEvents
    <3> QED
      BY <3>2, <3>3
  <2>4. call.cq = <<>>
    <3>1. PICK s : s = call.cq
      OBVIOUS
    <3>2. s \in Seq(HEvents) /\ Range(s) = {}
      BY <2>1, <2>3, <3>1, HandlerFacts
    <3>3. s = <<>>
      BY <3>2, NoEvents
    <3> QED
      BY <3>1, <3>3
  <2> QED
    BY <2>3, <2>4 DEF Quiescent
<1>2. IInv => NoEventAfterDelete
  BY <1>1 DEF NoEventAfterDelete
<1> QED
  BY <1>2, Invariant, PTL

\* Bidir_streaming_call_session sends the requests in order and their end after the last,
\* and is deleted when both directions are closed; unless the end of the replies was
\* handled before the completion of send_client_end, none of its batches is refused and
\* none is left.
THEOREM SessionIsSafe == RpcSpec => []SessionSafe
<1>1. ASSUME IInv PROVE SessionSafe
  <2>1. SInv
    BY <1>1 DEF IInv, SInv
  <2>2. /\ session_call.wire = Session!Messages(requested - Len(session_ops))
        /\ session_ops = <<>> => session_call.wire = Session!Messages(requested)
    <3>1. \A n : Session!Messages(n) = Messages(n)
      BY DEF Session!Messages, Messages
    <3>2. session_call.wire = Messages(requested - Len(session_ops))
      BY <2>1 DEF SInv, SessionOrder
    <3>3. session_ops = <<>> => requested - Len(session_ops) = requested
      BY <2>1, SessionFacts
    <3> QED
      BY <3>1, <3>2, <3>3
  <2>3. session_call.end # "none" => finished_sending /\ session_ops = <<>>
    BY <2>1 DEF SInv, SessionSends
  <2>4. ~early => ~session_call.error
    BY <2>1 DEF SInv, SessionTypes
  <2>5. ASSUME ~session_alive
        PROVE  finished_receiving /\ session_call.end = "close" /\ session_ops = <<>>
    <3>1. finished_receiving /\ end_sent
      BY <2>1, <2>5 DEF SInv, SessionEnds
    <3>2. session_call.end # "none" /\ session_ops = <<>>
      BY <2>1, <3>1 DEF SInv, SessionSends
    <3>3. session_call.end \in {"none", "close"}
      BY <2>1, SessionFacts DEF CallType, SEnds
    <3> QED
      BY <3>1, <3>2, <3>3
  <2>6. ASSUME ~session_alive, ~early PROVE Session!Quiescent(session_call)
    <3>1. ~Opening /\ ~Writing /\ ~Reading /\ ~Closes /\ ~Finishes
      BY <2>1, <2>6 DEF SInv, SessionSends, SessionEnds
    <3>2. session_call.out = {} /\ Range(session_call.cq) = {}
      <4>1. session_call.out \subseteq SBatches /\ Range(session_call.cq) \subseteq SEvents
        BY <2>1, SessionFacts
      <4>2. session_call.out = {}
        BY <3>1, <4>1 DEF Opening, Writing, Reading, Closes, Finishes, SBatches
      <4>3. Range(session_call.cq) = {}
        BY <3>1, <4>1 DEF Opening, Writing, Reading, Closes, Finishes, SEvents
      <4> QED
        BY <4>2, <4>3
    <3>3. PICK s : s = session_call.cq
      OBVIOUS
    <3>4. s \in Seq(SEvents) /\ Range(s) = {}
      BY <2>1, <3>2, <3>3, SessionFacts
    <3>5. s = <<>>
      BY <3>4, NoEvents
    <3> QED
      BY <3>2, <3>3, <3>5 DEF Session!Quiescent
  <2> QED
    BY <2>2, <2>3, <2>4, <2>5, <2>6 DEF SessionSafe, Session!Safe
<1> QED
  BY <1>1, Invariant, PTL

\* Replies the client sees complete are all the method has pushed before finish, and
\* those of the reflection service answer every request.
THEOREM ClientSeesAll == RpcSpec => []EndToEnd
<1>1. ASSUME IInv, rep = "complete", ended # "fail"
      PROVE  /\ ended = "finish" /\ received = pushed
             /\ method = "reflection" => received = requested
  <2>1. HInv /\ SessionHeard
    BY <1>1 DEF IInv, HInv
  <2>2. /\ call.end # "none" /\ received = Len(call.wire)
        /\ method = "reflection" => received = requested
    BY <1>1, <2>1 DEF SessionHeard
  <2>3. ended = "finish" /\ pending_ops = <<>>
    BY <1>1, <2>1, <2>2 DEF HInv, HandlerTypes, Ends, Sends
  <2>4. Len(call.wire) = pushed
    BY <2>1, <2>3, HandlerFacts DEF HInv, Order
  <2> QED
    BY <2>2, <2>3, <2>4
<1>2. IInv => EndToEnd
  BY <1>1 DEF EndToEnd
<1> QED
  BY <1>2, Invariant, PTL
=============================================================================
