---------------------- MODULE ClientStreamingRpc_proofs ----------------------
(***************************************************************************)
(* A client-streaming call from end to end, for any number of requests.    *)
(***************************************************************************)
EXTENDS ClientStreamingRpc, GrpcCall_proofs

----------------------------------------------------------------------------
\* The session.

\* The batches a session starts, and their events.
Meta == [flags |-> {}, ops |-> MetadataOps]
Msg == [flags |-> {}, ops |-> {"send_message"}]
End == [flags |-> {}, ops |-> EndOps]
Sent == [flags |-> {}, result |-> "none"]
Status(r) == [flags |-> {}, result |-> r]

CBatches == {Meta, Msg, End}
CEvents == {Sent, Status("OK"), Status("error")}
CEnds == {"none", "close"}
ClientCall == CallType(CBatches, CEvents, CEnds)

\* The types of the session's variables; no event is queued twice, and no batch has
\* been refused.
ClientTypes ==
  /\ alive \in BOOLEAN /\ batch_in_flight \in BOOLEAN /\ finished \in BOOLEAN
  /\ end_sent \in BOOLEAN /\ broken \in BOOLEAN /\ overtaken \in BOOLEAN
  /\ pushed \in Nat
  /\ caller \in {"constructing", "streaming", "done"}
  /\ rep \in {"none", "value", "error"}
  /\ call \in ClientCall
  /\ Distinct(call.cq) /\ ~call.error

\* Nothing is outstanding and nothing waits for the worker.
Idle == call.out = {} /\ Range(call.cq) = {}

\* The session has one batch at a time, with or without batch_in_flight_: the
\* constructor sets it late and send_end not at all.
OneBatch ==
  /\ \A b, d \in call.out : b = d
  /\ \A e, f \in Range(call.cq) : e = f
  /\ call.out = {} \/ Range(call.cq) = {}
  /\ caller = "streaming" /\ ~batch_in_flight => Idle
  /\ pending_ops # <<>> => batch_in_flight
  /\ caller = "constructing" => ~batch_in_flight /\ pushed = 0
  /\ IF end_sent
       THEN call.out \subseteq {End} /\ Range(call.cq) \subseteq {Status("OK"), Status("error")}
       ELSE call.out \subseteq {Meta, Msg} /\ Range(call.cq) \subseteq {Sent}

\* The requests are closed once, after the last of them, and the session is deleted
\* when the completion of that batch has been handled.
Endings ==
  /\ call.end # "none" <=> end_sent
  /\ call.final_requested <=> end_sent
  /\ finished <=> caller = "done"
  /\ end_sent => finished /\ ~batch_in_flight
  /\ ~alive => end_sent /\ Idle

\* What is pending follows what has been sent.
Order ==
  /\ Pending(pending_ops, pushed)
  /\ call.wire = Messages(pushed - Len(pending_ops))

\* A status OK is the one the handler has sent with its reply.
Replied == Status("OK") \in Range(call.cq) \/ rep = "value" => reply = "value"

----------------------------------------------------------------------------
\* The handler.

\* The batches a handler starts, and their events.
First == [flags |-> {}, ops |-> Handler!FirstOps]
Recv == [flags |-> {}, ops |-> {"recv_message"}]
Value == [flags |-> Handler!Closing, ops |-> {"send_message", "send_status", "recv_close"}]
Error == [flags |-> Handler!Closing, ops |-> {"send_status", "recv_close"}]
Got(r) == [flags |-> {}, result |-> r]
Closed == [flags |-> Handler!Closing, result |-> "none"]

HBatches == {First, Recv, Value, Error}
HEvents == {Got("message"), Got("null"), Closed}
HEnds == {"none", "OK", "error"}
HandlerCall == CallType(HBatches, HEvents, HEnds)

\* The types of the handler's variables; no event is queued twice, and no batch has
\* been refused.
HandlerTypes ==
  /\ handler_alive \in BOOLEAN
  /\ reader \in {"null", "open", "complete", "failed"}
  /\ read \in Nat /\ reply \in {"none", "value", "error"}
  /\ handler_call \in HandlerCall
  /\ Distinct(handler_call.cq) /\ ~handler_call.error

\* A receive, or its completion, is on its way; likewise the batch with the reply.
Receiving == \/ First \in handler_call.out \/ Recv \in handler_call.out
             \/ Got("message") \in Range(handler_call.cq) \/ Got("null") \in Range(handler_call.cq)
Replying == \/ Value \in handler_call.out \/ Error \in handler_call.out
            \/ Closed \in Range(handler_call.cq)

\* One request is asked for at a time, and none after the end of the requests.
OneReceive ==
  /\ First \in handler_call.out => Recv \notin handler_call.out
  /\ Got("message") \in Range(handler_call.cq) => Got("null") \notin Range(handler_call.cq)
  /\ Got("message") \in Range(handler_call.cq) \/ Got("null") \in Range(handler_call.cq)
       => First \notin handler_call.out /\ Recv \notin handler_call.out
  /\ reader \in {"null", "complete"} => ~Receiving

\* The method's future is resolved once, and the handler deleted when the batch with
\* the reply is done.
OneReply ==
  /\ Value \in handler_call.out => Error \notin handler_call.out
  /\ Closed \in Range(handler_call.cq) => Value \notin handler_call.out /\ Error \notin handler_call.out
  /\ handler_call.end # "none" <=> Replying \/ ~handler_alive
  /\ ~handler_alive => ~Replying
  /\ handler_call.final_requested <=> handler_call.end # "none"
  /\ handler_call.end = "none" <=> reply = "none"
  /\ handler_call.end = "OK" <=> reply = "value"
  /\ reader = "null" => reply = "none"

\* What the handler has heard of the session: requests in the order of the wire and,
\* unless the call broke or the method replied first, the end after the last of them.
Heard ==
  /\ read + (IF Got("message") \in Range(handler_call.cq) THEN 1 ELSE 0) <= Len(call.wire)
  /\ (Got("null") \in Range(handler_call.cq) \/ reader = "complete") /\ reply = "none" /\ ~broken
       => call.end # "none" /\ read = Len(call.wire)

IInv == /\ ClientTypes /\ OneBatch /\ Endings /\ Order /\ Replied
        /\ HandlerTypes /\ OneReceive /\ OneReply /\ Heard
----------------------------------------------------------------------------
\* The batches and events of the session.
LEMMA ClientBatches ==
  /\ Meta \in CBatches /\ Msg \in CBatches /\ End \in CBatches
  /\ Meta # End /\ Msg # End /\ Msg # Meta
  /\ Meta.flags = {} /\ Meta.ops = MetadataOps
  /\ Msg.flags = {} /\ Msg.ops = {"send_message"}
  /\ End.flags = {} /\ End.ops = EndOps
  /\ \A b \in CBatches : /\ b = [flags |-> b.flags, ops |-> b.ops] /\ b.flags = {}
                         /\ b = Meta \/ b = Msg \/ b = End
  /\ \A e \in CEvents : e = Sent \/ e = Status("OK") \/ e = Status("error")
  /\ Sent \in CEvents /\ Status("OK") \in CEvents /\ Status("error") \in CEvents
  /\ Sent # Status("OK") /\ Sent # Status("error") /\ Status("OK") # Status("error")
  /\ Sent.result = "none" /\ Status("OK").result = "OK" /\ Status("error").result = "error"
<1>1. /\ Meta.flags = {} /\ Meta.ops = MetadataOps
      /\ Msg.flags = {} /\ Msg.ops = {"send_message"}
      /\ End.flags = {} /\ End.ops = EndOps
      /\ Sent.result = "none" /\ Status("OK").result = "OK" /\ Status("error").result = "error"
  BY DEF Meta, Msg, End, Sent, Status
<1>2. "send_close" \in End.ops /\ "send_close" \notin Meta.ops /\ "send_close" \notin Msg.ops
      /\ "send_message" \in Msg.ops /\ "send_message" \notin Meta.ops
  BY <1>1 DEF MetadataOps, EndOps
<1>3. \A b \in CBatches : /\ b = [flags |-> b.flags, ops |-> b.ops] /\ b.flags = {}
                          /\ b = Meta \/ b = Msg \/ b = End
  BY DEF CBatches, Meta, Msg, End
<1>4. Meta \in CBatches /\ Msg \in CBatches /\ End \in CBatches
  BY DEF CBatches
<1>5. /\ \A e \in CEvents : e = Sent \/ e = Status("OK") \/ e = Status("error")
      /\ Sent \in CEvents /\ Status("OK") \in CEvents /\ Status("error") \in CEvents
  BY DEF CEvents
<1>6. Meta # End /\ Msg # End /\ Msg # Meta
  BY <1>2
<1>7. Sent # Status("OK") /\ Sent # Status("error") /\ Status("OK") # Status("error")
  BY <1>1
<1> QED
  BY <1>1, <1>3, <1>4, <1>5, <1>6, <1>7

\* The session's part of the invariant.
CInv == ClientTypes /\ OneBatch /\ Endings /\ Order /\ Replied

\* What the handler may rely on: the wire grows, and not after its end; and a call that
\* broke stays broken.
WireGrows ==
  /\ Len(call.wire) <= Len(call'.wire)
  /\ call.end # "none" => call'.end # "none" /\ call'.wire = call.wire
  /\ broken => broken'

\* The session's call and what is pending for it.
LEMMA CallFacts ==
  ASSUME CInv
  PROVE  /\ call \in ClientCall /\ call \in CallType(CBatches, CEvents, CEnds)
         /\ Distinct(call.cq) /\ ~call.error
         /\ call.out \subseteq CBatches /\ call.wire \in Seq(Nat) /\ Len(call.wire) \in Nat
         /\ call.cq \in Seq(CEvents) /\ Range(call.cq) \subseteq CEvents
         /\ pushed \in Nat /\ Pending(pending_ops, pushed)
         /\ pending_ops \in Seq(Nat) /\ Len(pending_ops) \in Nat /\ pushed - Len(pending_ops) \in Nat
<1>1. pushed \in Nat /\ Pending(pending_ops, pushed)
  BY DEF CInv, ClientTypes, Order
<1>2. pending_ops \in Seq(Nat) /\ Len(pending_ops) \in Nat /\ pushed - Len(pending_ops) \in Nat
  BY <1>1, PendingLen
<1>3. call \in ClientCall /\ Distinct(call.cq) /\ ~call.error
  BY DEF CInv, ClientTypes
<1>4. call.out \subseteq CBatches /\ call.wire \in Seq(Nat) /\ call.cq \in Seq(CEvents)
  BY <1>3 DEF ClientCall, CallType
<1>5. Len(call.wire) \in Nat /\ Range(call.cq) \subseteq CEvents
  BY <1>4, LenProperties, RangeOfSeq
<1> QED
  BY <1>1, <1>2, <1>3, <1>4, <1>5 DEF ClientCall

\* flush_ sends the oldest of the requests that wait, when nothing is outstanding.
LEMMA FlushFields ==
  ASSUME NEW c \in ClientCall, c.out = {}, c.end = "none",
         NEW n \in Nat, NEW ops, Pending(ops, n), ops # <<>>, flush(c, ops)
  PROVE  /\ batch_in_flight' = TRUE /\ Pending(pending_ops', n) /\ call' \in ClientCall
         /\ call'.out = {Msg} /\ call'.cq = c.cq /\ call'.end = c.end
         /\ c.wire = Messages(n - Len(ops))
              => call'.wire = Messages(n - Len(pending_ops')) /\ Len(call'.wire) = Len(c.wire) + 1
         /\ call'.final_requested = c.final_requested /\ call'.error = c.error
<1>1. Legal(c, Msg.ops) /\ Msg.ops \cap FinalRecvs = {}
  BY ClientBatches DEF Legal, FinalSends, FinalRecvs
<1>2. PICK t : t = Tail(ops)
  OBVIOUS
<1>3. /\ Pending(t, n) /\ Head(ops) \in Nat
      /\ Messages(n - Len(ops)) \o <<Head(ops)>> = Messages(n - Len(t))
      /\ Len(Messages(n - Len(t))) = Len(Messages(n - Len(ops))) + 1
  BY <1>2, PendingSend
<1>4. PICK s : s = <<Head(ops)>>
  OBVIOUS
<1>5. s \in Seq(Nat)
  BY <1>3, <1>4
<1>6. /\ call' = StartBatch(c, Msg.flags, Msg.ops, s)
      /\ batch_in_flight' = TRUE /\ pending_ops' = t
  BY <1>2, <1>4, ClientBatches DEF flush, front
<1>7. Msg \in CBatches /\ Msg = [flags |-> Msg.flags, ops |-> Msg.ops]
  BY ClientBatches
<1>8. PICK d : d = StartBatch(c, Msg.flags, Msg.ops, s)
  OBVIOUS
<1>9. /\ d \in ClientCall
      /\ d.out = c.out \cup {Msg}
      /\ d.cq = c.cq /\ d.end = c.end
      /\ d.wire = IF c.end = "none" THEN c.wire \o s ELSE c.wire
      /\ d.final_requested = c.final_requested /\ d.error = c.error
  <2>1. PICK x : x = c
    OBVIOUS
  <2>2. /\ x \in CallType(CBatches, CEvents, CEnds) /\ Legal(x, Msg.ops)
        /\ d = StartBatch(x, Msg.flags, Msg.ops, s)
    BY <1>1, <1>8, <2>1 DEF ClientCall
  <2>3. Msg.ops \cap FinalRecvs = {}
    BY <1>1
  <2>4. /\ d \in CallType(CBatches, CEvents, CEnds)
        /\ d.out = x.out \cup {Msg}
        /\ d.cq = x.cq /\ d.end = x.end
        /\ d.wire = IF x.end = "none" THEN x.wire \o s ELSE x.wire
        /\ d.final_requested = x.final_requested /\ d.error = x.error
    BY <1>5, <1>7, <2>2, <2>3, StartFields
  <2> QED
    BY <2>1, <2>4 DEF ClientCall
<1>10. call' = d /\ Pending(pending_ops', n)
  BY <1>3, <1>6, <1>8
<1>11. c.wire = Messages(n - Len(ops))
         => call'.wire = Messages(n - Len(pending_ops')) /\ Len(call'.wire) = Len(c.wire) + 1
  BY <1>3, <1>4, <1>6, <1>9, <1>10
<1> QED
  BY <1>6, <1>9, <1>10, <1>11

\* send_end, when nothing is outstanding.
LEMMA EndSent ==
  ASSUME NEW c \in ClientCall, c.out = {}, c.end = "none", ~c.final_requested, send_end(c)
  PROVE  /\ end_sent' = TRUE /\ call' \in ClientCall
         /\ call'.out = {End} /\ call'.cq = c.cq /\ call'.end = "close" /\ call'.wire = c.wire
         /\ call'.final_requested /\ call'.error = c.error
<1>1. Legal(c, End.ops) /\ End.ops \cap FinalRecvs # {}
  BY ClientBatches DEF Legal, FinalRecvs, EndOps
<1>2. PICK d : d = EndBatch(c, End.flags, End.ops, "close")
  OBVIOUS
<1>3. /\ End \in CBatches /\ End = [flags |-> End.flags, ops |-> End.ops] /\ "close" \in CEnds
      /\ call' = d /\ end_sent' = TRUE
  BY <1>2, ClientBatches DEF CEnds, send_end
<1>4. /\ d \in ClientCall
      /\ d.out = c.out \cup {End} /\ d.cq = c.cq /\ d.end = "close" /\ d.wire = c.wire
      /\ d.final_requested /\ d.error = c.error
  BY <1>1, <1>2, <1>3, EndFields DEF ClientCall
<1> QED
  BY <1>3, <1>4

\* The constructor sets batch_in_flight_, whatever exec has done before.
LEMMA ConstructorEnds_step ==
  ASSUME CInv, ConstructorEnds, UNCHANGED handler
  PROVE  CInv' /\ WireGrows
<1>1. /\ caller = "constructing" /\ batch_in_flight' = TRUE /\ caller' = "streaming"
      /\ UNCHANGED <<alive, finished, end_sent, pending_ops, call, pushed, broken, rep, overtaken>>
  BY DEF ConstructorEnds, reply_vars
<1>2. ClientTypes'
  BY <1>1 DEF CInv, ClientTypes, requests, reply_vars
<1>3. OneBatch'
  BY <1>1, ClientBatches DEF CInv, ClientTypes, OneBatch, Idle, Endings, requests, reply_vars
<1>4. Endings'
  BY <1>1, ClientBatches DEF CInv, ClientTypes, OneBatch, Idle, Endings, CEnds, requests, reply_vars
<1>5. Order'
  BY <1>1 DEF CInv, Order, requests, reply_vars
<1>6. Replied'
  BY <1>1, ClientBatches DEF CInv, OneBatch, Endings, Replied, handler, requests, reply_vars
<1>7. WireGrows
  BY <1>1, CallFacts DEF CInv, WireGrows, reply_vars, Endings, Idle
<1> QED
  BY <1>2, <1>3, <1>4, <1>5, <1>6, <1>7 DEF CInv

\* A request is sent when nothing is in flight, and appended to pending_ops_ otherwise.
LEMMA push_step ==
  ASSUME CInv, push, UNCHANGED handler
  PROVE  CInv' /\ WireGrows
<1>1. PICK ops : ops = Append(pending_ops, pushed + 1)
  OBVIOUS
<1>2. /\ pushed \in Nat /\ pushed + 1 \in Nat
      /\ Pending(ops, pushed + 1) /\ ops # <<>> /\ (pushed + 1) - Len(ops) = pushed - Len(pending_ops)
  <2>1. pushed \in Nat /\ Pending(pending_ops, pushed)
    BY CallFacts
  <2>2. Pending(ops, pushed + 1) /\ ops # <<>> /\ (pushed + 1) - Len(ops) = pushed - Len(pending_ops)
    BY <1>1, <2>1, PendingPush
  <2> QED
    BY <2>1, <2>2
<1>3. CASE batch_in_flight
  <2>1. /\ pending_ops' = ops /\ pushed' = pushed + 1 /\ caller = "streaming"
        /\ UNCHANGED <<batch_in_flight, call, alive, finished, end_sent, caller, broken, rep, overtaken>>
    BY <1>1, <1>3 DEF push, MustWait, reply_vars
  <2>2. ClientTypes'
    BY <1>2, <1>3, <2>1 DEF CInv, ClientTypes, requests, reply_vars
  <2>3. OneBatch'
    BY <1>2, <1>3, <2>1, ClientBatches DEF CInv, ClientTypes, OneBatch, Idle, Endings, requests, reply_vars
  <2>4. Endings'
    BY <1>2, <1>3, <2>1, ClientBatches DEF CInv, ClientTypes, OneBatch, Idle, Endings, CEnds, requests, reply_vars
  <2>5. Order'
    BY <1>2, <1>3, <2>1 DEF CInv, Order, requests, reply_vars
  <2>6. Replied'
    BY <1>2, <1>3, <2>1, ClientBatches DEF CInv, OneBatch, Endings, Replied, handler, requests, reply_vars
  <2>7. WireGrows
    BY <1>2, <1>3, <2>1, CallFacts DEF CInv, WireGrows, reply_vars, Endings, Idle
  <2> QED
    BY <2>2, <2>3, <2>4, <2>5, <2>6, <2>7 DEF CInv
<1>4. CASE ~batch_in_flight
  <2>1. /\ flush(call, ops) /\ pushed' = pushed + 1 /\ caller = "streaming"
        /\ UNCHANGED <<alive, finished, end_sent, caller, broken, rep, overtaken>>
    BY <1>1, <1>4 DEF push, MustWait, reply_vars
  <2>2. /\ call.out = {} /\ Range(call.cq) = {} /\ call.end = "none" /\ ~end_sent
        /\ call.wire = Messages((pushed + 1) - Len(ops))
    BY <1>2, <1>4, <2>1 DEF CInv, OneBatch, Idle, Endings, Order
  <2>3. PICK n \in Nat : n = pushed + 1
    BY <1>2
  <2>4. /\ batch_in_flight' = TRUE /\ Pending(pending_ops', n) /\ call' \in ClientCall
        /\ call'.out = {Msg} /\ call'.cq = call.cq /\ call'.end = call.end
        /\ call.wire = Messages(n - Len(ops))
             => call'.wire = Messages(n - Len(pending_ops')) /\ Len(call'.wire) = Len(call.wire) + 1
        /\ call'.final_requested = call.final_requested /\ call'.error = call.error
    <3>1. Pending(ops, n) /\ call \in ClientCall
      BY <1>2, <2>3, CallFacts
    <3> QED
      BY <1>2, <2>1, <2>2, <3>1, FlushFields
  <2>5. ClientTypes'
    BY <1>2, <1>4, <2>1, <2>2, <2>3, <2>4 DEF CInv, ClientTypes, requests, reply_vars
  <2>6. OneBatch'
    BY <1>2, <1>4, <2>1, <2>2, <2>3, <2>4, ClientBatches DEF CInv, ClientTypes, OneBatch, Idle, Endings, requests, reply_vars
  <2>7. Endings'
    BY <1>2, <1>4, <2>1, <2>2, <2>3, <2>4, ClientBatches DEF CInv, ClientTypes, OneBatch, Idle, Endings, CEnds, requests, reply_vars
  <2>8. Order'
    BY <1>2, <1>4, <2>1, <2>2, <2>3, <2>4 DEF CInv, Order, requests, reply_vars
  <2>9. Replied'
    BY <1>2, <1>4, <2>1, <2>2, <2>3, <2>4, ClientBatches DEF CInv, OneBatch, Endings, Replied, handler, requests, reply_vars
  <2>10. WireGrows
    BY <1>2, <1>4, <2>1, <2>2, <2>3, <2>4, CallFacts DEF CInv, WireGrows, reply_vars, Endings, Idle
  <2> QED
    BY <2>5, <2>6, <2>7, <2>8, <2>9, <2>10 DEF CInv
<1> QED
  BY <1>3, <1>4

\* The end of the requests closes the call at once when nothing is in flight.
LEMMA finish_step ==
  ASSUME CInv, finish, UNCHANGED handler
  PROVE  CInv' /\ WireGrows
<1>1. CASE batch_in_flight
  <2>1. /\ caller = "streaming" /\ finished' = TRUE /\ caller' = "done"
        /\ UNCHANGED <<call, end_sent, alive, batch_in_flight, pending_ops, pushed, broken, rep, overtaken>>
    BY <1>1 DEF finish, MustWait, reply_vars
  <2>2. ClientTypes'
    BY <1>1, <2>1 DEF CInv, ClientTypes, requests, reply_vars
  <2>3. OneBatch'
    BY <1>1, <2>1, ClientBatches DEF CInv, ClientTypes, OneBatch, Idle, Endings, requests, reply_vars
  <2>4. Endings'
    BY <1>1, <2>1, ClientBatches DEF CInv, ClientTypes, OneBatch, Idle, Endings, CEnds, requests, reply_vars
  <2>5. Order'
    BY <1>1, <2>1 DEF CInv, Order, requests, reply_vars
  <2>6. Replied'
    BY <1>1, <2>1, ClientBatches DEF CInv, OneBatch, Endings, Replied, handler, requests, reply_vars
  <2>7. WireGrows
    BY <1>1, <2>1, CallFacts DEF CInv, WireGrows, reply_vars, Endings, Idle
  <2> QED
    BY <2>2, <2>3, <2>4, <2>5, <2>6, <2>7 DEF CInv
<1>2. CASE ~batch_in_flight
  <2>1. /\ caller = "streaming" /\ finished' = TRUE /\ caller' = "done" /\ send_end(call)
        /\ UNCHANGED <<alive, batch_in_flight, pending_ops, pushed, broken, rep, overtaken>>
    BY <1>2 DEF finish, MustWait, reply_vars
  <2>2. /\ call.out = {} /\ Range(call.cq) = {} /\ call.end = "none" /\ ~call.final_requested
        /\ ~end_sent /\ call \in ClientCall
    BY <1>2, <2>1, CallFacts DEF CInv, OneBatch, Idle, Endings
  <2>3. /\ end_sent' = TRUE /\ call' \in ClientCall
        /\ call'.out = {End} /\ call'.cq = call.cq /\ call'.end = "close" /\ call'.wire = call.wire
        /\ call'.final_requested /\ call'.error = call.error
    BY <2>1, <2>2, EndSent
  <2>4. ClientTypes'
    BY <1>2, <2>1, <2>2, <2>3 DEF CInv, ClientTypes, requests, reply_vars
  <2>5. OneBatch'
    BY <1>2, <2>1, <2>2, <2>3, ClientBatches DEF CInv, ClientTypes, OneBatch, Idle, Endings, requests, reply_vars
  <2>6. Endings'
    BY <1>2, <2>1, <2>2, <2>3, ClientBatches DEF CInv, ClientTypes, OneBatch, Idle, Endings, CEnds, requests, reply_vars
  <2>7. Order'
    BY <1>2, <2>1, <2>2, <2>3 DEF CInv, Order, requests, reply_vars
  <2>8. Replied'
    BY <1>2, <2>1, <2>2, <2>3, ClientBatches DEF CInv, OneBatch, Endings, Replied, handler, requests, reply_vars
  <2>9. WireGrows
    BY <1>2, <2>1, <2>2, <2>3, CallFacts DEF CInv, WireGrows, reply_vars, Endings, Idle
  <2> QED
    BY <2>4, <2>5, <2>6, <2>7, <2>8, <2>9 DEF CInv
<1> QED
  BY <1>1, <1>2

\* A call that breaks.
LEMMA Break_step ==
  ASSUME CInv, Break, UNCHANGED handler
  PROVE  CInv' /\ WireGrows
<1>1. /\ alive /\ broken' = TRUE
      /\ UNCHANGED <<alive, batch_in_flight, finished, end_sent, pending_ops, call, caller, pushed, rep, overtaken>>
  BY DEF Break, requests
<1>2. ClientTypes'
  BY <1>1 DEF CInv, ClientTypes, requests, reply_vars
<1>3. OneBatch'
  BY <1>1, ClientBatches DEF CInv, ClientTypes, OneBatch, Idle, Endings, requests, reply_vars
<1>4. Endings'
  BY <1>1, ClientBatches DEF CInv, ClientTypes, OneBatch, Idle, Endings, CEnds, requests, reply_vars
<1>5. Order'
  BY <1>1 DEF CInv, Order, requests, reply_vars
<1>6. Replied'
  BY <1>1, ClientBatches DEF CInv, OneBatch, Endings, Replied, handler, requests, reply_vars
<1>7. WireGrows
  BY <1>1, CallFacts DEF CInv, WireGrows, reply_vars, Endings, Idle
<1> QED
  BY <1>2, <1>3, <1>4, <1>5, <1>6, <1>7 DEF CInv

\* The batch in flight completes; the status is the one the handler has sent.
LEMMA BatchDone_step ==
  ASSUME CInv, OneReply, HandlerTypes, BatchDone(handler_call), UNCHANGED handler
  PROVE  CInv' /\ WireGrows
<1>1. UNCHANGED <<alive, batch_in_flight, finished, end_sent, pending_ops, caller, pushed, broken, rep, overtaken>>
  BY DEF BatchDone, requests, reply_vars
<1>2. PICK b \in call.out : \E r \in Results(b, handler_call, 0, broken) : call' = Complete(call, b, r)
  BY DEF BatchDone, Completed
<1>3. PICK r \in Results(b, handler_call, 0, broken) : call' = Complete(call, b, r)
  BY <1>2
<1>4. /\ call.out = {b} /\ Range(call.cq) = {} /\ b.flags = {} /\ alive
      /\ IF end_sent THEN b = End ELSE b = Meta \/ b = Msg
  BY <1>2, CallFacts, ClientBatches DEF CInv, OneBatch, Endings, Idle
<1>5. IF end_sent THEN r = "error" \/ (r = "OK" /\ reply = "value") ELSE r = "none"
  <2>1. CASE end_sent
    <3>1. "recv_status" \in b.ops
      BY <2>1, <1>4, ClientBatches DEF EndOps
    <3>2. handler_call.end \in {"none", "OK", "error"}
      BY DEF HandlerTypes, HandlerCall, CallType, HEnds
    <3> QED
      BY <2>1, <1>3, <3>1, <3>2 DEF Results, OneReply
  <2>2. CASE ~end_sent
    <3>1. "recv_status" \notin b.ops /\ "recv_message" \notin b.ops
      BY <2>2, <1>4, ClientBatches DEF MetadataOps
    <3> QED
      BY <2>2, <1>3, <3>1 DEF Results
  <2> QED
    BY <2>1, <2>2
<1>6. PICK e : e = [flags |-> b.flags, result |-> r]
  OBVIOUS
<1>7. /\ r = "none" => e = Sent
      /\ r = "OK" => e = Status("OK")
      /\ r = "error" => e = Status("error")
  BY <1>4, <1>6 DEF Sent, Status
<1>8. e \in CEvents /\ e \notin Range(call.cq)
  BY <1>4, <1>5, <1>7, ClientBatches
<1>9. PICK d : d = Complete(call, b, r)
  OBVIOUS
<1>10. /\ d \in ClientCall
       /\ d.out = {} /\ Range(d.cq) = {e} /\ Distinct(d.cq)
       /\ d.wire = call.wire /\ d.end = call.end
       /\ d.final_requested = call.final_requested /\ d.error = call.error
  <2>1. call \in CallType(CBatches, CEvents, CEnds) /\ Distinct(call.cq)
    BY CallFacts
  <2>2. /\ d \in CallType(CBatches, CEvents, CEnds)
        /\ d.out = call.out \ {b} /\ Range(d.cq) = Range(call.cq) \cup {e} /\ Distinct(d.cq)
        /\ d.wire = call.wire /\ d.end = call.end
        /\ d.final_requested = call.final_requested /\ d.error = call.error
    BY <1>6, <1>8, <1>9, <2>1, CompleteFields
  <2> QED
    BY <1>4, <2>2 DEF ClientCall
<1>11. call' = d
  BY <1>3, <1>9
<1>12. ClientTypes'
  BY <1>1, <1>4, <1>5, <1>7, <1>10, <1>11 DEF CInv, ClientTypes, requests, reply_vars
<1>13. OneBatch'
  BY <1>1, <1>4, <1>5, <1>7, <1>10, <1>11, ClientBatches DEF CInv, ClientTypes, OneBatch, Idle, Endings, requests, reply_vars
<1>14. Endings'
  BY <1>1, <1>4, <1>5, <1>7, <1>10, <1>11, ClientBatches DEF CInv, ClientTypes, OneBatch, Idle, Endings, CEnds, requests, reply_vars
<1>15. Order'
  BY <1>1, <1>4, <1>5, <1>7, <1>10, <1>11 DEF CInv, Order, requests, reply_vars
<1>16. Replied'
  BY <1>1, <1>4, <1>5, <1>7, <1>10, <1>11, ClientBatches DEF CInv, OneBatch, Endings, Replied, handler, requests, reply_vars
<1>17. WireGrows
  BY <1>1, <1>4, <1>5, <1>7, <1>10, <1>11, CallFacts DEF CInv, WireGrows, reply_vars, Endings, Idle
<1> QED
  BY <1>12, <1>13, <1>14, <1>15, <1>16, <1>17 DEF CInv

\* The worker sends on, resolves the reply, or closes the call.
LEMMA exec_step ==
  ASSUME CInv, exec, UNCHANGED handler
  PROVE  CInv' /\ WireGrows
<1>1. PICK d : d = TakeEvent(call)
  OBVIOUS
<1>2. alive /\ call.cq # <<>> /\ call \in CallType(CBatches, CEvents, CEnds) /\ Distinct(call.cq)
  BY CallFacts DEF exec, Event
<1>3. /\ d \in ClientCall
      /\ Head(call.cq) \in CEvents /\ Head(call.cq) \in Range(call.cq)
      /\ d.out = call.out
      /\ Range(d.cq) = Range(call.cq) \ {Head(call.cq)} /\ Distinct(d.cq)
      /\ d.wire = call.wire /\ d.end = call.end
      /\ d.final_requested = call.final_requested /\ d.error = call.error
  BY <1>1, <1>2, TakeFields DEF ClientCall
<1>4. /\ Range(d.cq) = {} /\ d.out = {} /\ call.out = {} /\ Range(call.cq) = {Head(call.cq)}
      /\ IF end_sent THEN Head(call.cq) = Status("OK") \/ Head(call.cq) = Status("error")
                     ELSE Head(call.cq) = Sent
  BY <1>3 DEF CInv, OneBatch
<1>5. /\ UNCHANGED <<finished, caller, pushed, broken>> /\ overtaken' \in BOOLEAN
  BY DEF exec, requests, CInv, ClientTypes
<1>6. CASE pending_ops # <<>>
  <2>1. flush(d, pending_ops) /\ UNCHANGED <<alive, rep, end_sent>>
    BY <1>1, <1>6 DEF exec
  <2>2. batch_in_flight /\ ~end_sent /\ d.end = "none" /\ d.wire = Messages(pushed - Len(pending_ops))
    BY <1>3, <1>6 DEF CInv, OneBatch, Endings, Order
  <2>3. /\ batch_in_flight' = TRUE /\ Pending(pending_ops', pushed) /\ call' \in ClientCall
        /\ call'.out = {Msg} /\ call'.cq = d.cq /\ call'.end = d.end
        /\ d.wire = Messages(pushed - Len(pending_ops))
             => call'.wire = Messages(pushed - Len(pending_ops')) /\ Len(call'.wire) = Len(d.wire) + 1
        /\ call'.final_requested = d.final_requested /\ call'.error = d.error
    <3>1. pushed \in Nat /\ Pending(pending_ops, pushed)
      BY CallFacts
    <3> QED
      BY <1>3, <1>4, <1>6, <2>1, <2>2, <3>1, FlushFields
  <2>4. ClientTypes'
    BY <1>2, <1>3, <1>4, <1>5, <1>6, <2>1, <2>2, <2>3 DEF CInv, ClientTypes, requests, reply_vars
  <2>5. OneBatch'
    BY <1>2, <1>3, <1>4, <1>5, <1>6, <2>1, <2>2, <2>3, ClientBatches DEF CInv, ClientTypes, OneBatch, Idle, Endings, requests, reply_vars
  <2>6. Endings'
    BY <1>2, <1>3, <1>4, <1>5, <1>6, <2>1, <2>2, <2>3, ClientBatches DEF CInv, ClientTypes, OneBatch, Idle, Endings, CEnds, requests, reply_vars
  <2>7. Order'
    BY <1>2, <1>3, <1>4, <1>5, <1>6, <2>1, <2>2, <2>3 DEF CInv, Order, requests, reply_vars
  <2>8. Replied'
    BY <1>2, <1>3, <1>4, <1>5, <1>6, <2>1, <2>2, <2>3, ClientBatches DEF CInv, OneBatch, Endings, Replied, handler, requests, reply_vars
  <2>9. WireGrows
    BY <1>2, <1>3, <1>4, <1>5, <1>6, <2>1, <2>2, <2>3, CallFacts DEF CInv, WireGrows, reply_vars, Endings, Idle
  <2> QED
    BY <2>4, <2>5, <2>6, <2>7, <2>8, <2>9 DEF CInv
<1>7. CASE pending_ops = <<>> /\ EndHandled
  <2>1. /\ rep' = IF Head(call.cq).result = "OK" THEN "value" ELSE "error"
        /\ alive' = FALSE /\ batch_in_flight' = FALSE /\ call' = d
        /\ UNCHANGED <<pending_ops, end_sent>> /\ finished /\ end_sent
    BY <1>1, <1>7 DEF exec, EndHandled
  <2>2. rep' = "value" => Head(call.cq) = Status("OK")
    BY <1>4, <2>1, ClientBatches
  <2>3. rep' \in {"none", "value", "error"}
    BY <2>1
  <2>4. ClientTypes'
    BY <1>2, <1>3, <1>4, <1>5, <1>7, <2>1, <2>2, <2>3 DEF CInv, ClientTypes, requests, reply_vars
  <2>5. OneBatch'
    BY <1>2, <1>3, <1>4, <1>5, <1>7, <2>1, <2>2, <2>3, ClientBatches DEF CInv, ClientTypes, OneBatch, Idle, Endings, requests, reply_vars
  <2>6. Endings'
    BY <1>2, <1>3, <1>4, <1>5, <1>7, <2>1, <2>2, <2>3, ClientBatches DEF CInv, ClientTypes, OneBatch, Idle, Endings, CEnds, requests, reply_vars
  <2>7. Order'
    BY <1>2, <1>3, <1>4, <1>5, <1>7, <2>1, <2>2, <2>3 DEF CInv, Order, requests, reply_vars
  <2>8. Replied'
    BY <1>2, <1>3, <1>4, <1>5, <1>7, <2>1, <2>2, <2>3, ClientBatches DEF CInv, OneBatch, Endings, Replied, handler, requests, reply_vars
  <2>9. WireGrows
    BY <1>2, <1>3, <1>4, <1>5, <1>7, <2>1, <2>2, <2>3, CallFacts DEF CInv, WireGrows, reply_vars, Endings, Idle
  <2> QED
    BY <2>4, <2>5, <2>6, <2>7, <2>8, <2>9 DEF CInv
<1>8. CASE pending_ops = <<>> /\ ~EndHandled /\ finished
  <2>1. /\ send_end(d) /\ batch_in_flight' = FALSE /\ ~end_sent
        /\ UNCHANGED <<pending_ops, alive, rep>>
    BY <1>1, <1>8 DEF exec, MustClose, EndHandled
  <2>2. d.end = "none" /\ ~d.final_requested
    BY <1>3, <2>1 DEF CInv, Endings
  <2>3. /\ end_sent' = TRUE /\ call' \in ClientCall
        /\ call'.out = {End} /\ call'.cq = d.cq /\ call'.end = "close" /\ call'.wire = d.wire
        /\ call'.final_requested /\ call'.error = d.error
    BY <1>3, <1>4, <2>1, <2>2, EndSent
  <2>4. ClientTypes'
    BY <1>2, <1>3, <1>4, <1>5, <1>8, <2>1, <2>2, <2>3 DEF CInv, ClientTypes, requests, reply_vars
  <2>5. OneBatch'
    BY <1>2, <1>3, <1>4, <1>5, <1>8, <2>1, <2>2, <2>3, ClientBatches DEF CInv, ClientTypes, OneBatch, Idle, Endings, requests, reply_vars
  <2>6. Endings'
    BY <1>2, <1>3, <1>4, <1>5, <1>8, <2>1, <2>2, <2>3, ClientBatches DEF CInv, ClientTypes, OneBatch, Idle, Endings, CEnds, requests, reply_vars
  <2>7. Order'
    BY <1>2, <1>3, <1>4, <1>5, <1>8, <2>1, <2>2, <2>3 DEF CInv, Order, requests, reply_vars
  <2>8. Replied'
    BY <1>2, <1>3, <1>4, <1>5, <1>8, <2>1, <2>2, <2>3, ClientBatches DEF CInv, OneBatch, Endings, Replied, handler, requests, reply_vars
  <2>9. WireGrows
    BY <1>2, <1>3, <1>4, <1>5, <1>8, <2>1, <2>2, <2>3, CallFacts DEF CInv, WireGrows, reply_vars, Endings, Idle
  <2> QED
    BY <2>4, <2>5, <2>6, <2>7, <2>8, <2>9 DEF CInv
<1>9. CASE pending_ops = <<>> /\ ~EndHandled /\ ~finished
  <2>1. /\ call' = d /\ batch_in_flight' = FALSE
        /\ UNCHANGED <<pending_ops, alive, rep, end_sent>>
    BY <1>1, <1>9 DEF exec, MustClose, EndHandled
  <2>2. ClientTypes'
    BY <1>2, <1>3, <1>4, <1>5, <1>9, <2>1 DEF CInv, ClientTypes, requests, reply_vars
  <2>3. OneBatch'
    BY <1>2, <1>3, <1>4, <1>5, <1>9, <2>1, ClientBatches DEF CInv, ClientTypes, OneBatch, Idle, Endings, requests, reply_vars
  <2>4. Endings'
    BY <1>2, <1>3, <1>4, <1>5, <1>9, <2>1, ClientBatches DEF CInv, ClientTypes, OneBatch, Idle, Endings, CEnds, requests, reply_vars
  <2>5. Order'
    BY <1>2, <1>3, <1>4, <1>5, <1>9, <2>1 DEF CInv, Order, requests, reply_vars
  <2>6. Replied'
    BY <1>2, <1>3, <1>4, <1>5, <1>9, <2>1, ClientBatches DEF CInv, OneBatch, Endings, Replied, handler, requests, reply_vars
  <2>7. WireGrows
    BY <1>2, <1>3, <1>4, <1>5, <1>9, <2>1, CallFacts DEF CInv, WireGrows, reply_vars, Endings, Idle
  <2> QED
    BY <2>2, <2>3, <2>4, <2>5, <2>6, <2>7 DEF CInv
<1> QED
  BY <1>6, <1>7, <1>8, <1>9

----------------------------------------------------------------------------
\* The handler uses the same grpc core.
LEMMA HandlerCore ==
  ASSUME NEW c, NEW flags, NEW ops, NEW sends, NEW end
  PROVE  /\ Handler!StartBatch(c, flags, ops, sends) = StartBatch(c, flags, ops, sends)
         /\ Handler!EndBatch(c, flags, ops, end) = EndBatch(c, flags, ops, end)
         /\ Handler!TakeEvent(c) = TakeEvent(c) /\ Handler!Queued(c) = Queued(c)
<1>1. Handler!Legal(c, ops) = Legal(c, ops)
  BY DEF Handler!Legal, Legal, Handler!FinalSends, Handler!FinalRecvs, FinalSends, FinalRecvs
<1>2. \A s : Handler!StartBatch(c, flags, ops, s) = StartBatch(c, flags, ops, s)
  BY <1>1 DEF Handler!StartBatch, StartBatch, Handler!FinalRecvs, FinalRecvs
<1>3. Handler!EndBatch(c, flags, ops, end) = EndBatch(c, flags, ops, end)
  BY <1>1, <1>2 DEF Handler!EndBatch, EndBatch
<1>4. Handler!TakeEvent(c) = TakeEvent(c)
  BY DEF Handler!TakeEvent, TakeEvent
<1>5. Handler!Queued(c) = Queued(c)
  BY Zenon DEF Handler!Queued, Queued, Handler!Cardinality, Cardinality
<1> QED
  BY <1>2, <1>3, <1>4, <1>5

\* The batches and events of the handler are told apart by flags and operations.
LEMMA HandlerBatches ==
  /\ First \in HBatches /\ Recv \in HBatches /\ Value \in HBatches /\ Error \in HBatches
  /\ First # Recv /\ First # Value /\ First # Error /\ Recv # Value /\ Recv # Error /\ Value # Error
  /\ First.flags = {} /\ First.ops = Handler!FirstOps
  /\ Recv.flags = {} /\ Recv.ops = {"recv_message"}
  /\ Value.flags = Handler!Closing /\ Value.ops = {"send_message", "send_status", "recv_close"}
  /\ Error.flags = Handler!Closing /\ Error.ops = {"send_status", "recv_close"}
  /\ \A b \in HBatches : /\ b = [flags |-> b.flags, ops |-> b.ops]
                         /\ b = First \/ b = Recv \/ b = Value \/ b = Error
  /\ \A e \in HEvents : e = Got("message") \/ e = Got("null") \/ e = Closed
  /\ Got("message") \in HEvents /\ Got("null") \in HEvents /\ Closed \in HEvents
  /\ Got("message") # Got("null") /\ Got("message") # Closed /\ Got("null") # Closed
  /\ Got("message").flags = {} /\ Got("null").flags = {} /\ Closed.flags = Handler!Closing
  /\ Got("message").result = "message" /\ Got("null").result = "null" /\ Closed.result = "none"
  /\ Handler!Closing # {}
<1>1. /\ First.flags = {} /\ First.ops = Handler!FirstOps
      /\ Recv.flags = {} /\ Recv.ops = {"recv_message"}
      /\ Value.flags = Handler!Closing /\ Value.ops = {"send_message", "send_status", "recv_close"}
      /\ Error.flags = Handler!Closing /\ Error.ops = {"send_status", "recv_close"}
  BY DEF First, Recv, Value, Error
<1>2. /\ Got("message").flags = {} /\ Got("null").flags = {} /\ Closed.flags = Handler!Closing
      /\ Got("message").result = "message" /\ Got("null").result = "null" /\ Closed.result = "none"
  BY DEF Got, Closed
<1>3. Handler!Closing # {}
  BY DEF Handler!Closing
<1>4. "send_metadata" \in First.ops /\ "send_metadata" \notin Recv.ops /\ "send_message" \in Value.ops /\ "send_message" \notin Error.ops
  BY <1>1 DEF Handler!FirstOps
<1>5. First # Recv /\ First # Value /\ First # Error /\ Recv # Value /\ Recv # Error /\ Value # Error
  BY <1>1, <1>3, <1>4
<1>6. \A b \in HBatches : /\ b = [flags |-> b.flags, ops |-> b.ops]
                          /\ b = First \/ b = Recv \/ b = Value \/ b = Error
  BY DEF HBatches, First, Recv, Value, Error
<1>7. First \in HBatches /\ Recv \in HBatches /\ Value \in HBatches /\ Error \in HBatches
  BY DEF HBatches
<1>8. /\ \A e \in HEvents : e = Got("message") \/ e = Got("null") \/ e = Closed
      /\ Got("message") \in HEvents /\ Got("null") \in HEvents /\ Closed \in HEvents
  BY DEF HEvents
<1>9. Got("message") # Got("null") /\ Got("message") # Closed /\ Got("null") # Closed
  BY <1>2
<1> QED
  BY <1>1, <1>2, <1>3, <1>5, <1>6, <1>7, <1>8, <1>9

\* The handler's part of the invariant, and what the session may rely on.
HInv == HandlerTypes /\ OneReceive /\ OneReply /\ Heard
ReplyStays == reply # "none" => reply' = reply

\* The types of the handler's call.
LEMMA HandlerFacts ==
  ASSUME HInv
  PROVE  /\ handler_call \in CallType(HBatches, HEvents, HEnds) /\ Distinct(handler_call.cq)
         /\ handler_call.out \subseteq HBatches /\ handler_call.cq \in Seq(HEvents)
         /\ Range(handler_call.cq) \subseteq HEvents
<1>1. handler_call \in CallType(HBatches, HEvents, HEnds) /\ Distinct(handler_call.cq)
  BY DEF HInv, HandlerTypes, HandlerCall
<1>2. handler_call.out \subseteq HBatches /\ handler_call.cq \in Seq(HEvents)
  BY <1>1 DEF CallType
<1> QED
  BY <1>1, <1>2, RangeOfSeq

\* The worker takes the first event of the handler's call.
LEMMA HandlerTakes ==
  ASSUME HInv, handler_call.cq # <<>>, NEW d, d = TakeEvent(handler_call)
  PROVE  /\ d \in HandlerCall
         /\ Head(handler_call.cq) \in Range(handler_call.cq)
         /\ \/ Head(handler_call.cq) = Got("message") /\ Head(handler_call.cq).flags = {} /\ Head(handler_call.cq).result = "message"
            \/ Head(handler_call.cq) = Got("null") /\ Head(handler_call.cq).flags = {} /\ Head(handler_call.cq).result = "null"
            \/ Head(handler_call.cq) = Closed /\ Head(handler_call.cq).flags = Handler!Closing
         /\ d.out = handler_call.out
         /\ Range(d.cq) = Range(handler_call.cq) \ {Head(handler_call.cq)} /\ Distinct(d.cq)
         /\ d.wire = handler_call.wire /\ d.end = handler_call.end
         /\ d.final_requested = handler_call.final_requested /\ d.error = handler_call.error
<1>1. handler_call \in CallType(HBatches, HEvents, HEnds) /\ Distinct(handler_call.cq)
  BY HandlerFacts
<1>2. PICK c : c = handler_call
  OBVIOUS
<1>3. /\ d \in CallType(HBatches, HEvents, HEnds)
      /\ Head(c.cq) \in HEvents /\ Head(c.cq) \in Range(c.cq)
      /\ d.out = c.out
      /\ Range(d.cq) = Range(c.cq) \ {Head(c.cq)} /\ Distinct(d.cq)
      /\ d.wire = c.wire /\ d.end = c.end
      /\ d.final_requested = c.final_requested /\ d.error = c.error
  BY <1>1, <1>2, TakeFields
<1>4. \/ Head(c.cq) = Got("message") /\ Head(c.cq).flags = {} /\ Head(c.cq).result = "message"
      \/ Head(c.cq) = Got("null") /\ Head(c.cq).flags = {} /\ Head(c.cq).result = "null"
      \/ Head(c.cq) = Closed /\ Head(c.cq).flags = Handler!Closing
  BY <1>3, HandlerBatches
<1> QED
  BY <1>2, <1>3, <1>4 DEF HandlerCall

\* A receive may be started when none is outstanding, whatever batch has the reply.
LEMMA RecvLegal ==
  ASSUME NEW c, c.out \subseteq HBatches, First \notin c.out, Recv \notin c.out
  PROVE  /\ Legal(c, First.ops) /\ First.ops \cap FinalRecvs = {}
         /\ Legal(c, Recv.ops) /\ Recv.ops \cap FinalRecvs = {}
         /\ First \in HBatches /\ First = [flags |-> First.flags, ops |-> First.ops]
         /\ Recv \in HBatches /\ Recv = [flags |-> Recv.flags, ops |-> Recv.ops]
<1>1. \A x \in c.out : x = Value \/ x = Error
  BY HandlerBatches
<1>2. \A x \in c.out : "recv_message" \notin x.ops
  BY <1>1, HandlerBatches
<1>3. First.ops = {"send_metadata", "recv_message"} /\ Recv.ops = {"recv_message"}
  BY HandlerBatches DEF Handler!FirstOps
<1>4. Legal(c, First.ops) /\ Legal(c, Recv.ops)
  BY <1>2, <1>3 DEF Legal, FinalSends, FinalRecvs
<1>5. First.ops \cap FinalRecvs = {} /\ Recv.ops \cap FinalRecvs = {}
  BY <1>3 DEF FinalRecvs
<1> QED
  BY <1>4, <1>5, HandlerBatches

\* The first receive.
LEMMA handler_perform_step ==
  ASSUME CInv, HInv, Handler!perform, UNCHANGED vars
  PROVE  HInv' /\ ReplyStays
<1>1. UNCHANGED <<call, broken>>
  BY DEF vars, reply_vars
<1>2. /\ reader = "null" /\ reader' = "open"
      /\ UNCHANGED <<handler_alive, read, reply>>
  BY DEF Handler!perform
<1>3. /\ handler_call.out = {} /\ Range(handler_call.cq) = {} /\ handler_alive /\ reply = "none"
      /\ handler_call.end = "none"
  BY <1>2, HandlerFacts, HandlerBatches DEF HInv, HandlerTypes, OneReceive, Receiving, OneReply, Replying
<1>4. PICK s : s = <<>>
  OBVIOUS
<1>5. PICK d : d = StartBatch(handler_call, First.flags, First.ops, s)
  OBVIOUS
<1>6. /\ d \in HandlerCall
      /\ d.out = handler_call.out \cup {First} /\ d.cq = handler_call.cq /\ d.end = handler_call.end
      /\ d.final_requested = handler_call.final_requested /\ d.error = handler_call.error
  <2>1. /\ handler_call \in CallType(HBatches, HEvents, HEnds) /\ handler_call.out \subseteq HBatches
        /\ First \notin handler_call.out /\ Recv \notin handler_call.out
    BY <1>3, HandlerFacts
  <2>2. /\ Legal(handler_call, First.ops) /\ First.ops \cap FinalRecvs = {}
        /\ First \in HBatches /\ First = [flags |-> First.flags, ops |-> First.ops]
    BY <2>1, RecvLegal
  <2>3. handler_call \in CallType(HBatches, HEvents, HEnds) /\ s \in Seq(Nat)
    BY <1>4, <2>1
  <2>4. /\ d \in CallType(HBatches, HEvents, HEnds)
        /\ d.out = handler_call.out \cup {First} /\ d.cq = handler_call.cq /\ d.end = handler_call.end
        /\ d.wire = IF handler_call.end = "none" THEN handler_call.wire \o s ELSE handler_call.wire
        /\ d.final_requested = handler_call.final_requested /\ d.error = handler_call.error
    BY <1>5, <2>2, <2>3, StartFields
  <2> QED
    BY <2>4 DEF HandlerCall
<1>7. handler_call' = d
  BY <1>4, <1>5, HandlerBatches, HandlerCore DEF Handler!perform
<1>8. HandlerTypes'
  BY <1>1, <1>2, <1>3, <1>6, <1>7 DEF HInv, HandlerTypes
<1>9. OneReceive'
  BY <1>1, <1>2, <1>3, <1>6, <1>7, HandlerBatches DEF HInv, HandlerTypes, OneReceive, Receiving
<1>10. OneReply'
  BY <1>1, <1>2, <1>3, <1>6, <1>7, HandlerBatches DEF HInv, HandlerTypes, OneReply, Replying, HEnds
<1>11. Heard' /\ ReplyStays
  BY <1>1, <1>2, <1>3, <1>6, <1>7, HandlerBatches, CallFacts DEF HInv, HandlerTypes, OneReceive, OneReply, Receiving, Replying, Heard, ReplyStays
<1> QED
  BY <1>8, <1>9, <1>10, <1>11 DEF HInv

\* The reply ends the call, whatever is being received.
LEMMA handler_finish_step ==
  ASSUME CInv, HInv, Handler!finish, UNCHANGED vars
  PROVE  HInv' /\ ReplyStays
<1>1. UNCHANGED <<call, broken>>
  BY DEF vars, reply_vars
<1>2. /\ reader # "null" /\ reply = "none" /\ UNCHANGED <<handler_alive, reader, read>>
  BY DEF Handler!finish
<1>3. /\ handler_call.end = "none" /\ ~handler_call.final_requested /\ ~Replying /\ handler_alive
      /\ handler_call \in CallType(HBatches, HEvents, HEnds)
  BY <1>2, HandlerFacts DEF HInv, OneReply
<1>4. PICK b, n, v : /\ handler_call' = EndBatch(handler_call, b.flags, b.ops, n) /\ reply' = v
                     /\ \/ b = Value /\ n = "OK" /\ v = "value"
                        \/ b = Error /\ n = "error" /\ v = "error"
  <2>1. CASE /\ reply' = "value"
             /\ handler_call' = Handler!EndBatch(handler_call, Handler!ReplyFlags, {"send_message", "send_status", "recv_close"}, "OK")
    <3>1. handler_call' = EndBatch(handler_call, Value.flags, Value.ops, "OK") /\ reply' = "value"
      BY <2>1, HandlerCore, HandlerBatches DEF Handler!ReplyFlags
    <3> QED
      BY <3>1
  <2>2. CASE /\ reply' = "error"
             /\ handler_call' = Handler!EndBatch(handler_call, Handler!ReplyFlags, {"send_status", "recv_close"}, "error")
    <3>1. handler_call' = EndBatch(handler_call, Error.flags, Error.ops, "error") /\ reply' = "error"
      BY <2>2, HandlerCore, HandlerBatches DEF Handler!ReplyFlags
    <3> QED
      BY <3>1
  <2> QED
    BY <2>1, <2>2 DEF Handler!finish
<1>5. /\ b \in HBatches /\ b = [flags |-> b.flags, ops |-> b.ops] /\ n \in HEnds
      /\ Legal(handler_call, b.ops) /\ b.ops \cap FinalRecvs # {}
  <2>1. b \in HBatches /\ n \in HEnds
    BY <1>4, HandlerBatches DEF HEnds
  <2>2. b.ops \subseteq {"send_message", "send_status", "recv_close"} /\ "recv_close" \in b.ops
    BY <1>4, HandlerBatches
  <2>3. \A x \in handler_call.out : x = First \/ x = Recv
    BY <1>3, HandlerFacts, HandlerBatches DEF Replying
  <2>4. \A x \in handler_call.out : "send_message" \notin x.ops
    BY <2>3, HandlerBatches DEF Handler!FirstOps
  <2>5. Legal(handler_call, b.ops)
    BY <1>3, <2>2, <2>4 DEF Legal
  <2>6. b.ops \cap FinalRecvs # {}
    BY <2>2 DEF FinalRecvs
  <2> QED
    BY <2>1, <2>5, <2>6, HandlerBatches
<1>6. PICK d : d = EndBatch(handler_call, b.flags, b.ops, n)
  OBVIOUS
<1>7. /\ d \in HandlerCall
      /\ d.out = handler_call.out \cup {b} /\ d.cq = handler_call.cq /\ d.end = n
      /\ d.final_requested /\ d.error = handler_call.error
  <2>1. handler_call \in CallType(HBatches, HEvents, HEnds)
    BY <1>3
  <2> QED
    BY <1>5, <1>6, <2>1, EndFields DEF HandlerCall
<1>8. handler_call' = d
  BY <1>4, <1>6
<1>9. reply' = v /\ (\/ b = Value /\ n = "OK" /\ v = "value"
                     \/ b = Error /\ n = "error" /\ v = "error")
  BY <1>4
<1>10. HandlerTypes'
  BY <1>1, <1>2, <1>3, <1>7, <1>8, <1>9 DEF HInv, HandlerTypes
<1>11. OneReceive'
  BY <1>1, <1>2, <1>3, <1>7, <1>8, <1>9, HandlerBatches DEF HInv, HandlerTypes, OneReceive, Receiving
<1>12. OneReply'
  BY <1>1, <1>2, <1>3, <1>7, <1>8, <1>9, HandlerBatches DEF HInv, HandlerTypes, OneReply, Replying, HEnds
<1>13. Heard' /\ ReplyStays
  BY <1>1, <1>2, <1>3, <1>7, <1>8, <1>9, HandlerBatches, CallFacts DEF HInv, HandlerTypes, OneReceive, OneReply, Receiving, Replying, Heard, ReplyStays
<1> QED
  BY <1>10, <1>11, <1>12, <1>13 DEF HInv

\* A batch of the handler is done.
LEMMA HandlerCompletes ==
  ASSUME HInv, NEW b, NEW r, NEW e, e = [flags |-> b.flags, result |-> r],
         e \in HEvents, e \notin Range(handler_call.cq),
         handler_call' = Handler!Complete(handler_call, b, r)
  PROVE  /\ handler_call' \in HandlerCall
         /\ handler_call'.out = handler_call.out \ {b}
         /\ Range(handler_call'.cq) = Range(handler_call.cq) \cup {e} /\ Distinct(handler_call'.cq)
         /\ handler_call'.end = handler_call.end
         /\ handler_call'.final_requested = handler_call.final_requested /\ handler_call'.error = handler_call.error
<1>1. PICK d : d = Complete(handler_call, b, r)
  OBVIOUS
<1>2. handler_call' = d
  BY <1>1 DEF Handler!Complete, Complete
<1>3. handler_call \in CallType(HBatches, HEvents, HEnds) /\ Distinct(handler_call.cq)
  BY HandlerFacts
<1>4. /\ d \in CallType(HBatches, HEvents, HEnds)
      /\ d.out = handler_call.out \ {b} /\ Range(d.cq) = Range(handler_call.cq) \cup {e} /\ Distinct(d.cq)
      /\ d.wire = handler_call.wire /\ d.end = handler_call.end
      /\ d.final_requested = handler_call.final_requested /\ d.error = handler_call.error
  BY <1>1, <1>3, CompleteFields
<1> QED
  BY <1>2, <1>4 DEF HandlerCall

\* A receive completes with what the session has put on the wire.
LEMMA handler_BatchDone_step ==
  ASSUME CInv, HInv, Handler!BatchDone(call, broken), UNCHANGED vars
  PROVE  HInv' /\ ReplyStays
<1>1. UNCHANGED <<call, broken>>
  BY DEF vars, reply_vars
<1>2. UNCHANGED <<handler_alive, reader, read, reply>>
  BY DEF Handler!BatchDone
<1>3. PICK cut : cut = (broken \/ handler_call.end # "none")
  OBVIOUS
<1>4. PICK b \in handler_call.out : \E r \in Handler!Results(b, call, read + Queued(handler_call), cut) :
          handler_call' = Handler!Complete(handler_call, b, r)
  BY <1>3, HandlerCore DEF Handler!BatchDone, Handler!Completed
<1>5. PICK r \in Handler!Results(b, call, read + Queued(handler_call), cut) :
          handler_call' = Handler!Complete(handler_call, b, r)
  BY <1>4
<1>6. b \in HBatches /\ (b = First \/ b = Recv \/ b = Value \/ b = Error) /\ read \in Nat
  BY <1>4, HandlerFacts, HandlerBatches DEF HInv, HandlerTypes
<1>7. PICK e : e = [flags |-> b.flags, result |-> r]
  OBVIOUS
<1>8. CASE b = First \/ b = Recv
  <2>1. "recv_status" \notin b.ops /\ "recv_message" \in b.ops /\ b.flags = {}
    BY <1>8, HandlerBatches DEF Handler!FirstOps
  <2>2. Got("message") \notin Range(handler_call.cq) /\ Got("null") \notin Range(handler_call.cq)
    BY <1>4, <1>8 DEF HInv, OneReceive
  <2>3. Queued(handler_call) = 0
    <3>1. \A x \in Range(handler_call.cq) : x.result # "message"
      BY <2>2, HandlerFacts, HandlerBatches
    <3>2. handler_call.cq \in Seq(HEvents)
      BY HandlerFacts
    <3> QED
      BY <3>1, <3>2, QueuedNone
  <2>4. r \in Handler!Results(b, call, read, cut)
    BY <1>5, <1>6, <2>3
  <2>5. \/ r = "message" /\ read < Len(call.wire)
        \/ r = "null" /\ (broken \/ handler_call.end # "none" \/ (call.end # "none" /\ read = Len(call.wire)))
    BY <1>3, <2>1, <2>4 DEF Handler!Results
  <2>6. (r = "message" => e = Got("message")) /\ (r = "null" => e = Got("null"))
    BY <1>7, <2>1 DEF Got
  <2>7. e \in HEvents /\ e \notin Range(handler_call.cq)
    BY <2>2, <2>5, <2>6, HandlerBatches
  <2>8. /\ handler_call' \in HandlerCall
        /\ handler_call'.out = handler_call.out \ {b}
        /\ Range(handler_call'.cq) = Range(handler_call.cq) \cup {e} /\ Distinct(handler_call'.cq)
        /\ handler_call'.end = handler_call.end
        /\ handler_call'.final_requested = handler_call.final_requested /\ handler_call'.error = handler_call.error
    BY <1>5, <1>7, <2>7, HandlerCompletes
  <2>9. HandlerTypes'
    BY <1>1, <1>2, <1>4, <1>8, <2>2, <2>5, <2>6, <2>8 DEF HInv, HandlerTypes
  <2>10. OneReceive'
    BY <1>1, <1>2, <1>4, <1>8, <2>2, <2>5, <2>6, <2>8, HandlerBatches DEF HInv, HandlerTypes, OneReceive, Receiving
  <2>11. OneReply'
    BY <1>1, <1>2, <1>4, <1>8, <2>2, <2>5, <2>6, <2>8, HandlerBatches DEF HInv, HandlerTypes, OneReply, Replying, HEnds
  <2>12. Heard' /\ ReplyStays
    BY <1>1, <1>2, <1>4, <1>8, <2>2, <2>5, <2>6, <2>8, HandlerBatches, CallFacts DEF HInv, HandlerTypes, OneReceive, OneReply, Receiving, Replying, Heard, ReplyStays
  <2> QED
    BY <2>9, <2>10, <2>11, <2>12 DEF HInv
<1>9. CASE b = Value \/ b = Error
  <2>1. "recv_status" \notin b.ops /\ "recv_message" \notin b.ops /\ b.flags = Handler!Closing
    BY <1>9, HandlerBatches
  <2>2. r = "none"
    BY <1>5, <2>1 DEF Handler!Results
  <2>3. e = Closed
    BY <1>7, <2>1, <2>2 DEF Closed
  <2>4. e \in HEvents /\ e \notin Range(handler_call.cq)
    BY <1>4, <1>9, <2>3, HandlerBatches DEF HInv, OneReply
  <2>5. /\ handler_call' \in HandlerCall
        /\ handler_call'.out = handler_call.out \ {b}
        /\ Range(handler_call'.cq) = Range(handler_call.cq) \cup {e} /\ Distinct(handler_call'.cq)
        /\ handler_call'.end = handler_call.end
        /\ handler_call'.final_requested = handler_call.final_requested /\ handler_call'.error = handler_call.error
    BY <1>5, <1>7, <2>4, HandlerCompletes
  <2>6. HandlerTypes'
    BY <1>1, <1>2, <1>4, <1>9, <2>3, <2>5 DEF HInv, HandlerTypes
  <2>7. OneReceive'
    BY <1>1, <1>2, <1>4, <1>9, <2>3, <2>5, HandlerBatches DEF HInv, HandlerTypes, OneReceive, Receiving
  <2>8. OneReply'
    BY <1>1, <1>2, <1>4, <1>9, <2>3, <2>5, HandlerBatches DEF HInv, HandlerTypes, OneReply, Replying, HEnds
  <2>9. Heard' /\ ReplyStays
    BY <1>1, <1>2, <1>4, <1>9, <2>3, <2>5, HandlerBatches, CallFacts DEF HInv, HandlerTypes, OneReceive, OneReply, Receiving, Replying, Heard, ReplyStays
  <2> QED
    BY <2>6, <2>7, <2>8, <2>9 DEF HInv
<1> QED
  BY <1>6, <1>8, <1>9

\* A request is handed on and the next one asked for.
LEMMA handler_exec_request_step ==
  ASSUME CInv, HInv, Handler!exec_request, UNCHANGED vars
  PROVE  HInv' /\ ReplyStays
<1>1. UNCHANGED <<call, broken>>
  BY DEF vars, reply_vars
<1>2. PICK d : d = TakeEvent(handler_call)
  OBVIOUS
<1>3. /\ d \in HandlerCall
      /\ Head(handler_call.cq) \in Range(handler_call.cq)
      /\ \/ Head(handler_call.cq) = Got("message") /\ Head(handler_call.cq).flags = {} /\ Head(handler_call.cq).result = "message"
         \/ Head(handler_call.cq) = Got("null") /\ Head(handler_call.cq).flags = {} /\ Head(handler_call.cq).result = "null"
         \/ Head(handler_call.cq) = Closed /\ Head(handler_call.cq).flags = Handler!Closing
      /\ d.out = handler_call.out
      /\ Range(d.cq) = Range(handler_call.cq) \ {Head(handler_call.cq)} /\ Distinct(d.cq)
      /\ d.wire = handler_call.wire /\ d.end = handler_call.end
      /\ d.final_requested = handler_call.final_requested /\ d.error = handler_call.error
  BY <1>2, HandlerTakes DEF Handler!exec_request, Handler!Event
<1>4. /\ handler_alive /\ Head(handler_call.cq) = Got("message")
      /\ read' = read + 1 /\ UNCHANGED <<handler_alive, reader, reply>>
  BY <1>3, HandlerBatches DEF Handler!exec_request, Handler!Event
<1>5. /\ First \notin d.out /\ Recv \notin d.out /\ Got("message") \notin Range(d.cq) /\ Got("null") \notin Range(d.cq)
      /\ (Closed \in Range(d.cq) <=> Closed \in Range(handler_call.cq))
      /\ reader \notin {"null", "complete"}
  BY <1>3, <1>4, HandlerBatches DEF HInv, OneReceive, Receiving
<1>6. PICK s : s = <<>>
  OBVIOUS
<1>7. PICK x : x = StartBatch(d, Recv.flags, Recv.ops, s)
  OBVIOUS
<1>8. /\ x \in HandlerCall
      /\ x.out = d.out \cup {Recv} /\ x.cq = d.cq /\ x.end = d.end
      /\ x.final_requested = d.final_requested /\ x.error = d.error
  <2>1. /\ d \in CallType(HBatches, HEvents, HEnds) /\ d.out \subseteq HBatches
        /\ First \notin d.out /\ Recv \notin d.out
    BY <1>3, <1>5 DEF HandlerCall, CallType
  <2>2. /\ Legal(d, Recv.ops) /\ Recv.ops \cap FinalRecvs = {}
        /\ Recv \in HBatches /\ Recv = [flags |-> Recv.flags, ops |-> Recv.ops]
    BY <2>1, RecvLegal
  <2>3. d \in CallType(HBatches, HEvents, HEnds) /\ s \in Seq(Nat)
    BY <1>6, <2>1
  <2>4. /\ x \in CallType(HBatches, HEvents, HEnds)
        /\ x.out = d.out \cup {Recv} /\ x.cq = d.cq /\ x.end = d.end
        /\ x.wire = IF d.end = "none" THEN d.wire \o s ELSE d.wire
        /\ x.final_requested = d.final_requested /\ x.error = d.error
    BY <1>7, <2>2, <2>3, StartFields
  <2> QED
    BY <2>4 DEF HandlerCall
<1>9. handler_call' = x
  <2>1. handler_call' = StartBatch(d, {}, {"recv_message"}, s)
    BY <1>2, <1>6, HandlerCore DEF Handler!exec_request
  <2> QED
    BY <1>7, <2>1, HandlerBatches
<1>10. HandlerTypes'
  BY <1>1, <1>3, <1>4, <1>5, <1>8, <1>9 DEF HInv, HandlerTypes
<1>11. OneReceive'
  BY <1>1, <1>3, <1>4, <1>5, <1>8, <1>9, HandlerBatches DEF HInv, HandlerTypes, OneReceive, Receiving
<1>12. OneReply'
  BY <1>1, <1>3, <1>4, <1>5, <1>8, <1>9, HandlerBatches DEF HInv, HandlerTypes, OneReply, Replying, HEnds
<1>13. Heard' /\ ReplyStays
  BY <1>1, <1>3, <1>4, <1>5, <1>8, <1>9, HandlerBatches, CallFacts DEF HInv, HandlerTypes, OneReceive, OneReply, Receiving, Replying, Heard, ReplyStays
<1> QED
  BY <1>10, <1>11, <1>12, <1>13 DEF HInv

\* The end of the requests completes the reader.
LEMMA handler_exec_null_step ==
  ASSUME CInv, HInv, Handler!exec_null, UNCHANGED vars
  PROVE  HInv' /\ ReplyStays
<1>1. UNCHANGED <<call, broken>>
  BY DEF vars, reply_vars
<1>2. PICK d : d = TakeEvent(handler_call)
  OBVIOUS
<1>3. /\ d \in HandlerCall
      /\ Head(handler_call.cq) \in Range(handler_call.cq)
      /\ \/ Head(handler_call.cq) = Got("message") /\ Head(handler_call.cq).flags = {} /\ Head(handler_call.cq).result = "message"
         \/ Head(handler_call.cq) = Got("null") /\ Head(handler_call.cq).flags = {} /\ Head(handler_call.cq).result = "null"
         \/ Head(handler_call.cq) = Closed /\ Head(handler_call.cq).flags = Handler!Closing
      /\ d.out = handler_call.out
      /\ Range(d.cq) = Range(handler_call.cq) \ {Head(handler_call.cq)} /\ Distinct(d.cq)
      /\ d.wire = handler_call.wire /\ d.end = handler_call.end
      /\ d.final_requested = handler_call.final_requested /\ d.error = handler_call.error
  BY <1>2, HandlerTakes DEF Handler!exec_null, Handler!Event
<1>4. /\ handler_alive /\ Head(handler_call.cq) = Got("null")
      /\ handler_call' = d /\ reader' = "complete" /\ UNCHANGED <<handler_alive, read, reply>>
  BY <1>2, <1>3, HandlerCore, HandlerBatches DEF Handler!exec_null, Handler!Event, Handler!AfterRequests
<1>5. HandlerTypes'
  BY <1>1, <1>3, <1>4 DEF HInv, HandlerTypes
<1>6. OneReceive'
  BY <1>1, <1>3, <1>4, HandlerBatches DEF HInv, HandlerTypes, OneReceive, Receiving
<1>7. OneReply'
  BY <1>1, <1>3, <1>4, HandlerBatches DEF HInv, HandlerTypes, OneReply, Replying, HEnds
<1>8. Heard' /\ ReplyStays
  BY <1>1, <1>3, <1>4, HandlerBatches, CallFacts DEF HInv, HandlerTypes, OneReceive, OneReply, Receiving, Replying, Heard, ReplyStays
<1> QED
  BY <1>5, <1>6, <1>7, <1>8 DEF HInv

\* The handler is deleted when its reply has been sent.
LEMMA handler_exec_closing_step ==
  ASSUME CInv, HInv, Handler!exec_closing, UNCHANGED vars
  PROVE  HInv' /\ ReplyStays
<1>1. UNCHANGED <<call, broken>>
  BY DEF vars, reply_vars
<1>2. PICK d : d = TakeEvent(handler_call)
  OBVIOUS
<1>3. /\ d \in HandlerCall
      /\ Head(handler_call.cq) \in Range(handler_call.cq)
      /\ \/ Head(handler_call.cq) = Got("message") /\ Head(handler_call.cq).flags = {} /\ Head(handler_call.cq).result = "message"
         \/ Head(handler_call.cq) = Got("null") /\ Head(handler_call.cq).flags = {} /\ Head(handler_call.cq).result = "null"
         \/ Head(handler_call.cq) = Closed /\ Head(handler_call.cq).flags = Handler!Closing
      /\ d.out = handler_call.out
      /\ Range(d.cq) = Range(handler_call.cq) \ {Head(handler_call.cq)} /\ Distinct(d.cq)
      /\ d.wire = handler_call.wire /\ d.end = handler_call.end
      /\ d.final_requested = handler_call.final_requested /\ d.error = handler_call.error
  BY <1>2, HandlerTakes DEF Handler!exec_closing, Handler!Event
<1>4. /\ handler_alive /\ Head(handler_call.cq) = Closed /\ handler_call' = d /\ handler_alive' = FALSE
      /\ reader' = (IF reader = "open" THEN "failed" ELSE reader) /\ UNCHANGED <<read, reply>>
  BY <1>2, <1>3, HandlerCore, HandlerBatches DEF Handler!exec_closing, Handler!Event
<1>5. HandlerTypes'
  BY <1>1, <1>3, <1>4 DEF HInv, HandlerTypes
<1>6. OneReceive'
  BY <1>1, <1>3, <1>4, HandlerBatches DEF HInv, HandlerTypes, OneReceive, Receiving
<1>7. OneReply'
  BY <1>1, <1>3, <1>4, HandlerBatches DEF HInv, HandlerTypes, OneReply, Replying, HEnds
<1>8. Heard' /\ ReplyStays
  BY <1>1, <1>3, <1>4, HandlerBatches, CallFacts DEF HInv, HandlerTypes, OneReceive, OneReply, Receiving, Replying, Heard, ReplyStays
<1> QED
  BY <1>5, <1>6, <1>7, <1>8 DEF HInv

\* The model drops an event for a handler that was deleted.
LEMMA handler_exec_deleted_step ==
  ASSUME CInv, HInv, Handler!exec_deleted, UNCHANGED vars
  PROVE  HInv' /\ ReplyStays
<1>1. UNCHANGED <<call, broken>>
  BY DEF vars, reply_vars
<1>2. PICK d : d = TakeEvent(handler_call)
  OBVIOUS
<1>3. /\ d \in HandlerCall
      /\ Head(handler_call.cq) \in Range(handler_call.cq)
      /\ \/ Head(handler_call.cq) = Got("message") /\ Head(handler_call.cq).flags = {} /\ Head(handler_call.cq).result = "message"
         \/ Head(handler_call.cq) = Got("null") /\ Head(handler_call.cq).flags = {} /\ Head(handler_call.cq).result = "null"
         \/ Head(handler_call.cq) = Closed /\ Head(handler_call.cq).flags = Handler!Closing
      /\ d.out = handler_call.out
      /\ Range(d.cq) = Range(handler_call.cq) \ {Head(handler_call.cq)} /\ Distinct(d.cq)
      /\ d.wire = handler_call.wire /\ d.end = handler_call.end
      /\ d.final_requested = handler_call.final_requested /\ d.error = handler_call.error
  BY <1>2, HandlerTakes DEF Handler!exec_deleted, Handler!Event
<1>4. /\ ~handler_alive /\ handler_call' = d
      /\ UNCHANGED <<handler_alive, reader, read, reply>>
  BY <1>2, HandlerCore DEF Handler!exec_deleted
<1>5. Head(handler_call.cq) # Closed
  BY <1>3, <1>4 DEF HInv, OneReply, Replying
<1>6. HandlerTypes'
  BY <1>1, <1>3, <1>4, <1>5 DEF HInv, HandlerTypes
<1>7. OneReceive'
  BY <1>1, <1>3, <1>4, <1>5, HandlerBatches DEF HInv, HandlerTypes, OneReceive, Receiving
<1>8. OneReply'
  BY <1>1, <1>3, <1>4, <1>5, HandlerBatches DEF HInv, HandlerTypes, OneReply, Replying, HEnds
<1>9. Heard' /\ ReplyStays
  BY <1>1, <1>3, <1>4, <1>5, HandlerBatches, CallFacts DEF HInv, HandlerTypes, OneReceive, OneReply, Receiving, Replying, Heard, ReplyStays
<1> QED
  BY <1>6, <1>7, <1>8, <1>9 DEF HInv

----------------------------------------------------------------------------
\* A step of the session leaves the handler what it has heard.
LEMMA ClientStep ==
  ASSUME IInv, Client
  PROVE  IInv'
<1>1. CInv /\ HInv /\ UNCHANGED handler
  BY DEF IInv, CInv, HInv, Client
<1>2. CInv' /\ WireGrows
  <2>1. CASE BatchDone(handler_call)
    BY <1>1, <2>1, BatchDone_step DEF HInv
  <2> QED
    BY <1>1, <2>1, ConstructorEnds_step, push_step, finish_step, exec_step, Break_step DEF Client
<1>3. HandlerTypes' /\ OneReceive' /\ OneReply'
  BY <1>1 DEF handler, HInv, HandlerTypes, OneReceive, Receiving, OneReply, Replying
<1>4. Len(call.wire) \in Nat /\ Len(call'.wire) \in Nat /\ read \in Nat
  <2>1. call'.wire \in Seq(Nat)
    BY <1>2 DEF CInv, ClientTypes, ClientCall, CallType
  <2>2. PICK w : w = call'.wire
    OBVIOUS
  <2>3. Len(w) \in Nat
    BY <2>1, <2>2, LenProperties
  <2> QED
    BY <1>1, <2>2, <2>3, CallFacts DEF HInv, HandlerTypes
<1>5. Heard'
  BY <1>1, <1>2, <1>4 DEF handler, HInv, Heard, WireGrows
<1> QED
  BY <1>2, <1>3, <1>5 DEF IInv, CInv

\* A step of the handler leaves the session alone.
LEMMA ServerStep ==
  ASSUME IInv, Server
  PROVE  IInv'
<1>1. CInv /\ HInv /\ UNCHANGED vars
  BY DEF IInv, CInv, HInv, Server
<1>2. HInv' /\ ReplyStays
  BY <1>1, handler_perform_step, handler_finish_step, handler_BatchDone_step, handler_exec_request_step,
     handler_exec_null_step, handler_exec_closing_step, handler_exec_deleted_step
     DEF Server, Handler!Worker
<1>3. ClientTypes' /\ OneBatch' /\ Endings' /\ Order' /\ Replied'
  BY <1>1, <1>2 DEF vars, requests, reply_vars, CInv, ClientTypes, OneBatch, Idle, Endings, Order, Replied, ReplyStays
<1> QED
  BY <1>2, <1>3 DEF IInv, HInv

\* The invariant holds when the constructor has started its batch.
LEMMA InitInv == RpcInit => IInv
<1> SUFFICES ASSUME RpcInit PROVE IInv
  OBVIOUS
<1>1. Handler!NewCall = NewCall
  BY DEF Handler!NewCall, NewCall
<1>2. /\ alive = TRUE /\ batch_in_flight = FALSE /\ finished = FALSE /\ end_sent = FALSE
      /\ pending_ops = <<>> /\ caller = "constructing" /\ pushed = 0
      /\ broken = FALSE /\ rep = "none" /\ overtaken = FALSE
      /\ handler_alive = TRUE /\ handler_call = NewCall /\ reader = "null" /\ read = 0 /\ reply = "none"
  BY <1>1 DEF RpcInit, Init, Handler!Init
<1>3. /\ NewCall \in HandlerCall /\ NewCall \in CallType(CBatches, CEvents, CEnds)
      /\ NewCall.out = {} /\ Range(NewCall.cq) = {} /\ Distinct(NewCall.cq)
      /\ NewCall.wire = <<>> /\ NewCall.end = "none"
      /\ ~NewCall.final_requested /\ ~NewCall.error
  BY NewFields DEF HandlerCall, HEnds, CEnds
<1>4. PICK s : s = <<>>
  OBVIOUS
<1>5. PICK c : c = NewCall
  OBVIOUS
<1>6. PICK d : d = StartBatch(c, Meta.flags, Meta.ops, s)
  OBVIOUS
<1>7. call = d
  BY <1>4, <1>5, <1>6, ClientBatches DEF RpcInit, Init
<1>8. /\ d \in ClientCall
      /\ d.out = {Meta} /\ d.cq = c.cq /\ d.end = "none" /\ d.wire = <<>>
      /\ d.final_requested = c.final_requested /\ d.error = c.error
  <2>1. c \in CallType(CBatches, CEvents, CEnds)
    BY <1>3, <1>5
  <2>2. Legal(c, Meta.ops) /\ Meta.ops \cap FinalRecvs = {}
    BY <1>3, <1>5, ClientBatches DEF Legal, FinalSends, FinalRecvs, MetadataOps
  <2>3. Meta \in CBatches /\ Meta = [flags |-> Meta.flags, ops |-> Meta.ops] /\ s \in Seq(Nat)
    BY <1>4, ClientBatches
  <2>4. /\ d \in CallType(CBatches, CEvents, CEnds)
        /\ d.out = c.out \cup {Meta} /\ d.cq = c.cq /\ d.end = c.end
        /\ d.wire = IF c.end = "none" THEN c.wire \o s ELSE c.wire
        /\ d.final_requested = c.final_requested /\ d.error = c.error
    BY <1>6, <2>1, <2>2, <2>3, StartFields
  <2> QED
    BY <1>3, <1>4, <1>5, <2>4 DEF ClientCall
<1>9. ClientTypes
  BY <1>2, <1>3, <1>5, <1>7, <1>8 DEF ClientTypes
<1>10. OneBatch /\ Endings /\ Replied
  BY <1>2, <1>3, <1>5, <1>7, <1>8 DEF OneBatch, Endings, Replied
<1>11. Order
  <2>1. Messages(0) = <<>> /\ Pending(pending_ops, pushed)
    BY <1>2 DEF Messages, Pending
  <2> QED
    BY <1>2, <1>7, <1>8, <2>1 DEF Order
<1>12. HandlerTypes
  BY <1>2, <1>3 DEF HandlerTypes
<1>13. OneReceive /\ OneReply
  BY <1>2, <1>3 DEF OneReceive, Receiving, OneReply, Replying
<1>14. Heard
  BY <1>2, <1>3, <1>7, <1>8 DEF Heard
<1> QED
  BY <1>9, <1>10, <1>11, <1>12, <1>13, <1>14 DEF IInv

\* Every step of either side keeps the invariant.
LEMMA InvStep == IInv /\ [RpcNext]_all => IInv'
<1> SUFFICES ASSUME IInv, [RpcNext]_all PROVE IInv'
  OBVIOUS
<1>1. CASE Client
  BY <1>1, ClientStep
<1>2. CASE Server
  BY <1>2, ServerStep
<1>3. CASE UNCHANGED all
  <2>1. UNCHANGED vars /\ UNCHANGED handler
    BY <1>3 DEF all
  <2> QED
    BY <2>1 DEF vars, requests, reply_vars, handler, IInv, ClientTypes, OneBatch, Idle, Endings, Order, Replied,
                HandlerTypes, OneReceive, Receiving, OneReply, Replying, Heard
<1> QED
  BY <1>1, <1>2, <1>3 DEF RpcNext, Done

----------------------------------------------------------------------------
\* The invariant holds in every state, for any number of requests.
THEOREM Invariant == RpcSpec => []IInv
  BY InitInv, InvStep, PTL DEF RpcSpec

\* grpc core never refuses a batch of the session: the assertions on the status of
\* start_batch in flush_ and send_end hold, also when exec overtakes the constructor.
THEOREM SessionNotRefused == RpcSpec => []NoRefusedBatch
<1>1. IInv => NoRefusedBatch
  BY DEF IInv, ClientTypes, NoRefusedBatch
<1> QED
  BY <1>1, Invariant, PTL

\* The for_each lambda, the finally lambda and exec put every request on the wire in the
\* order of push, and the end of the stream after the last of them.
THEOREM CloseAfterRequests == RpcSpec => []RequestsThenClose
<1>1. ASSUME IInv, call.end # "none"
      PROVE  finished /\ pushed - Len(pending_ops) = pushed
  <2>1. finished /\ pending_ops = <<>>
    BY <1>1 DEF IInv, OneBatch, Endings
  <2> QED
    BY <1>1, <2>1, PendingLen DEF IInv, ClientTypes, Order
<1>2. IInv => RequestsThenClose
  BY <1>1 DEF IInv, Order, RequestsThenClose
<1> QED
  BY <1>2, Invariant, PTL

\* When exec has the session deleted, nothing is pending (the assertion of its
\* destructor), the stream is closed, and grpc core is done with it.
THEOREM DeletedLast == RpcSpec => []DeletedWhenDone
<1>1. ASSUME IInv, ~alive PROVE pending_ops = <<>> /\ call.end = "close" /\ Quiescent(call)
  <2>1. end_sent /\ call.out = {} /\ Range(call.cq) = {} /\ pending_ops = <<>> /\ call.end # "none"
    BY <1>1 DEF IInv, OneBatch, Endings, Idle
  <2>2. call.end \in {"none", "close"} /\ call.cq \in Seq(CEvents)
    BY <1>1 DEF IInv, ClientTypes, ClientCall, CallType, CEnds
  <2>3. call.cq = <<>>
    BY <2>1, <2>2, NoEvents
  <2> QED
    BY <2>1, <2>2, <2>3 DEF Quiescent
<1>2. IInv => DeletedWhenDone
  BY <1>1 DEF DeletedWhenDone
<1> QED
  BY <1>2, Invariant, PTL

\* Client_streaming_call_handler has no batch refused, although finish and exec start
\* batches without a mutex, and leaves nothing behind after its reader has ended.
THEOREM HandlerIsSafe == RpcSpec => []HandlerSafe
<1>1. ASSUME IInv, ~handler_alive, reader = "complete" PROVE Handler!Quiescent(handler_call)
  <2>1. ~Receiving /\ ~Replying
    BY <1>1 DEF IInv, OneReceive, OneReply
  <2>2. /\ handler_call.out \subseteq HBatches /\ Range(handler_call.cq) \subseteq HEvents
        /\ handler_call.cq \in Seq(HEvents)
    BY <1>1, HandlerFacts DEF IInv, HInv
  <2>3. handler_call.out = {} /\ Range(handler_call.cq) = {}
    BY <2>1, <2>2, HandlerBatches DEF Receiving, Replying
  <2> QED
    BY <2>2, <2>3, NoEvents DEF Handler!Quiescent
<1>2. IInv => HandlerSafe
  BY <1>1 DEF IInv, HandlerTypes, HandlerSafe, Handler!Safe
<1> QED
  BY <1>2, Invariant, PTL

\* A reader that was told of the end of an unbroken stream has every request that was
\* pushed, and the client resolves a value only when the method gave one.
THEOREM ReaderHasAll == RpcSpec => []EndToEnd
<1>1. ASSUME IInv, reader = "complete", reply = "none", ~broken PROVE caller = "done" /\ read = pushed
  <2>1. call.end # "none" /\ read = Len(call.wire)
    BY <1>1 DEF IInv, Heard
  <2>2. finished /\ caller = "done" /\ pending_ops = <<>> /\ pushed \in Nat
    BY <1>1, <2>1 DEF IInv, ClientTypes, OneBatch, Endings
  <2>3. call.wire = Messages(pushed - Len(pending_ops)) /\ Pending(pending_ops, pushed)
    BY <1>1 DEF IInv, Order
  <2>4. Len(Messages(pushed - Len(pending_ops))) = pushed - Len(pending_ops) /\ pushed - Len(pending_ops) = pushed
    BY <2>2, <2>3, PendingLen
  <2> QED
    BY <2>1, <2>2, <2>3, <2>4
<1>2. IInv => EndToEnd
  BY <1>1 DEF IInv, Replied, EndToEnd
<1> QED
  BY <1>2, Invariant, PTL
=============================================================================
