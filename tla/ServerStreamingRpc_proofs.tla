---------------------- MODULE ServerStreamingRpc_proofs ----------------------
(***************************************************************************)
(* A server-streaming call from end to end, for any number of replies.     *)
(***************************************************************************)
EXTENDS ServerStreamingRpc, GrpcCall_proofs

----------------------------------------------------------------------------
\* The handler.

\* The batches a handler starts, and their events.
Meta == [flags |-> {}, ops |-> {"send_metadata"}]
Msg == [flags |-> {}, ops |-> {"send_message"}]
Close == [flags |-> Closing, ops |-> {"recv_close", "send_status"}]
Sent == [flags |-> {}, result |-> "none"]
Closed == [flags |-> Closing, result |-> "none"]

HBatches == {Meta, Msg, Close}
HEvents == {Sent, Closed}
HEnds == {"none", "OK"}
HandlerCall == CallType(HBatches, HEvents, HEnds)

\* The types of the handler's variables; no event is queued twice, and no batch has
\* been refused.
HandlerTypes ==
  /\ alive \in BOOLEAN /\ finished \in BOOLEAN /\ batch_in_flight \in BOOLEAN
  /\ pushed \in Nat
  /\ producer \in {"none", "streaming", "unlocking", "done"}
  /\ ended \in {"no", "finish", "fail"}
  /\ call \in HandlerCall
  /\ Distinct(call.cq) /\ ~call.error

\* A batch that sends, or its completion, is on its way; likewise the closing one.
Sending == Meta \in call.out \/ Msg \in call.out \/ Sent \in Range(call.cq)
Ending == Close \in call.out \/ Closed \in Range(call.cq)

\* One batch that sends at a time, and batch_in_flight_ says whether there is one.
InFlight ==
  /\ Msg \in call.out => Meta \notin call.out
  /\ Sent \in Range(call.cq) => Meta \notin call.out /\ Msg \notin call.out
  /\ Closed \in Range(call.cq) => Close \notin call.out
  /\ Sending => batch_in_flight
  /\ alive /\ batch_in_flight => Sending
  /\ pending_ops # <<>> => batch_in_flight

\* The closing batch is started once, by finish, fail or exec, whoever comes to it,
\* and the handler is deleted when it completes.
Endings ==
  /\ call.end # "none" <=> Ending \/ ~alive
  /\ ~alive => ~Ending
  /\ call.final_requested <=> call.end # "none"
  /\ producer \in {"none", "streaming"} <=> ended = "no"
  /\ finished <=> ended = "finish"
  /\ producer = "none" => ~batch_in_flight
  /\ ended = "no" => call.end = "none"
  /\ ended = "fail" => call.end # "none"
  /\ ended = "finish" => (call.end # "none" <=> ~batch_in_flight)

\* What is pending follows what has been sent.
Order ==
  /\ Pending(pending_ops, pushed)
  /\ ended # "fail" => call.wire = Messages(pushed - Len(pending_ops))

----------------------------------------------------------------------------
\* The session.

\* The batches a session starts, and their events.
First == [flags |-> {}, ops |-> Session!FirstOps]
Recv == [flags |-> {}, ops |-> {"recv_message"}]
Last == [flags |-> {}, ops |-> Session!LastOps]
Got(r) == [flags |-> {}, result |-> r]
SBatches == {First, Recv, Last}
SEvents == {Got(r) : r \in {"message", "null", "OK", "error"}}
SEnds == {"none", "close"}
SessionCall == CallType(SBatches, SEvents, SEnds)

\* The types of the session's variables; no batch has been refused.
SessionTypes ==
  /\ caller \in {"starting", "started", "returned"}
  /\ session_alive \in BOOLEAN /\ finishing \in BOOLEAN /\ broken \in BOOLEAN
  /\ stream \in {"null", "open", "complete", "failed"}
  /\ received \in Nat /\ crashed \in {"no", "start", "exec"}
  /\ session_call \in SessionCall
  /\ Distinct(session_call.cq) /\ ~session_call.error

\* The session has one batch at a time: it asks for a reply, or, when finishing_,
\* for the status; and it lives as long as there is one.
OneBatch ==
  /\ \A b, d \in session_call.out : b = d
  /\ \A e, f \in Range(session_call.cq) : e = f
  /\ session_call.out = {} \/ Range(session_call.cq) = {}
  /\ session_call.out = {} /\ Range(session_call.cq) = {} <=> caller = "starting" \/ ~session_alive
  /\ session_call.end # "none" <=> finishing
  /\ session_call.final_requested <=> finishing
  /\ ~session_alive => finishing
  /\ stream \in {"complete", "failed"} => ~session_alive
  /\ caller = "starting" => session_alive /\ ~finishing
  /\ IF finishing
       THEN session_call.out \subseteq {Last} /\ Range(session_call.cq) \subseteq {Got("OK"), Got("error")}
       ELSE session_call.out \subseteq {First, Recv} /\ Range(session_call.cq) \subseteq {Got("message"), Got("null")}

\* What the session has heard of the handler: replies in the order of the wire, and,
\* unless the call broke, the end after the last of them.
Heard ==
  /\ received + (IF Got("message") \in Range(session_call.cq) THEN 1 ELSE 0) <= Len(call.wire)
  /\ (Got("null") \in Range(session_call.cq) \/ finishing) /\ ~broken
       => call.end # "none" /\ received = Len(call.wire)
  /\ Got("OK") \in Range(session_call.cq) \/ stream = "complete"
       => call.end # "none" /\ received = Len(call.wire)
  /\ Got("error") \in Range(session_call.cq) \/ stream = "failed" => broken

IInv == /\ HandlerTypes /\ InFlight /\ Endings /\ Order
        /\ SessionTypes /\ OneBatch /\ Heard
----------------------------------------------------------------------------
\* The batches and events of the handler are told apart by flags and operations.
LEMMA HandlerBatches ==
  /\ Meta \in HBatches /\ Msg \in HBatches /\ Close \in HBatches
  /\ Meta # Msg /\ Meta # Close /\ Msg # Close /\ Sent # Closed
  /\ Meta.flags = {} /\ Meta.ops = {"send_metadata"}
  /\ Msg.flags = {} /\ Msg.ops = {"send_message"}
  /\ Close.flags = Closing /\ Close.ops = {"recv_close", "send_status"}
  /\ \A b \in HBatches : /\ b = [flags |-> b.flags, ops |-> b.ops]
                         /\ b = Meta \/ b = Msg \/ b = Close
  /\ Sent.flags = {} /\ Closed.flags = Closing /\ Closing # {}
  /\ \A e \in HEvents : e = Sent \/ e = Closed
  /\ Sent \in HEvents /\ Closed \in HEvents
<1>1. /\ Meta.ops = {"send_metadata"} /\ Msg.ops = {"send_message"}
      /\ Close.ops = {"recv_close", "send_status"}
      /\ Meta.flags = {} /\ Msg.flags = {} /\ Close.flags = Closing
      /\ Sent.flags = {} /\ Closed.flags = Closing
  BY DEF Meta, Msg, Close, Sent, Closed
<1>2. Closing # {}
  BY DEF Closing
<1>3. Meta.ops # Msg.ops
  BY <1>1
<1>4. \A b \in HBatches : b = [flags |-> b.flags, ops |-> b.ops] /\ (b = Meta \/ b = Msg \/ b = Close)
  BY DEF HBatches, Meta, Msg, Close
<1>5. Meta \in HBatches /\ Msg \in HBatches /\ Close \in HBatches
  BY DEF HBatches
<1>6. (\A e \in HEvents : e = Sent \/ e = Closed) /\ Sent \in HEvents /\ Closed \in HEvents
  BY DEF HEvents
<1> QED
  BY <1>1, <1>2, <1>3, <1>4, <1>5, <1>6

\* The handler's part of the invariant.
HInv == HandlerTypes /\ InFlight /\ Endings /\ Order

\* flush_ sends the oldest of the replies that wait, if no message is outstanding.
LEMMA FlushFields ==
  ASSUME NEW c \in HandlerCall, Msg \notin c.out,
         NEW n \in Nat, NEW ops, Pending(ops, n), ops # <<>>, flush(c, ops)
  PROVE  /\ batch_in_flight' = TRUE /\ Pending(pending_ops', n) /\ call' \in HandlerCall
         /\ call'.out = c.out \cup {Msg} /\ call'.cq = c.cq /\ call'.end = c.end
         /\ c.end # "none" => call'.wire = c.wire
         /\ c.end = "none" /\ c.wire = Messages(n - Len(ops))
              => call'.wire = Messages(n - Len(pending_ops')) /\ Len(call'.wire) = Len(c.wire) + 1
         /\ call'.final_requested = c.final_requested /\ call'.error = c.error
<1>1. Legal(c, Msg.ops) /\ Msg.ops \cap FinalRecvs = {}
  <2>1. \A b \in c.out : b = Meta \/ b = Close
    BY HandlerBatches DEF HandlerCall, CallType
  <2>2. \A b \in c.out : b.ops \cap Msg.ops \cap {"send_message", "recv_message"} = {}
    BY <2>1, HandlerBatches
  <2> QED
    BY <2>2, HandlerBatches DEF Legal, FinalSends, FinalRecvs
<1>2. PICK t : t = Tail(ops)
  OBVIOUS
<1>3. /\ Pending(t, n) /\ Head(ops) \in Nat
      /\ Messages(n - Len(ops)) \o <<Head(ops)>> = Messages(n - Len(t))
      /\ Len(Messages(n - Len(t))) = Len(Messages(n - Len(ops))) + 1
  BY <1>2, PendingSend
<1>4. PICK s : s = <<Head(ops)>>
  OBVIOUS
<1>5. s \in Seq(Nat)
  BY <1>3, <1>4
<1>6. /\ call' = StartBatch(c, Msg.flags, Msg.ops, s)
      /\ batch_in_flight' = TRUE /\ pending_ops' = t
  BY <1>2, <1>4, HandlerBatches DEF flush, front
<1>7. Msg \in HBatches /\ Msg = [flags |-> Msg.flags, ops |-> Msg.ops]
  BY HandlerBatches
<1>8. PICK d : d = StartBatch(c, Msg.flags, Msg.ops, s)
  OBVIOUS
<1>9. /\ d \in HandlerCall
      /\ d.out = c.out \cup {Msg}
      /\ d.cq = c.cq /\ d.end = c.end
      /\ d.wire = IF c.end = "none" THEN c.wire \o s ELSE c.wire
      /\ d.final_requested = c.final_requested /\ d.error = c.error
  BY <1>1, <1>5, <1>7, <1>8, StartFields DEF HandlerCall
<1>10. call' = d /\ Pending(pending_ops', n)
  BY <1>3, <1>6, <1>8
<1>11. /\ c.end # "none" => call'.wire = c.wire
       /\ c.end = "none" /\ c.wire = Messages(n - Len(ops))
            => call'.wire = Messages(n - Len(pending_ops')) /\ Len(call'.wire) = Len(c.wire) + 1
  BY <1>3, <1>4, <1>6, <1>9, <1>10
<1> QED
  BY <1>6, <1>9, <1>10, <1>11

\* The closing batch, which send_end and fail start.
LEMMA CloseFields ==
  ASSUME NEW c \in HandlerCall, c.end = "none", ~c.final_requested,
         NEW d, d = EndBatch(c, Closing, {"recv_close", "send_status"}, "OK")
  PROVE  /\ d \in HandlerCall
         /\ d.out = c.out \cup {Close} /\ d.cq = c.cq /\ d.end = "OK" /\ d.wire = c.wire
         /\ d.final_requested /\ d.error = c.error
<1>1. Legal(c, Close.ops) /\ Close.ops \cap FinalRecvs # {}
  <2>1. \A b \in c.out : b.ops \cap {"recv_close", "send_status"} \cap {"send_message", "recv_message"} = {}
    OBVIOUS
  <2> QED
    BY <2>1, HandlerBatches DEF Legal, FinalRecvs
<1>2. /\ Close \in HBatches /\ Close = [flags |-> Close.flags, ops |-> Close.ops]
      /\ d = EndBatch(c, Close.flags, Close.ops, "OK") /\ "OK" \in HEnds
  BY HandlerBatches DEF HEnds
<1> QED
  BY <1>1, <1>2, EndFields DEF HandlerCall

\* What the session may rely on: the wire grows, and not after its end.
WireGrows ==
  /\ Len(call.wire) <= Len(call'.wire)
  /\ call.end # "none" => call'.end # "none" /\ call'.wire = call.wire

\* The replies in the order of push, up to the oldest pending one and with it.
LEMMA OrderFacts ==
  ASSUME HInv
  PROVE  /\ pending_ops \in Seq(Nat) /\ Len(pending_ops) \in Nat /\ pushed - Len(pending_ops) \in Nat
         /\ call \in HandlerCall /\ Distinct(call.cq) /\ ~call.error
         /\ call.out \subseteq HBatches /\ call.wire \in Seq(Nat) /\ Len(call.wire) \in Nat
         /\ call.cq \in Seq(HEvents) /\ Range(call.cq) \subseteq HEvents
<1>1. pushed \in Nat /\ Pending(pending_ops, pushed)
  BY DEF HInv, HandlerTypes, Order
<1>2. pending_ops \in Seq(Nat) /\ Len(pending_ops) \in Nat /\ pushed - Len(pending_ops) \in Nat
  BY <1>1, PendingLen
<1>3. call \in HandlerCall /\ Distinct(call.cq) /\ ~call.error
  BY DEF HInv, HandlerTypes
<1>4. call.out \subseteq HBatches /\ call.wire \in Seq(Nat) /\ call.cq \in Seq(HEvents)
  BY <1>3 DEF HandlerCall, CallType
<1>5. Len(call.wire) \in Nat /\ Range(call.cq) \subseteq HEvents
  BY <1>4, LenProperties, RangeOfSeq
<1> QED
  BY <1>1, <1>2, <1>3, <1>4, <1>5

\* The worker takes the first event of the handler's call.
LEMMA HandlerTakes ==
  ASSUME HInv, call.cq # <<>>, NEW d, d = TakeEvent(call)
  PROVE  /\ d \in HandlerCall
         /\ Head(call.cq) \in Range(call.cq)
         /\ (Head(call.cq) = Sent /\ Head(call.cq).flags = {})
              \/ (Head(call.cq) = Closed /\ Head(call.cq).flags = Closing)
         /\ d.out = call.out
         /\ Range(d.cq) = Range(call.cq) \ {Head(call.cq)} /\ Distinct(d.cq)
         /\ d.wire = call.wire /\ d.end = call.end
         /\ d.final_requested = call.final_requested /\ d.error = call.error
<1>1. call \in CallType(HBatches, HEvents, HEnds) /\ Distinct(call.cq)
  BY DEF HInv, HandlerTypes, HandlerCall
<1>2. PICK c : c = call
  OBVIOUS
<1>3. /\ d \in CallType(HBatches, HEvents, HEnds)
      /\ Head(c.cq) \in HEvents /\ Head(c.cq) \in Range(c.cq)
      /\ d.out = c.out
      /\ Range(d.cq) = Range(c.cq) \ {Head(c.cq)} /\ Distinct(d.cq)
      /\ d.wire = c.wire /\ d.end = c.end
      /\ d.final_requested = c.final_requested /\ d.error = c.error
  BY <1>1, <1>2, TakeFields
<1>4. \/ Head(call.cq) = Sent /\ Head(call.cq).flags = {}
      \/ Head(call.cq) = Closed /\ Head(call.cq).flags = Closing
  BY <1>2, <1>3, HandlerBatches
<1> QED
  BY <1>2, <1>3, <1>4 DEF HandlerCall

\* The metadata is the first batch in flight.
LEMMA perform_step ==
  ASSUME HInv, perform
  PROVE  HInv' /\ WireGrows
<1>1. PICK s : s = <<>>
  OBVIOUS
<1>2. PICK d : d = StartBatch(call, Meta.flags, Meta.ops, s)
  OBVIOUS
<1>3. /\ Legal(call, Meta.ops) /\ Meta.ops \cap FinalRecvs = {} /\ s \in Seq(Nat)
      /\ Meta \in HBatches /\ Meta = [flags |-> Meta.flags, ops |-> Meta.ops]
  BY <1>1, HandlerBatches DEF Legal, FinalSends, FinalRecvs
<1>4. /\ d \in HandlerCall /\ d.out = call.out \cup {Meta} /\ d.cq = call.cq /\ d.end = call.end
      /\ d.wire = IF call.end = "none" THEN call.wire \o s ELSE call.wire
      /\ d.final_requested = call.final_requested /\ d.error = call.error
  <2>1. call \in CallType(HBatches, HEvents, HEnds)
    BY OrderFacts DEF HandlerCall
  <2> QED
    BY <1>2, <1>3, <2>1, StartFields DEF HandlerCall
<1>5. d.wire = call.wire
  BY <1>1, <1>4, OrderFacts, ConcatEmptySeq
<1>6. call' = d
  BY <1>1, <1>2, HandlerBatches DEF perform
<1>7. HandlerTypes'
  BY <1>4, <1>5, <1>6 DEF HInv, HandlerTypes, replies, perform
<1>8. InFlight'
  BY <1>4, <1>5, <1>6, HandlerBatches DEF HInv, HandlerTypes, InFlight, Sending, Endings, Ending, replies, perform
<1>9. Endings'
  BY <1>4, <1>5, <1>6, HandlerBatches DEF HInv, HandlerTypes, InFlight, Sending, Endings, Ending, HEnds, replies, perform
<1>10. Order'
  BY <1>4, <1>5, <1>6, OrderFacts DEF HInv, HandlerTypes, Order, Endings, InFlight, replies, perform
<1>11. WireGrows
  BY <1>4, <1>5, <1>6, OrderFacts DEF HInv, HandlerTypes, WireGrows, HandlerCall, CallType, replies, perform
<1> QED
  BY <1>7, <1>8, <1>9, <1>10, <1>11 DEF HInv

\* A reply is sent when nothing is in flight, and appended to pending_ops_ otherwise.
LEMMA push_step ==
  ASSUME HInv, push
  PROVE  HInv' /\ WireGrows
<1>1. PICK ops : ops = Append(pending_ops, pushed + 1)
  OBVIOUS
<1>2. /\ pushed \in Nat /\ pushed + 1 \in Nat
      /\ Pending(ops, pushed + 1) /\ ops # <<>> /\ (pushed + 1) - Len(ops) = pushed - Len(pending_ops)
  <2>1. pushed \in Nat /\ Pending(pending_ops, pushed)
    BY DEF HInv, HandlerTypes, Order
  <2>2. Pending(ops, pushed + 1) /\ ops # <<>> /\ (pushed + 1) - Len(ops) = pushed - Len(pending_ops)
    BY <1>1, <2>1, PendingPush
  <2> QED
    BY <2>1, <2>2
<1>3. CASE batch_in_flight
  <2>1. /\ pending_ops' = ops /\ pushed' = pushed + 1
        /\ UNCHANGED <<batch_in_flight, call, alive, finished, producer, ended>>
    BY <1>1, <1>3 DEF push, MustWait
  <2>2. HandlerTypes'
    BY <1>2, <2>1 DEF HInv, HandlerTypes
  <2>3. InFlight' /\ Endings'
    BY <1>3, <2>1 DEF HInv, InFlight, Sending, Endings, Ending
  <2>4. Order'
    BY <1>2, <2>1 DEF HInv, Order
  <2>5. WireGrows
    BY <2>1, OrderFacts DEF WireGrows
  <2> QED
    BY <2>2, <2>3, <2>4, <2>5 DEF HInv
<1>4. CASE ~batch_in_flight
  <2>1. /\ flush(call, ops) /\ pushed' = pushed + 1 /\ producer = "streaming"
        /\ UNCHANGED <<alive, finished, producer, ended>>
    BY <1>1, <1>4 DEF push, MustWait
  <2>2. Msg \notin call.out /\ call.end = "none" /\ call.wire = Messages((pushed + 1) - Len(ops))
    BY <1>2, <1>4, <2>1 DEF HInv, HandlerTypes, InFlight, Sending, Endings, Order
  <2>3. PICK n \in Nat : n = pushed + 1
    BY <1>2
  <2>4. /\ batch_in_flight' = TRUE /\ Pending(pending_ops', n) /\ call' \in HandlerCall
        /\ call'.out = call.out \cup {Msg} /\ call'.cq = call.cq /\ call'.end = call.end
        /\ call.end # "none" => call'.wire = call.wire
        /\ call.end = "none" /\ call.wire = Messages(n - Len(ops))
             => call'.wire = Messages(n - Len(pending_ops')) /\ Len(call'.wire) = Len(call.wire) + 1
        /\ call'.final_requested = call.final_requested /\ call'.error = call.error
    <3>1. Pending(ops, n) /\ call \in HandlerCall
      BY <1>2, <2>3, OrderFacts
    <3> QED
      BY <1>2, <2>1, <2>2, <3>1, FlushFields
  <2>5. HandlerTypes'
    BY <1>2, <2>1, <2>4 DEF HInv, HandlerTypes
  <2>6. InFlight' /\ Endings'
    BY <1>4, <2>1, <2>2, <2>4, HandlerBatches DEF HInv, InFlight, Sending, Endings, Ending
  <2>7. Order'
    BY <2>1, <2>2, <2>3, <2>4 DEF Order
  <2>8. WireGrows
    BY <2>2, <2>3, <2>4, OrderFacts DEF WireGrows
  <2> QED
    BY <2>5, <2>6, <2>7, <2>8 DEF HInv
<1> QED
  BY <1>3, <1>4

\* The closing batch is started at once when nothing is in flight.
LEMMA finish_step ==
  ASSUME HInv, finish
  PROVE  HInv' /\ WireGrows
<1>1. CASE batch_in_flight
  <2>1. /\ finished' = TRUE /\ ended' = "finish" /\ producer = "streaming" /\ producer' = "unlocking"
        /\ UNCHANGED <<call, alive, batch_in_flight, pending_ops, pushed>>
    BY <1>1 DEF finish, MustWait
  <2>2. HandlerTypes'
    BY <1>1, <2>1 DEF HInv, HandlerTypes, replies, MustWait
  <2>3. InFlight'
    BY <1>1, <2>1, HandlerBatches DEF HInv, HandlerTypes, InFlight, Sending, Endings, Ending, replies, MustWait
  <2>4. Endings'
    BY <1>1, <2>1, HandlerBatches DEF HInv, HandlerTypes, InFlight, Sending, Endings, Ending, HEnds, replies, MustWait
  <2>5. Order'
    BY <1>1, <2>1, OrderFacts DEF HInv, HandlerTypes, Order, Endings, InFlight, replies, MustWait
  <2>6. WireGrows
    BY <1>1, <2>1, OrderFacts DEF HInv, HandlerTypes, WireGrows, HandlerCall, CallType, replies, MustWait
  <2> QED
    BY <2>2, <2>3, <2>4, <2>5, <2>6 DEF HInv
<1>2. CASE ~batch_in_flight
  <2>1. /\ finished' = TRUE /\ ended' = "finish" /\ producer = "streaming" /\ producer' = "unlocking"
        /\ call' = EndBatch(call, Closing, {"recv_close", "send_status"}, "OK")
        /\ UNCHANGED <<alive, batch_in_flight, pending_ops, pushed>>
    BY <1>2 DEF finish, MustWait, send_end
  <2>2. ended = "no" /\ call.end = "none" /\ ~call.final_requested
    BY <2>1 DEF HInv, HandlerTypes, Endings
  <2>3. /\ call' \in HandlerCall
        /\ call'.out = call.out \cup {Close} /\ call'.cq = call.cq /\ call'.end = "OK" /\ call'.wire = call.wire
        /\ call'.final_requested /\ call'.error = call.error
    BY <2>1, <2>2, OrderFacts, CloseFields
  <2>4. HandlerTypes'
    BY <1>2, <2>1, <2>2, <2>3 DEF HInv, HandlerTypes, replies, MustWait
  <2>5. InFlight'
    BY <1>2, <2>1, <2>2, <2>3, HandlerBatches DEF HInv, HandlerTypes, InFlight, Sending, Endings, Ending, replies, MustWait
  <2>6. Endings'
    BY <1>2, <2>1, <2>2, <2>3, HandlerBatches DEF HInv, HandlerTypes, InFlight, Sending, Endings, Ending, HEnds, replies, MustWait
  <2>7. Order'
    BY <1>2, <2>1, <2>2, <2>3, OrderFacts DEF HInv, HandlerTypes, Order, Endings, InFlight, replies, MustWait
  <2>8. WireGrows
    BY <1>2, <2>1, <2>2, <2>3, OrderFacts DEF HInv, HandlerTypes, WireGrows, HandlerCall, CallType, replies, MustWait
  <2> QED
    BY <2>4, <2>5, <2>6, <2>7, <2>8 DEF HInv
<1> QED
  BY <1>1, <1>2

\* fail starts the closing batch whatever is in flight.
LEMMA fail_step ==
  ASSUME HInv, fail
  PROVE  HInv' /\ WireGrows
<1>1. /\ ended' = "fail" /\ producer = "streaming" /\ producer' = "unlocking"
      /\ call' = EndBatch(call, Closing, {"recv_close", "send_status"}, "OK")
      /\ UNCHANGED <<alive, finished, batch_in_flight, pending_ops, pushed>>
  <2>1. {"send_status", "recv_close"} = {"recv_close", "send_status"}
    OBVIOUS
  <2> QED
    BY <2>1 DEF fail
<1>2. ended = "no" /\ call.end = "none" /\ ~call.final_requested
  BY <1>1 DEF HInv, HandlerTypes, Endings
<1>3. /\ call' \in HandlerCall
      /\ call'.out = call.out \cup {Close} /\ call'.cq = call.cq /\ call'.end = "OK" /\ call'.wire = call.wire
      /\ call'.final_requested /\ call'.error = call.error
  BY <1>1, <1>2, OrderFacts, CloseFields
<1>4. HandlerTypes'
  BY <1>1, <1>2, <1>3 DEF HInv, HandlerTypes, replies, MustWait
<1>5. InFlight'
  BY <1>1, <1>2, <1>3, HandlerBatches DEF HInv, HandlerTypes, InFlight, Sending, Endings, Ending, replies, MustWait
<1>6. Endings'
  BY <1>1, <1>2, <1>3, HandlerBatches DEF HInv, HandlerTypes, InFlight, Sending, Endings, Ending, HEnds, replies, MustWait
<1>7. Order'
  BY <1>1, <1>2, <1>3, OrderFacts DEF HInv, HandlerTypes, Order, Endings, InFlight, replies, MustWait
<1>8. WireGrows
  BY <1>1, <1>2, <1>3, OrderFacts DEF HInv, HandlerTypes, WireGrows, HandlerCall, CallType, replies, MustWait
<1> QED
  BY <1>4, <1>5, <1>6, <1>7, <1>8 DEF HInv

\* The end of the critical section changes nothing else.
LEMMA unlock_step ==
  ASSUME HInv, unlock
  PROVE  HInv' /\ WireGrows
<1>1. /\ producer = "unlocking" /\ producer' = "done"
      /\ UNCHANGED <<alive, finished, batch_in_flight, pending_ops, call, pushed, ended>>
  BY DEF unlock
<1>2. HandlerTypes'
  BY <1>1 DEF HInv, HandlerTypes, replies, MustWait
<1>3. InFlight'
  BY <1>1, HandlerBatches DEF HInv, HandlerTypes, InFlight, Sending, Endings, Ending, replies, MustWait
<1>4. Endings'
  BY <1>1, HandlerBatches DEF HInv, HandlerTypes, InFlight, Sending, Endings, Ending, HEnds, replies, MustWait
<1>5. Order'
  BY <1>1, OrderFacts DEF HInv, HandlerTypes, Order, Endings, InFlight, replies, MustWait
<1>6. WireGrows
  BY <1>1, OrderFacts DEF HInv, HandlerTypes, WireGrows, HandlerCall, CallType, replies, MustWait
<1> QED
  BY <1>2, <1>3, <1>4, <1>5, <1>6 DEF HInv

\* The completion of a batch takes its place.
LEMMA BatchDone_step ==
  ASSUME HInv, BatchDone
  PROVE  HInv' /\ WireGrows
<1>1. PICK x : x = call'
  OBVIOUS
<1>2. x \in Completed(call, NewCall, 0, FALSE)
  BY <1>1 DEF BatchDone
<1>3. \E b \in call.out : \E r \in Results(b, NewCall, 0, FALSE) : x = Complete(call, b, r)
  BY <1>2 DEF Completed
<1>4. PICK b \in call.out : \E r \in Results(b, NewCall, 0, FALSE) : call' = Complete(call, b, r)
  BY <1>1, <1>3
<1>5. PICK r \in Results(b, NewCall, 0, FALSE) : call' = Complete(call, b, r)
  BY <1>4
<1>6. b \in HBatches /\ (b = Meta \/ b = Msg \/ b = Close)
  BY OrderFacts, HandlerBatches
<1>7. r = "none"
  BY <1>5, <1>6, HandlerBatches DEF Results
<1>8. PICK e : e = [flags |-> b.flags, result |-> r]
  OBVIOUS
<1>9. IF b = Close THEN e = Closed ELSE e = Sent
  BY <1>6, <1>7, <1>8, HandlerBatches DEF Sent, Closed
<1>10. e \in HEvents /\ e \notin Range(call.cq)
  BY <1>4, <1>6, <1>9, HandlerBatches DEF HInv, InFlight
<1>11. PICK d : d = Complete(call, b, r)
  OBVIOUS
<1>12. /\ d \in HandlerCall
      /\ d.out = call.out \ {b}
      /\ Range(d.cq) = Range(call.cq) \cup {e} /\ Distinct(d.cq)
      /\ d.wire = call.wire /\ d.end = call.end
      /\ d.final_requested = call.final_requested /\ d.error = call.error
  <2>1. call \in CallType(HBatches, HEvents, HEnds) /\ Distinct(call.cq)
    BY OrderFacts DEF HandlerCall
  <2> QED
    BY <1>8, <1>10, <1>11, <2>1, CompleteFields DEF HandlerCall
<1>13. call' = d
  BY <1>5, <1>11
<1>14. UNCHANGED <<alive, finished, batch_in_flight, pending_ops, replies>>
  BY DEF BatchDone
<1>15. HandlerTypes'
  BY <1>4, <1>6, <1>9, <1>12, <1>13, <1>14 DEF HInv, HandlerTypes, replies, MustWait
<1>16. InFlight'
  BY <1>4, <1>6, <1>9, <1>12, <1>13, <1>14, HandlerBatches DEF HInv, HandlerTypes, InFlight, Sending, Endings, Ending, replies, MustWait
<1>17. Endings'
  BY <1>4, <1>6, <1>9, <1>12, <1>13, <1>14, HandlerBatches DEF HInv, HandlerTypes, InFlight, Sending, Endings, Ending, HEnds, replies, MustWait
<1>18. Order'
  BY <1>4, <1>6, <1>9, <1>12, <1>13, <1>14, OrderFacts DEF HInv, HandlerTypes, Order, Endings, InFlight, replies, MustWait
<1>19. WireGrows
  BY <1>4, <1>6, <1>9, <1>12, <1>13, <1>14, OrderFacts DEF HInv, HandlerTypes, WireGrows, HandlerCall, CallType, replies, MustWait
<1> QED
  BY <1>15, <1>16, <1>17, <1>18, <1>19 DEF HInv

\* The handler is deleted when its closing batch is done.
LEMMA exec_closing_step ==
  ASSUME HInv, exec_closing
  PROVE  HInv' /\ WireGrows
<1>1. PICK d : d = TakeEvent(call)
  OBVIOUS
<1>2. /\ d \in HandlerCall
      /\ Head(call.cq) \in Range(call.cq)
      /\ (Head(call.cq) = Sent /\ Head(call.cq).flags = {})
           \/ (Head(call.cq) = Closed /\ Head(call.cq).flags = Closing)
      /\ d.out = call.out
      /\ Range(d.cq) = Range(call.cq) \ {Head(call.cq)} /\ Distinct(d.cq)
      /\ d.wire = call.wire /\ d.end = call.end
      /\ d.final_requested = call.final_requested /\ d.error = call.error
  BY <1>1, HandlerTakes DEF exec_closing, Event
<1>3. Head(call.cq) = Closed
  BY <1>2, HandlerBatches DEF exec_closing, Event
<1>4. /\ alive' = FALSE /\ alive = TRUE /\ call' = d
      /\ UNCHANGED <<finished, batch_in_flight, pending_ops, replies>>
  BY <1>1 DEF exec_closing, HInv, HandlerTypes
<1>5. HandlerTypes'
  BY <1>2, <1>3, <1>4 DEF HInv, HandlerTypes, replies, MustWait
<1>6. InFlight'
  BY <1>2, <1>3, <1>4, HandlerBatches DEF HInv, HandlerTypes, InFlight, Sending, Endings, Ending, replies, MustWait
<1>7. Endings'
  BY <1>2, <1>3, <1>4, HandlerBatches DEF HInv, HandlerTypes, InFlight, Sending, Endings, Ending, HEnds, replies, MustWait
<1>8. Order'
  BY <1>2, <1>3, <1>4, OrderFacts DEF HInv, HandlerTypes, Order, Endings, InFlight, replies, MustWait
<1>9. WireGrows
  BY <1>2, <1>3, <1>4, OrderFacts DEF HInv, HandlerTypes, WireGrows, HandlerCall, CallType, replies, MustWait
<1> QED
  BY <1>5, <1>6, <1>7, <1>8, <1>9 DEF HInv

\* The model drops an event for a handler that was deleted.
LEMMA exec_deleted_step ==
  ASSUME HInv, exec_deleted
  PROVE  HInv' /\ WireGrows
<1>1. PICK d : d = TakeEvent(call)
  OBVIOUS
<1>2. /\ d \in HandlerCall
      /\ Head(call.cq) \in Range(call.cq)
      /\ (Head(call.cq) = Sent /\ Head(call.cq).flags = {})
           \/ (Head(call.cq) = Closed /\ Head(call.cq).flags = Closing)
      /\ d.out = call.out
      /\ Range(d.cq) = Range(call.cq) \ {Head(call.cq)} /\ Distinct(d.cq)
      /\ d.wire = call.wire /\ d.end = call.end
      /\ d.final_requested = call.final_requested /\ d.error = call.error
  BY <1>1, HandlerTakes DEF exec_deleted, Event
<1>3. Head(call.cq) = Sent
  BY <1>2, HandlerBatches DEF exec_deleted, HInv, HandlerTypes, Endings, Ending
<1>4. /\ alive = FALSE /\ call' = d
      /\ UNCHANGED <<alive, finished, batch_in_flight, pending_ops, replies>>
  BY <1>1 DEF exec_deleted, HInv, HandlerTypes
<1>5. HandlerTypes'
  BY <1>2, <1>3, <1>4 DEF HInv, HandlerTypes, replies, MustWait
<1>6. InFlight'
  BY <1>2, <1>3, <1>4, HandlerBatches DEF HInv, HandlerTypes, InFlight, Sending, Endings, Ending, replies, MustWait
<1>7. Endings'
  BY <1>2, <1>3, <1>4, HandlerBatches DEF HInv, HandlerTypes, InFlight, Sending, Endings, Ending, HEnds, replies, MustWait
<1>8. Order'
  BY <1>2, <1>3, <1>4, OrderFacts DEF HInv, HandlerTypes, Order, Endings, InFlight, replies, MustWait
<1>9. WireGrows
  BY <1>2, <1>3, <1>4, OrderFacts DEF HInv, HandlerTypes, WireGrows, HandlerCall, CallType, replies, MustWait
<1> QED
  BY <1>5, <1>6, <1>7, <1>8, <1>9 DEF HInv

\* The worker sends the next reply, or the end, when a batch has been sent.
LEMMA exec_step ==
  ASSUME HInv, exec
  PROVE  HInv' /\ WireGrows
<1>1. PICK d : d = TakeEvent(call)
  OBVIOUS
<1>2. /\ d \in HandlerCall
      /\ Head(call.cq) \in Range(call.cq)
      /\ (Head(call.cq) = Sent /\ Head(call.cq).flags = {})
           \/ (Head(call.cq) = Closed /\ Head(call.cq).flags = Closing)
      /\ d.out = call.out
      /\ Range(d.cq) = Range(call.cq) \ {Head(call.cq)} /\ Distinct(d.cq)
      /\ d.wire = call.wire /\ d.end = call.end
      /\ d.final_requested = call.final_requested /\ d.error = call.error
  BY <1>1, HandlerTakes DEF exec, Event
<1>3. Head(call.cq) = Sent /\ alive
  BY <1>2, HandlerBatches DEF exec, Event
<1>4. /\ batch_in_flight = TRUE /\ Meta \notin call.out /\ Msg \notin call.out
      /\ Sent \notin Range(d.cq) /\ producer # "none"
      /\ (Closed \in Range(d.cq) <=> Closed \in Range(call.cq))
      /\ ended # "fail" => call.end = "none"
  BY <1>2, <1>3, HandlerBatches DEF HInv, HandlerTypes, InFlight, Sending, Endings
<1>5. CASE pending_ops # <<>>
  <2>1. flush(d, pending_ops) /\ UNCHANGED <<alive, finished, producer, pushed, ended>>
    BY <1>1, <1>5 DEF exec, replies
  <2>2. pushed \in Nat /\ Pending(pending_ops, pushed) /\ d \in HandlerCall /\ Msg \notin d.out
    BY <1>2, <1>4 DEF HInv, HandlerTypes, Order
  <2>3. /\ batch_in_flight' = TRUE /\ Pending(pending_ops', pushed) /\ call' \in HandlerCall
        /\ call'.out = d.out \cup {Msg} /\ call'.cq = d.cq /\ call'.end = d.end
        /\ d.end # "none" => call'.wire = d.wire
        /\ d.end = "none" /\ d.wire = Messages(pushed - Len(pending_ops))
             => call'.wire = Messages(pushed - Len(pending_ops')) /\ Len(call'.wire) = Len(d.wire) + 1
        /\ call'.final_requested = d.final_requested /\ call'.error = d.error
    BY <1>5, <2>1, <2>2, FlushFields
  <2>4. HandlerTypes'
    BY <1>2, <2>1, <2>2, <2>3 DEF HInv, HandlerTypes
  <2>5. InFlight' /\ Endings'
    BY <1>2, <1>3, <1>4, <2>1, <2>3, HandlerBatches DEF HInv, InFlight, Sending, Endings, Ending
  <2>6. CASE ended = "fail"
    <3>1. call'.end = call.end /\ call'.wire = call.wire /\ Len(call.wire) \in Nat
      BY <1>2, <2>3, <2>6, OrderFacts DEF HInv, Endings
    <3>2. Order' /\ WireGrows
      BY <2>1, <2>3, <2>6, <3>1 DEF Order, WireGrows
    <3> QED
      BY <2>4, <2>5, <3>2 DEF HInv
  <2>7. CASE ended # "fail"
    <3>1. d.end = "none" /\ d.wire = Messages(pushed - Len(pending_ops))
      BY <1>2, <1>4, <2>7 DEF HInv, Order
    <3>2. Order'
      BY <2>1, <2>3, <3>1 DEF Order
    <3>3. WireGrows
      BY <1>2, <2>3, <3>1, OrderFacts DEF WireGrows
    <3> QED
      BY <2>4, <2>5, <3>2, <3>3 DEF HInv
  <2> QED
    BY <2>6, <2>7
<1>6. CASE pending_ops = <<>> /\ finished
  <2>1. /\ batch_in_flight' = FALSE /\ call' = EndBatch(d, Closing, {"recv_close", "send_status"}, "OK")
        /\ UNCHANGED <<pending_ops, alive, finished, producer, pushed, ended>>
    BY <1>1, <1>6 DEF exec, close_if_finished, send_end, replies
  <2>2. d.end = "none" /\ ~d.final_requested /\ ended = "finish"
    BY <1>2, <1>4, <1>6 DEF HInv, Endings
  <2>3. /\ call' \in HandlerCall
        /\ call'.out = d.out \cup {Close} /\ call'.cq = d.cq /\ call'.end = "OK" /\ call'.wire = d.wire
        /\ call'.final_requested /\ call'.error = d.error
    BY <1>2, <2>1, <2>2, CloseFields
  <2>4. HandlerTypes'
    BY <1>2, <1>3, <1>4, <1>6, <2>1, <2>2, <2>3 DEF HInv, HandlerTypes, replies, MustWait
  <2>5. InFlight'
    BY <1>2, <1>3, <1>4, <1>6, <2>1, <2>2, <2>3, HandlerBatches DEF HInv, HandlerTypes, InFlight, Sending, Endings, Ending, replies, MustWait
  <2>6. Endings'
    BY <1>2, <1>3, <1>4, <1>6, <2>1, <2>2, <2>3, HandlerBatches DEF HInv, HandlerTypes, InFlight, Sending, Endings, Ending, HEnds, replies, MustWait
  <2>7. Order'
    BY <1>2, <1>3, <1>4, <1>6, <2>1, <2>2, <2>3, OrderFacts DEF HInv, HandlerTypes, Order, Endings, InFlight, replies, MustWait
  <2>8. WireGrows
    BY <1>2, <1>3, <1>4, <1>6, <2>1, <2>2, <2>3, OrderFacts DEF HInv, HandlerTypes, WireGrows, HandlerCall, CallType, replies, MustWait
  <2> QED
    BY <2>4, <2>5, <2>6, <2>7, <2>8 DEF HInv
<1>7. CASE pending_ops = <<>> /\ ~finished
  <2>1. /\ batch_in_flight' = FALSE /\ call' = d
        /\ UNCHANGED <<pending_ops, alive, finished, producer, pushed, ended>>
    BY <1>1, <1>7 DEF exec, close_if_finished, replies
  <2>2. HandlerTypes'
    BY <1>2, <1>3, <1>4, <1>7, <2>1 DEF HInv, HandlerTypes, replies, MustWait
  <2>3. InFlight'
    BY <1>2, <1>3, <1>4, <1>7, <2>1, HandlerBatches DEF HInv, HandlerTypes, InFlight, Sending, Endings, Ending, replies, MustWait
  <2>4. Endings'
    BY <1>2, <1>3, <1>4, <1>7, <2>1, HandlerBatches DEF HInv, HandlerTypes, InFlight, Sending, Endings, Ending, HEnds, replies, MustWait
  <2>5. Order'
    BY <1>2, <1>3, <1>4, <1>7, <2>1, OrderFacts DEF HInv, HandlerTypes, Order, Endings, InFlight, replies, MustWait
  <2>6. WireGrows
    BY <1>2, <1>3, <1>4, <1>7, <2>1, OrderFacts DEF HInv, HandlerTypes, WireGrows, HandlerCall, CallType, replies, MustWait
  <2> QED
    BY <2>2, <2>3, <2>4, <2>5, <2>6 DEF HInv
<1> QED
  BY <1>5, <1>6, <1>7

----------------------------------------------------------------------------
\* The session uses the same grpc core.
LEMMA SessionCore ==
  ASSUME NEW c, NEW flags, NEW ops, NEW sends, NEW end
  PROVE  /\ Session!StartBatch(c, flags, ops, sends) = StartBatch(c, flags, ops, sends)
         /\ Session!EndBatch(c, flags, ops, end) = EndBatch(c, flags, ops, end)
         /\ Session!TakeEvent(c) = TakeEvent(c) /\ Session!Queued(c) = Queued(c)
<1>1. Session!Legal(c, ops) = Legal(c, ops)
  BY DEF Session!Legal, Legal, Session!FinalSends, Session!FinalRecvs, FinalSends, FinalRecvs
<1>2. \A s : Session!StartBatch(c, flags, ops, s) = StartBatch(c, flags, ops, s)
  BY <1>1 DEF Session!StartBatch, StartBatch, Session!FinalRecvs, FinalRecvs
<1>3. Session!EndBatch(c, flags, ops, end) = EndBatch(c, flags, ops, end)
  BY <1>1, <1>2 DEF Session!EndBatch, EndBatch
<1>4. Session!TakeEvent(c) = TakeEvent(c)
  BY DEF Session!TakeEvent, TakeEvent
<1>5. Session!Queued(c) = Queued(c)
  BY Zenon DEF Session!Queued, Queued, Session!Cardinality, Cardinality
<1> QED
  BY <1>2, <1>3, <1>4, <1>5

\* The batches and events of the session.
LEMMA SessionBatches ==
  /\ First \in SBatches /\ Recv \in SBatches /\ Last \in SBatches
  /\ First # Recv /\ First # Last /\ Recv # Last
  /\ First.flags = {} /\ First.ops = Session!FirstOps
  /\ Recv.flags = {} /\ Recv.ops = {"recv_message"}
  /\ Last.flags = {} /\ Last.ops = Session!LastOps
  /\ \A b \in SBatches : /\ b = [flags |-> b.flags, ops |-> b.ops] /\ b.flags = {}
                         /\ b = First \/ b = Recv \/ b = Last
  /\ \A e \in SEvents : /\ e.result \in {"message", "null", "OK", "error"}
                        /\ e = Got(e.result)
  /\ \A r \in {"message", "null", "OK", "error"} : Got(r) \in SEvents /\ Got(r).result = r
<1>1. /\ First.flags = {} /\ First.ops = Session!FirstOps
      /\ Recv.flags = {} /\ Recv.ops = {"recv_message"}
      /\ Last.flags = {} /\ Last.ops = Session!LastOps
  BY DEF First, Recv, Last
<1>2. "send_close" \in Last.ops /\ "send_close" \notin First.ops /\ "recv_metadata" \in First.ops
  BY <1>1 DEF Session!FirstOps, Session!LastOps
<1>3. First # Recv /\ First # Last /\ Recv # Last
  BY <1>1, <1>2
<1>4. \A b \in SBatches : /\ b = [flags |-> b.flags, ops |-> b.ops] /\ b.flags = {}
                          /\ b = First \/ b = Recv \/ b = Last
  BY DEF SBatches, First, Recv, Last
<1>5. First \in SBatches /\ Recv \in SBatches /\ Last \in SBatches
  BY DEF SBatches
<1>6. \A r \in {"message", "null", "OK", "error"} : Got(r) \in SEvents /\ Got(r).result = r
  BY DEF SEvents, Got
<1>7. \A e \in SEvents : e.result \in {"message", "null", "OK", "error"} /\ e = Got(e.result)
  BY DEF SEvents, Got
<1> QED
  BY <1>1, <1>3, <1>4, <1>5, <1>6, <1>7

\* The session's part of the invariant.
SInv == SessionTypes /\ OneBatch /\ Heard

\* The worker takes the only event of the session's call.
LEMMA SessionTakes ==
  ASSUME SInv, session_call.cq # <<>>, NEW d, d = TakeEvent(session_call)
  PROVE  /\ d \in SessionCall /\ d.out = session_call.out
         /\ Range(d.cq) = {} /\ Range(session_call.cq) = {Head(session_call.cq)} /\ Distinct(d.cq)
         /\ d.wire = session_call.wire /\ d.end = session_call.end
         /\ d.final_requested = session_call.final_requested /\ d.error = session_call.error
         /\ session_call.out = {} /\ session_alive /\ caller # "starting"
<1>1. session_call \in CallType(SBatches, SEvents, SEnds) /\ Distinct(session_call.cq)
  BY DEF SInv, SessionTypes, SessionCall
<1>2. PICK c : c = session_call
  OBVIOUS
<1>3. /\ d \in CallType(SBatches, SEvents, SEnds)
      /\ Head(c.cq) \in SEvents /\ Head(c.cq) \in Range(c.cq)
      /\ d.out = c.out
      /\ Range(d.cq) = Range(c.cq) \ {Head(c.cq)} /\ Distinct(d.cq)
      /\ d.wire = c.wire /\ d.end = c.end
      /\ d.final_requested = c.final_requested /\ d.error = c.error
  BY <1>1, <1>2, TakeFields
<1>4. Range(c.cq) = {Head(c.cq)} /\ c.out = {} /\ session_alive /\ caller # "starting"
  BY <1>2, <1>3 DEF SInv, SessionTypes, OneBatch
<1> QED
  BY <1>2, <1>3, <1>4 DEF SessionCall

\* A session with nothing outstanding may ask for a reply.
LEMMA SessionLegal ==
  ASSUME NEW c, c.out = {}, c.end = "none"
  PROVE  /\ Legal(c, First.ops) /\ First.ops \cap FinalRecvs = {}
         /\ Legal(c, Recv.ops) /\ Recv.ops \cap FinalRecvs = {}
         /\ First \in SBatches /\ First = [flags |-> First.flags, ops |-> First.ops]
         /\ Recv \in SBatches /\ Recv = [flags |-> Recv.flags, ops |-> Recv.ops]
  BY SessionBatches DEF Legal, FinalSends, FinalRecvs, Session!FirstOps

\* The first batch of a session.
LEMMA session_start_step ==
  ASSUME HInv, SInv, Session!start, UNCHANGED vars
  PROVE  SInv'
<1>1. UNCHANGED call
  BY DEF vars
<1>2. /\ session_call.out = {} /\ Range(session_call.cq) = {} /\ session_alive /\ ~finishing
      /\ session_call \in SessionCall
  BY DEF SInv, SessionTypes, OneBatch, Session!start
<1>3. PICK s : s = <<1>>
  OBVIOUS
<1>4. s \in Seq(Nat)
  BY <1>3
<1>5. PICK d : d = StartBatch(session_call, First.flags, First.ops, s)
  OBVIOUS
<1>6. /\ d \in SessionCall /\ d.out = {First} /\ d.cq = session_call.cq /\ d.end = session_call.end
      /\ d.final_requested = session_call.final_requested /\ d.error = session_call.error
  <2>1. session_call \in CallType(SBatches, SEvents, SEnds)
    BY <1>2 DEF SessionCall
  <2>2. session_call.end = "none"
    BY <1>2 DEF SInv, OneBatch
  <2>3. /\ Legal(session_call, First.ops) /\ First.ops \cap FinalRecvs = {}
        /\ First \in SBatches /\ First = [flags |-> First.flags, ops |-> First.ops]
    BY <1>2, <2>2, SessionLegal
  <2>4. /\ d \in CallType(SBatches, SEvents, SEnds)
        /\ d.out = session_call.out \cup {First} /\ d.cq = session_call.cq /\ d.end = session_call.end
        /\ d.wire = IF session_call.end = "none" THEN session_call.wire \o s ELSE session_call.wire
        /\ d.final_requested = session_call.final_requested /\ d.error = session_call.error
    BY <1>4, <1>5, <2>1, <2>3, StartFields
  <2> QED
    BY <1>2, <2>4 DEF SessionCall
<1>7. /\ session_call' = d /\ caller = "starting" /\ caller' = "started"
      /\ UNCHANGED <<session_alive, finishing, broken, stream, received, crashed>>
  BY <1>3, <1>5, SessionBatches, SessionCore DEF Session!start
<1>8. SessionTypes'
  BY <1>1, <1>2, <1>6, <1>7 DEF SInv, SessionTypes
<1>9. OneBatch'
  BY <1>1, <1>2, <1>6, <1>7, SessionBatches DEF SInv, SessionTypes, OneBatch
<1>10. Heard'
  BY <1>1, <1>2, <1>6, <1>7, SessionBatches DEF SInv, SessionTypes, OneBatch, Heard
<1> QED
  BY <1>8, <1>9, <1>10 DEF SInv

\* A first batch that is refused ends the program.
LEMMA session_start_refused_step ==
  ASSUME HInv, SInv, Session!start_refused, UNCHANGED vars
  PROVE  SInv'
<1>1. UNCHANGED call
  BY DEF vars
<1>2. SessionTypes'
  BY <1>1 DEF Session!start_refused, SInv, SessionTypes
<1>3. OneBatch'
  BY <1>1, SessionBatches DEF Session!start_refused, SInv, SessionTypes, OneBatch
<1>4. Heard'
  BY <1>1, SessionBatches DEF Session!start_refused, SInv, SessionTypes, OneBatch, Heard
<1> QED
  BY <1>2, <1>3, <1>4 DEF SInv

\* The reply stream is allocated.
LEMMA session_get_future_step ==
  ASSUME HInv, SInv, Session!get_future, UNCHANGED vars
  PROVE  SInv'
<1>1. UNCHANGED call
  BY DEF vars
<1>2. SessionTypes'
  BY <1>1 DEF Session!get_future, SInv, SessionTypes
<1>3. OneBatch'
  BY <1>1, SessionBatches DEF Session!get_future, SInv, SessionTypes, OneBatch
<1>4. Heard'
  BY <1>1, SessionBatches DEF Session!get_future, SInv, SessionTypes, OneBatch, Heard
<1> QED
  BY <1>2, <1>3, <1>4 DEF SInv

\* A call that breaks.
LEMMA session_Break_step ==
  ASSUME HInv, SInv, Session!Break, UNCHANGED vars
  PROVE  SInv'
<1>1. UNCHANGED call
  BY DEF vars
<1>2. SessionTypes'
  BY <1>1 DEF Session!Break, SInv, SessionTypes
<1>3. OneBatch'
  BY <1>1, SessionBatches DEF Session!Break, SInv, SessionTypes, OneBatch
<1>4. Heard'
  BY <1>1, SessionBatches DEF Session!Break, SInv, SessionTypes, OneBatch, Heard
<1> QED
  BY <1>2, <1>3, <1>4 DEF SInv

\* The only batch of the session completes with what the handler has put on the wire.
LEMMA session_BatchDone_step ==
  ASSUME HInv, SInv, Session!BatchDone(call), UNCHANGED vars
  PROVE  SInv'
<1>1. UNCHANGED call
  BY DEF vars
<1>2. UNCHANGED <<caller, session_alive, finishing, broken, stream, received, crashed>>
  BY DEF Session!BatchDone
<1>3. PICK b \in session_call.out : \E r \in Session!Results(b, call, received + Queued(session_call), broken) :
          session_call' = Session!Complete(session_call, b, r)
  BY SessionCore DEF Session!BatchDone, Session!Completed
<1>4. PICK r \in Session!Results(b, call, received + Queued(session_call), broken) :
          session_call' = Session!Complete(session_call, b, r)
  BY <1>3
<1>5. /\ session_call \in SessionCall /\ Distinct(session_call.cq) /\ session_call.cq \in Seq(SEvents)
      /\ session_call.out \subseteq SBatches /\ received \in Nat
  BY DEF SInv, SessionTypes, SessionCall, CallType
<1>6. /\ session_call.out = {b} /\ Range(session_call.cq) = {} /\ b.flags = {}
      /\ session_alive /\ caller # "starting"
      /\ IF finishing THEN b = Last ELSE b = First \/ b = Recv
  BY <1>3, <1>5, SessionBatches DEF SInv, OneBatch
<1>7. Queued(session_call) = 0
  BY <1>5, <1>6, QueuedNone
<1>8. r \in Session!Results(b, call, received, broken)
  BY <1>4, <1>5, <1>7
<1>9. IF finishing THEN IF broken THEN r = "error" ELSE r = "OK" /\ call.end # "none"
      ELSE \/ r = "message" /\ received < Len(call.wire)
           \/ r = "null" /\ (broken \/ (call.end # "none" /\ received = Len(call.wire)))
  <2>1. CASE finishing
    <3>1. "recv_status" \in b.ops
      BY <2>1, <1>6, SessionBatches DEF Session!LastOps
    <3>2. call.end \in {"none", "OK"}
      BY DEF HInv, HandlerTypes, HandlerCall, CallType, HEnds
    <3> QED
      BY <2>1, <1>8, <3>1, <3>2 DEF Session!Results
  <2>2. CASE ~finishing
    <3>1. "recv_status" \notin b.ops /\ "recv_message" \in b.ops
      BY <2>2, <1>6, SessionBatches DEF Session!FirstOps
    <3> QED
      BY <2>2, <1>8, <3>1 DEF Session!Results
  <2> QED
    BY <2>1, <2>2
<1>10. PICK e : e = [flags |-> b.flags, result |-> r]
  OBVIOUS
<1>11. r \in {"message", "null", "OK", "error"} /\ e = Got(r) /\ e \in SEvents /\ e \notin Range(session_call.cq)
  BY <1>6, <1>9, <1>10, SessionBatches DEF Got
<1>12. PICK d : d = Complete(session_call, b, r)
  OBVIOUS
<1>13. /\ d \in SessionCall
       /\ d.out = {} /\ Range(d.cq) = {e} /\ Distinct(d.cq)
       /\ d.end = session_call.end
       /\ d.final_requested = session_call.final_requested /\ d.error = session_call.error
  <2>1. session_call \in CallType(SBatches, SEvents, SEnds)
    BY <1>5 DEF SessionCall
  <2>2. /\ d \in CallType(SBatches, SEvents, SEnds)
        /\ d.out = session_call.out \ {b}
        /\ Range(d.cq) = Range(session_call.cq) \cup {e} /\ Distinct(d.cq)
        /\ d.end = session_call.end
        /\ d.final_requested = session_call.final_requested /\ d.error = session_call.error
    BY <1>5, <1>10, <1>11, <1>12, <2>1, CompleteFields
  <2> QED
    BY <1>6, <2>2 DEF SessionCall
<1>14. session_call' = d
  BY <1>4, <1>12 DEF Session!Complete, Complete
<1>15. Got(r).result = r
  BY <1>11, SessionBatches
<1>16. Len(call.wire) \in Nat
  BY OrderFacts
<1>17. SessionTypes'
  BY <1>1, <1>2, <1>5, <1>6, <1>9, <1>11, <1>13, <1>14, <1>15, <1>16 DEF SInv, SessionTypes
<1>18. OneBatch'
  BY <1>1, <1>2, <1>5, <1>6, <1>9, <1>11, <1>13, <1>14, <1>15, <1>16, SessionBatches DEF SInv, SessionTypes, OneBatch
<1>19. Heard'
  BY <1>1, <1>2, <1>5, <1>6, <1>9, <1>11, <1>13, <1>14, <1>15, <1>16, SessionBatches DEF SInv, SessionTypes, OneBatch, Heard
<1> QED
  BY <1>17, <1>18, <1>19 DEF SInv

\* A reply is handed on and the next one asked for.
LEMMA session_exec_reply_step ==
  ASSUME HInv, SInv, Session!exec_reply, UNCHANGED vars
  PROVE  SInv'
<1>1. UNCHANGED call
  BY DEF vars
<1>2. PICK d : d = TakeEvent(session_call)
  OBVIOUS
<1>3. /\ d \in SessionCall /\ d.out = session_call.out
      /\ Range(d.cq) = {} /\ Range(session_call.cq) = {Head(session_call.cq)} /\ Distinct(d.cq)
      /\ d.wire = session_call.wire /\ d.end = session_call.end
      /\ d.final_requested = session_call.final_requested /\ d.error = session_call.error
      /\ session_call.out = {} /\ session_alive /\ caller # "starting"
  BY <1>2, SessionTakes DEF Session!exec_reply, Session!Handles
<1>4. /\ Head(session_call.cq).result = "message" /\ ~finishing
      /\ session_call' = StartBatch(d, {}, {"recv_message"}, <<>>)
      /\ received' = received + 1 /\ stream' = stream
      /\ UNCHANGED <<caller, session_alive, finishing, broken>>
  BY <1>2, SessionCore DEF Session!exec_reply, Session!AskForReply, Session!OnStream
<1>5. crashed' \in {"no", "start", "exec"}
  BY DEF Session!exec_reply, Session!OnStream, SInv, SessionTypes
<1>6. PICK s : s = <<>>
  OBVIOUS
<1>7. s \in Seq(Nat) /\ session_call' = StartBatch(d, Recv.flags, Recv.ops, s)
  BY <1>4, <1>6, SessionBatches
<1>8. /\ session_call' \in SessionCall /\ session_call'.out = {Recv} /\ session_call'.cq = d.cq
      /\ session_call'.end = d.end
      /\ session_call'.final_requested = d.final_requested /\ session_call'.error = d.error
  <2>1. PICK x : x = session_call'
    OBVIOUS
  <2>2. d \in CallType(SBatches, SEvents, SEnds) /\ d.out = {} /\ d.end = "none"
    BY <1>3, <1>4 DEF SInv, OneBatch, SessionCall
  <2>3. /\ Legal(d, Recv.ops) /\ Recv.ops \cap FinalRecvs = {}
        /\ Recv \in SBatches /\ Recv = [flags |-> Recv.flags, ops |-> Recv.ops]
    BY <2>2, SessionLegal
  <2>4. s \in Seq(Nat) /\ x = StartBatch(d, Recv.flags, Recv.ops, s)
    BY <1>7, <2>1
  <2>5. d \in CallType(SBatches, SEvents, SEnds)
    BY <2>2
  <2>6. /\ x \in CallType(SBatches, SEvents, SEnds)
        /\ x.out = d.out \cup {Recv} /\ x.cq = d.cq /\ x.end = d.end
        /\ x.wire = IF d.end = "none" THEN d.wire \o s ELSE d.wire
        /\ x.final_requested = d.final_requested /\ x.error = d.error
    BY <2>3, <2>4, <2>5, StartFields
  <2> QED
    BY <2>1, <2>2, <2>6 DEF SessionCall
<1>9. Head(session_call.cq) = Got("message")
  BY <1>3, <1>4, SessionBatches DEF SInv, OneBatch
<1>10. Len(call.wire) \in Nat
  BY OrderFacts
<1>11. SessionTypes'
  BY <1>1, <1>3, <1>4, <1>5, <1>8, <1>9, <1>10 DEF SInv, SessionTypes
<1>12. OneBatch'
  BY <1>1, <1>3, <1>4, <1>5, <1>8, <1>9, <1>10, SessionBatches DEF SInv, SessionTypes, OneBatch
<1>13. Heard'
  BY <1>1, <1>3, <1>4, <1>5, <1>8, <1>9, <1>10, SessionBatches DEF SInv, SessionTypes, OneBatch, Heard
<1> QED
  BY <1>11, <1>12, <1>13 DEF SInv

\* After the last reply the session asks for the status.
LEMMA session_exec_null_step ==
  ASSUME HInv, SInv, Session!exec_null, UNCHANGED vars
  PROVE  SInv'
<1>1. UNCHANGED call
  BY DEF vars
<1>2. PICK d : d = TakeEvent(session_call)
  OBVIOUS
<1>3. /\ d \in SessionCall /\ d.out = session_call.out
      /\ Range(d.cq) = {} /\ Range(session_call.cq) = {Head(session_call.cq)} /\ Distinct(d.cq)
      /\ d.wire = session_call.wire /\ d.end = session_call.end
      /\ d.final_requested = session_call.final_requested /\ d.error = session_call.error
      /\ session_call.out = {} /\ session_alive /\ caller # "starting"
  BY <1>2, SessionTakes DEF Session!exec_null, Session!Handles
<1>4. /\ Head(session_call.cq).result # "message" /\ ~finishing /\ finishing' = TRUE
      /\ session_call' = EndBatch(d, {}, Session!LastOps, "close")
      /\ UNCHANGED <<caller, session_alive, broken, stream, received, crashed>>
  BY <1>2, SessionCore DEF Session!exec_null, Session!Finishing
<1>5. Head(session_call.cq) = Got("null")
  BY <1>3, <1>4, SessionBatches DEF SInv, OneBatch
<1>6. d.end = "none" /\ ~d.final_requested
  BY <1>3, <1>4 DEF SInv, OneBatch
<1>7. /\ session_call' \in SessionCall /\ session_call'.out = {Last} /\ session_call'.cq = d.cq
      /\ session_call'.end = "close" /\ session_call'.final_requested /\ session_call'.error = d.error
  <2>1. PICK x : x = session_call'
    OBVIOUS
  <2>2. Legal(d, Last.ops) /\ Last.ops \cap FinalRecvs # {}
    <3>1. Last.ops = {"send_close", "recv_status"}
      BY SessionBatches DEF Session!LastOps
    <3>2. d.out = {}
      BY <1>3
    <3> QED
      BY <1>6, <3>1, <3>2 DEF Legal, FinalRecvs
  <2>3. /\ Last \in SBatches /\ Last = [flags |-> Last.flags, ops |-> Last.ops]
        /\ d \in CallType(SBatches, SEvents, SEnds)
        /\ x = EndBatch(d, Last.flags, Last.ops, "close") /\ "close" \in SEnds
    BY <1>3, <1>4, <2>1, SessionBatches DEF SEnds, SessionCall
  <2>4. /\ x \in CallType(SBatches, SEvents, SEnds) /\ x.out = d.out \cup {Last} /\ x.cq = d.cq /\ x.end = "close"
        /\ x.final_requested /\ x.error = d.error
    BY <2>2, <2>3, EndFields
  <2> QED
    BY <1>3, <2>1, <2>4 DEF SessionCall
<1>8. SessionTypes'
  BY <1>1, <1>3, <1>4, <1>5, <1>6, <1>7 DEF SInv, SessionTypes
<1>9. OneBatch'
  BY <1>1, <1>3, <1>4, <1>5, <1>6, <1>7, SessionBatches DEF SInv, SessionTypes, OneBatch
<1>10. Heard'
  BY <1>1, <1>3, <1>4, <1>5, <1>6, <1>7, SessionBatches DEF SInv, SessionTypes, OneBatch, Heard
<1> QED
  BY <1>8, <1>9, <1>10 DEF SInv

\* The status ends the stream and the session.
LEMMA session_exec_last_step ==
  ASSUME HInv, SInv, Session!exec_last, UNCHANGED vars
  PROVE  SInv'
<1>1. UNCHANGED call
  BY DEF vars
<1>2. PICK d : d = TakeEvent(session_call)
  OBVIOUS
<1>3. /\ d \in SessionCall /\ d.out = session_call.out
      /\ Range(d.cq) = {} /\ Range(session_call.cq) = {Head(session_call.cq)} /\ Distinct(d.cq)
      /\ d.wire = session_call.wire /\ d.end = session_call.end
      /\ d.final_requested = session_call.final_requested /\ d.error = session_call.error
      /\ session_call.out = {} /\ session_alive /\ caller # "starting"
  BY <1>2, SessionTakes DEF Session!exec_last, Session!Handles
<1>4. /\ finishing /\ session_call' = d /\ session_alive' = FALSE
      /\ UNCHANGED <<caller, finishing, broken, received>>
  BY <1>2, SessionCore DEF Session!exec_last
<1>5. /\ crashed' \in {"no", "start", "exec"}
      /\ stream' = stream \/ (stream' = "complete" /\ Head(session_call.cq).result = "OK")
                          \/ (stream' = "failed" /\ Head(session_call.cq).result # "OK")
  BY DEF Session!exec_last, Session!OnStream, Session!Outcome, SInv, SessionTypes
<1>6. Head(session_call.cq) = Got("OK") \/ Head(session_call.cq) = Got("error")
  BY <1>3, <1>4 DEF SInv, OneBatch
<1>7. SessionTypes'
  BY <1>1, <1>3, <1>4, <1>5, <1>6 DEF SInv, SessionTypes
<1>8. OneBatch'
  BY <1>1, <1>3, <1>4, <1>5, <1>6, SessionBatches DEF SInv, SessionTypes, OneBatch
<1>9. Heard'
  BY <1>1, <1>3, <1>4, <1>5, <1>6, SessionBatches DEF SInv, SessionTypes, OneBatch, Heard
<1> QED
  BY <1>7, <1>8, <1>9 DEF SInv

----------------------------------------------------------------------------
\* A step of the handler leaves the session what it has heard.
LEMMA HandlerStep ==
  ASSUME IInv, UNCHANGED session,
         perform \/ push \/ finish \/ fail \/ unlock \/ Completions \/ BatchDone
  PROVE  IInv'
<1>1. HInv /\ SInv
  BY DEF IInv, HInv, SInv
<1>2. HInv' /\ WireGrows
  BY <1>1, perform_step, push_step, finish_step, fail_step, unlock_step, exec_step, exec_closing_step,
     exec_deleted_step, BatchDone_step DEF Completions
<1>3. SessionTypes' /\ OneBatch'
  BY <1>1 DEF session, SInv, SessionTypes, OneBatch
<1>4. Len(call.wire) \in Nat /\ Len(call'.wire) \in Nat /\ received \in Nat
  <2>1. call'.wire \in Seq(Nat)
    BY <1>2 DEF HInv, HandlerTypes, HandlerCall, CallType
  <2>2. PICK w : w = call'.wire
    OBVIOUS
  <2>3. Len(w) \in Nat
    BY <2>1, <2>2, LenProperties
  <2> QED
    BY <1>1, <2>2, <2>3, OrderFacts DEF SInv, SessionTypes
<1>5. Heard'
  BY <1>1, <1>2, <1>4 DEF session, SInv, Heard, WireGrows
<1> QED
  BY <1>2, <1>3, <1>5 DEF IInv, HInv

\* A step of the session leaves the handler alone.
LEMMA SessionStep ==
  ASSUME IInv, Client
  PROVE  IInv'
<1>1. HInv /\ SInv
  BY DEF IInv, HInv, SInv
<1>2. UNCHANGED vars
  BY DEF Client
<1>3. SInv'
  BY <1>1, <1>2, session_start_step, session_start_refused_step, session_get_future_step, session_Break_step,
     session_BatchDone_step, session_exec_reply_step, session_exec_null_step, session_exec_last_step
     DEF Client, Session!exec
<1>4. HandlerTypes' /\ InFlight' /\ Endings' /\ Order'
  BY <1>1, <1>2 DEF vars, replies, HInv, HandlerTypes, InFlight, Sending, Endings, Ending, Order
<1> QED
  BY <1>3, <1>4 DEF IInv, SInv

\* The invariant holds of two new calls.
LEMMA InitInv == RpcInit => IInv
<1> SUFFICES ASSUME RpcInit PROVE IInv
  OBVIOUS
<1>1. call = NewCall /\ session_call = NewCall
  <2>1. Session!NewCall = NewCall
    BY DEF Session!NewCall, NewCall
  <2> QED
    BY <2>1 DEF RpcInit, Init, Session!Init
<1>2. /\ NewCall \in HandlerCall /\ NewCall \in SessionCall
      /\ NewCall.out = {} /\ Range(NewCall.cq) = {} /\ Distinct(NewCall.cq)
      /\ NewCall.wire = <<>> /\ NewCall.end = "none"
      /\ ~NewCall.final_requested /\ ~NewCall.error
  BY NewFields DEF HandlerCall, SessionCall, HEnds, SEnds
<1>3. /\ alive = TRUE /\ finished = FALSE /\ batch_in_flight = FALSE
      /\ pending_ops = <<>> /\ producer = "none" /\ pushed = 0 /\ ended = "no"
      /\ caller = "starting" /\ session_alive = TRUE /\ finishing = FALSE
      /\ broken = FALSE /\ stream = "null" /\ received = 0 /\ crashed = "no"
  BY DEF RpcInit, Init, Session!Init
<1>4. HandlerTypes
  BY <1>1, <1>2, <1>3 DEF HandlerTypes
<1>5. InFlight /\ Endings
  BY <1>1, <1>2, <1>3 DEF InFlight, Sending, Endings, Ending
<1>6. Order
  <2>1. Messages(0) = <<>>
    BY DEF Messages
  <2>2. Pending(pending_ops, pushed)
    BY <1>3 DEF Pending
  <2> QED
    BY <1>1, <1>2, <1>3, <2>1, <2>2 DEF Order
<1>7. SessionTypes
  BY <1>1, <1>2, <1>3 DEF SessionTypes
<1>8. OneBatch
  BY <1>1, <1>2, <1>3 DEF OneBatch
<1>9. Heard
  BY <1>1, <1>2, <1>3 DEF Heard
<1> QED
  BY <1>4, <1>5, <1>6, <1>7, <1>8, <1>9 DEF IInv

\* Every step of either side keeps the invariant.
LEMMA InvStep == IInv /\ [RpcNext]_all => IInv'
<1> SUFFICES ASSUME IInv, [RpcNext]_all PROVE IInv'
  OBVIOUS
<1>1. CASE Arrives \/ Handler
  BY <1>1, HandlerStep DEF Arrives, Handler
<1>2. CASE Client
  BY <1>2, SessionStep
<1>3. CASE UNCHANGED all
  <2>1. UNCHANGED vars /\ UNCHANGED session
    BY <1>3 DEF all
  <2> QED
    BY <2>1 DEF vars, replies, session, IInv, HandlerTypes, InFlight, Sending, Endings, Ending, Order,
                SessionTypes, OneBatch, Heard
<1> QED
  BY <1>1, <1>2, <1>3 DEF RpcNext, Done

----------------------------------------------------------------------------
\* The invariant holds in every state, for any number of replies.
THEOREM Invariant == RpcSpec => []IInv
  BY InitInv, InvStep, PTL DEF RpcSpec

\* grpc core never refuses a batch of the handler: the assertions on the status of
\* start_batch in perform, flush_, send_end and fail hold.
THEOREM HandlerNotRefused == RpcSpec => []NoRefusedBatch
<1>1. IInv => NoRefusedBatch
  BY DEF IInv, HandlerTypes, NoRefusedBatch
<1> QED
  BY <1>1, Invariant, PTL

\* push, finish and exec put every reply on the wire in the order of push, and the
\* status of a stream that finished after the last of them.
THEOREM StatusAfterReplies == RpcSpec => []RepliesThenStatus
<1>1. ASSUME IInv, ended # "fail", call.end # "none"
      PROVE  ended = "finish" /\ Len(pending_ops) = 0 /\ pushed - Len(pending_ops) = pushed
  BY <1>1 DEF IInv, HandlerTypes, InFlight, Endings
<1>2. IInv => RepliesThenStatus
  BY <1>1 DEF IInv, Order, RepliesThenStatus
<1> QED
  BY <1>2, Invariant, PTL

\* No completion is left for a handler that exec_closing has deleted, nor a batch that
\* would cause one, unless fail started the closing batch beside another.
THEOREM DeletedLast == RpcSpec => []NoEventAfterDelete
<1>1. ASSUME IInv, ~alive, ended # "fail" PROVE Quiescent(call)
  <2>1. ended = "finish" /\ ~batch_in_flight /\ ~Sending /\ ~Ending
    BY <1>1 DEF IInv, HandlerTypes, InFlight, Endings
  <2>2. call.out \subseteq HBatches /\ call.cq \in Seq(HEvents) /\ Range(call.cq) \subseteq HEvents
    BY <1>1, OrderFacts DEF IInv, HInv
  <2>3. call.out = {} /\ Range(call.cq) = {}
    BY <2>1, <2>2, HandlerBatches DEF Sending, Ending
  <2> QED
    BY <2>2, <2>3, NoEvents DEF Quiescent
<1>2. IInv => NoEventAfterDelete
  BY <1>1 DEF NoEventAfterDelete
<1> QED
  BY <1>2, Invariant, PTL

\* Streaming_call_session is deleted exactly when grpc core is done with it, and none
\* of its batches is refused.
THEOREM SessionIsSafe == RpcSpec => []SessionSafe
<1>1. ASSUME IInv, ~session_alive PROVE Session!Quiescent(session_call) /\ session_call.final_requested
  <2>1. /\ session_call.out = {} /\ Range(session_call.cq) = {} /\ session_call.final_requested
        /\ session_call.cq \in Seq(SEvents)
    BY <1>1 DEF IInv, SessionTypes, OneBatch, SessionCall, CallType
  <2> QED
    BY <2>1, NoEvents DEF Session!Quiescent
<1>2. IInv => SessionSafe
  BY <1>1 DEF IInv, SessionTypes, SessionSafe, Session!Safe
<1> QED
  BY <1>2, Invariant, PTL

\* A stream the client sees complete has every reply that was pushed before finish, and
\* one that it sees fail belongs to a call that broke.
THEOREM ClientSeesAll == RpcSpec => []EndToEnd
<1>1. ASSUME IInv, stream = "complete", ended # "fail" PROVE ended = "finish" /\ received = pushed
  <2>1. call.end # "none" /\ received = Len(call.wire)
    BY <1>1 DEF IInv, Heard
  <2>2. ended = "finish" /\ Len(pending_ops) = 0 /\ pushed \in Nat
    BY <1>1, <2>1 DEF IInv, HandlerTypes, InFlight, Endings
  <2>3. call.wire = Messages(pushed)
    BY <1>1, <2>2 DEF IInv, Order
  <2> QED
    BY <2>1, <2>2, <2>3, MessagesNext
<1>2. IInv => EndToEnd
  BY <1>1 DEF IInv, Heard, EndToEnd
<1> QED
  BY <1>2, Invariant, PTL
=============================================================================
