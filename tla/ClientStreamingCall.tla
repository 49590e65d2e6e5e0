------------------------ MODULE ClientStreamingCall ------------------------
(***************************************************************************)
(* Client_streaming_call_session (client/stub_impl.h): the client side of  *)
(* a client-streaming call, from its constructor to its deletion.          *)
(*                                                                         *)
(* The thread that owns the request stream runs the for_each and finally   *)
(* lambdas, the worker of the completion queue runs exec.  Both do all of  *)
(* their work under mtx_, so each is one step.  The constructor is not: it *)
(* starts the metadata batch first and sets batch_in_flight_ afterwards,   *)
(* without the mutex, and exec can come in between.                        *)
(***************************************************************************)
EXTENDS GrpcCall

CONSTANTS MaxPush   \* bound on the number of requests
ASSUME MaxPushAssumption == MaxPush \in Nat

VARIABLES
  alive,            \* the session is not deleted
  batch_in_flight,  \* batch_in_flight_
  finished,         \* finished_
  end_sent,         \* end_sent_
  pending_ops,      \* pending_ops_, by the number of the request
  call,             \* call_, see GrpcCall
  caller,           \* the owner of the request stream: "constructing",
                    \* "streaming" or "done"
  pushed,           \* number of requests pushed so far
  broken,           \* the deadline has passed, or the connection is lost
  rep,              \* rep_: "none", "value" or "error"
  overtaken         \* history: exec has run before the constructor was done

requests == <<caller, pushed>>
reply_vars == <<broken, rep>>
vars == <<alive, batch_in_flight, finished, end_sent, pending_ops, call,
          requests, reply_vars, overtaken>>

MetadataOps == {"send_metadata", "recv_metadata"}
EndOps == {"send_close", "recv_message", "recv_status"}

\* The constructor up to the return of start_batch.
Init ==
  /\ alive = TRUE /\ batch_in_flight = FALSE /\ finished = FALSE /\ end_sent = FALSE
  /\ pending_ops = <<>>
  /\ call = StartBatch(NewCall, {}, MetadataOps, <<>>)
  /\ caller = "constructing" /\ pushed = 0
  /\ broken = FALSE /\ rep = "none" /\ overtaken = FALSE

----------------------------------------------------------------------------
\* The rest of the constructor; start_client_streaming_call returns.
ConstructorEnds ==
  /\ caller = "constructing"
  /\ batch_in_flight' = TRUE
  /\ caller' = "streaming"
  /\ UNCHANGED <<alive, finished, end_sent, pending_ops, call, pushed, reply_vars, overtaken>>

\* A bug: the newest pending request is sent, not the oldest.
front_mutant(ops) == ops[Len(ops)]

front(ops) == Head(ops)

\* flush_ with no batch in flight.
flush(c, ops) ==
  /\ batch_in_flight' = TRUE
  /\ pending_ops' = Tail(ops)
  /\ call' = StartBatch(c, {}, {"send_message"}, <<front(ops)>>)

\* A bug: the owner of the stream does not look at batch_in_flight_.
MustWait_mutant == FALSE

\* The owner of the stream leaves the next batch to exec.
MustWait == batch_in_flight

\* The for_each lambda.
push ==
  /\ caller = "streaming" /\ pushed < MaxPush
  /\ pushed' = pushed + 1
  /\ LET ops == Append(pending_ops, pushed + 1)
     IN  IF MustWait THEN pending_ops' = ops /\ UNCHANGED <<batch_in_flight, call>>
                     ELSE flush(call, ops)
  /\ UNCHANGED <<alive, finished, end_sent, caller, reply_vars, overtaken>>

\* send_end: close the sending side, ask for the reply and the status.
send_end(c) == call' = EndBatch(c, {}, EndOps, "close") /\ end_sent' = TRUE

\* The finally lambda, whichever way the request stream ended.
finish ==
  /\ caller = "streaming"
  /\ finished' = TRUE /\ caller' = "done"
  /\ IF MustWait THEN UNCHANGED <<call, end_sent>> ELSE send_end(call)
  /\ UNCHANGED <<alive, batch_in_flight, pending_ops, pushed, reply_vars, overtaken>>

----------------------------------------------------------------------------
\* The call breaks before its status has come.
Break ==
  /\ alive /\ ~broken
  /\ broken' = TRUE
  /\ UNCHANGED <<alive, batch_in_flight, finished, end_sent, pending_ops, call, requests, rep, overtaken>>

\* grpc core completes a batch; from is the handler's side of the call.
BatchDone(from) ==
  /\ call' \in Completed(call, from, 0, broken)
  /\ UNCHANGED <<alive, batch_in_flight, finished, end_sent, pending_ops, requests, reply_vars, overtaken>>

\* A bug: the completion of a request is taken for the one of the end.
EndHandled_mutant == finished

\* The completion exec handles, with nothing pending, is the one of send_end.
EndHandled == finished /\ end_sent

\* A bug: requests that ended while a batch was in flight are not closed.
MustClose_mutant == FALSE

MustClose == finished /\ ~EndHandled

\* exec, under mtx_: send on, or resolve the reply and go, or end the call.
exec ==
  /\ alive /\ Event(call, {})
  /\ overtaken' = (overtaken \/ caller = "constructing")
  /\ LET c == TakeEvent(call) IN
     \/ /\ pending_ops # <<>> /\ flush(c, pending_ops)
        /\ UNCHANGED <<alive, rep, end_sent>>
     \/ /\ pending_ops = <<>> /\ EndHandled
        /\ rep' = IF Head(call.cq).result = "OK" THEN "value" ELSE "error"
        /\ alive' = FALSE /\ batch_in_flight' = FALSE /\ call' = c
        /\ UNCHANGED <<pending_ops, end_sent>>
     \/ /\ pending_ops = <<>> /\ ~EndHandled
        /\ IF MustClose THEN send_end(c) ELSE call' = c /\ UNCHANGED end_sent
        /\ batch_in_flight' = FALSE
        /\ UNCHANGED <<pending_ops, alive, rep>>
  /\ UNCHANGED <<finished, requests, broken>>

----------------------------------------------------------------------------
\* Properties.

\* grpc core never refuses a batch: the assertions in flush_ and send_end hold.
NoRefusedBatch == ~call.error

\* The server is sent the requests in the order of push, and the end of the
\* stream after the last of them.
RequestsThenClose ==
  /\ call.wire = Messages(pushed - Len(pending_ops))
  /\ call.end # "none" => finished /\ call.wire = Messages(pushed)

\* When the session is deleted every request has been handed to grpc core (the
\* assertion in its destructor), its stream is closed, and no completion that
\* carries its address is left.
DeletedWhenDone ==
  ~alive => pending_ops = <<>> /\ call.end = "close" /\ Quiescent(call)
=============================================================================
