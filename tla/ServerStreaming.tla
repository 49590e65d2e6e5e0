-------------------------- MODULE ServerStreaming --------------------------
(***************************************************************************)
(* Server_streaming_call_handler (server/methods/server_streaming.h): one  *)
(* server-streaming call, from perform to the deletion of the handler.     *)
(*                                                                         *)
(* Two threads meet in the handler: the worker of the completion queue,    *)
(* which runs exec on every completion, and whichever thread produces the  *)
(* reply stream, which runs push and, once, finish or fail (StreamStorage  *)
(* shows that these calls come one at a time and in this order).  Both     *)
(* hold mtx_ while they work, except for exec on the closing completion,   *)
(* which does not touch mtx_; finish and fail, which can be overtaken by   *)
(* it, start the closing batch in one step and leave mtx_ in the next.     *)
(***************************************************************************)
EXTENDS GrpcCall

CONSTANTS MaxPush   \* bound on the number of replies
ASSUME MaxPushAssumption == MaxPush \in Nat

VARIABLES
  alive,            \* the handler is not deleted
  finished,         \* finished_
  batch_in_flight,  \* batch_in_flight_
  pending_ops,      \* pending_ops_, by the number of the reply
  call,             \* call_, see GrpcCall
  producer,         \* "none", "streaming", "unlocking" (still in mtx_), "done"
  pushed,           \* number of replies pushed so far
  ended             \* how the stream ended: "no", "finish" or "fail"

replies == <<producer, pushed, ended>>
vars == <<alive, finished, batch_in_flight, pending_ops, call, replies>>

\* The flags of the closing batch, completion_tag(1).
Closing == {0}

Init ==
  /\ alive = TRUE /\ finished = FALSE /\ batch_in_flight = FALSE
  /\ pending_ops = <<>> /\ call = NewCall
  /\ producer = "none" /\ pushed = 0 /\ ended = "no"

----------------------------------------------------------------------------
\* perform, on the worker: send the initial metadata, run the method.
perform ==
  /\ producer = "none"
  /\ batch_in_flight' = TRUE
  /\ call' = StartBatch(call, {}, {"send_metadata"}, <<>>)
  /\ producer' = "streaming"
  /\ UNCHANGED <<alive, finished, pending_ops, pushed, ended>>

\* A bug: the newest pending reply is sent, not the oldest.
front_mutant(ops) == ops[Len(ops)]

front(ops) == Head(ops)

\* flush_ with no batch in flight: send the oldest pending reply.
flush(c, ops) ==
  /\ batch_in_flight' = TRUE
  /\ pending_ops' = Tail(ops)
  /\ call' = StartBatch(c, {}, {"send_message"}, <<front(ops)>>)

\* A bug: the producer does not look at batch_in_flight_.
MustWait_mutant == FALSE

\* The producer leaves the next batch to exec.
MustWait == batch_in_flight

\* push, under mtx_.
push ==
  /\ producer = "streaming" /\ pushed < MaxPush
  /\ pushed' = pushed + 1
  /\ LET ops == Append(pending_ops, pushed + 1)
     IN  IF MustWait THEN pending_ops' = ops /\ UNCHANGED <<batch_in_flight, call>>
                     ELSE flush(call, ops)
  /\ UNCHANGED <<alive, finished, producer, ended>>

\* send_end: op_send_status is given no code, which is GRPC_STATUS_OK.
send_end(c) == EndBatch(c, Closing, {"recv_close", "send_status"}, "OK")

\* finish, under mtx_ up to its release.
finish ==
  /\ producer = "streaming"
  /\ finished' = TRUE /\ ended' = "finish" /\ producer' = "unlocking"
  /\ call' = IF MustWait THEN call ELSE send_end(call)
  /\ UNCHANGED <<alive, batch_in_flight, pending_ops, pushed>>

\* fail, under mtx_ up to its release; perform calls it too when the method
\* throws.  It looks neither at batch_in_flight_ nor at pending_ops_, and its
\* op_send_status is given no code either.
fail ==
  /\ producer = "streaming"
  /\ ended' = "fail" /\ producer' = "unlocking"
  /\ call' = EndBatch(call, Closing, {"send_status", "recv_close"}, "OK")
  /\ UNCHANGED <<alive, finished, batch_in_flight, pending_ops, pushed>>

\* The lock_guard of finish or fail releases mtx_.
unlock ==
  /\ producer = "unlocking"
  /\ producer' = "done"
  /\ UNCHANGED <<alive, finished, batch_in_flight, pending_ops, call, pushed, ended>>

----------------------------------------------------------------------------
\* grpc core completes an outstanding batch.
BatchDone ==
  /\ call' \in Completed(call, NewCall, 0, FALSE)
  /\ UNCHANGED <<alive, finished, batch_in_flight, pending_ops, replies>>

\* A bug: exec forgets a stream that ended while the batch was in flight.
close_if_finished_mutant(c) == c

\* The else branch of exec.
close_if_finished(c) == IF finished THEN send_end(c) ELSE c

\* exec on the completion of the metadata or of a message, under mtx_.
exec ==
  /\ alive /\ Event(call, {}) /\ producer # "unlocking"
  /\ \/ pending_ops # <<>> /\ flush(TakeEvent(call), pending_ops)
     \/ /\ pending_ops = <<>>
        /\ batch_in_flight' = FALSE
        /\ call' = close_if_finished(TakeEvent(call))
        /\ UNCHANGED pending_ops
  /\ UNCHANGED <<alive, finished, replies>>

\* exec on the closing completion returns true: worker_main deletes the handler.
exec_closing ==
  /\ alive /\ Event(call, Closing)
  /\ alive' = FALSE
  /\ call' = TakeEvent(call)
  /\ UNCHANGED <<finished, batch_in_flight, pending_ops, replies>>

\* A completion for a handler that was deleted.  What worker_main does with
\* the dangling pointer is undefined; the model drops the event.
exec_deleted ==
  /\ ~alive /\ call.cq # <<>>
  /\ call' = TakeEvent(call)
  /\ UNCHANGED <<alive, finished, batch_in_flight, pending_ops, replies>>

Completions == exec \/ exec_closing \/ exec_deleted

----------------------------------------------------------------------------
\* Properties.

\* grpc core never refuses a batch: the assertions on the status of
\* start_batch in perform, flush_, send_end and fail hold.
NoRefusedBatch == ~call.error

\* The client is sent the replies in the order of push, and the status of a
\* stream that finished after the last of them.
RepliesThenStatus ==
  ended # "fail" =>
    /\ call.wire = Messages(pushed - Len(pending_ops))
    /\ call.end # "none" => ended = "finish" /\ call.wire = Messages(pushed)

\* Unless fail cut in, no completion is left for a handler that was deleted,
\* nor a batch that would cause one.
NoEventAfterDelete == (~alive /\ ended # "fail") => Quiescent(call)
=============================================================================
