--------------------------- MODULE BidirStreaming ---------------------------
(***************************************************************************)
(* Bidir_streaming_call_handler (server/methods/bidir_streaming.h): the    *)
(* server side of a bidirectional call, from perform to the deletion of    *)
(* the handler.                                                            *)
(*                                                                         *)
(* The worker of the completion queue runs perform and exec; the thread    *)
(* that produces the replies runs push and, once, finish or fail.  exec    *)
(* holds mtx_ up to its last access to the handler, and so do push, finish *)
(* and fail: each is one step.  perform is two, because the reply stream   *)
(* is attached, and may push or end, before the handshake is started.      *)
(***************************************************************************)
EXTENDS GrpcCall

CONSTANTS MaxPush   \* bound on the number of replies
ASSUME MaxPushAssumption == MaxPush \in Nat

VARIABLES
  phase,          \* of perform: "new", "attached" or "performed"
  alive,         \* the handler is not deleted
  finished,       \* finished_
  ready_to_send,  \* ready_to_send_
  pending_ops,    \* pending_ops_, by the number of the reply
  call,           \* call_, see GrpcCall
  reader,         \* reader_prom_: "null", "open", "complete" or "failed"
  read,           \* number of requests pushed to it
  pushed,         \* number of replies pushed so far
  ended           \* how the reply stream ended: "no", "finish" or "fail"

sending == <<finished, ready_to_send, pending_ops>>
reading == <<reader, read>>
replies == <<pushed, ended>>
vars    == <<phase, alive, sending, call, reading, replies>>

Recv      == {0}   \* completion_tag(1)
Send      == {1}   \* completion_tag(2)
Closing   == {2}   \* completion_tag(4)
Handshake == {3}   \* completion_tag(8)

Init ==
  /\ phase = "new" /\ alive = TRUE /\ finished = FALSE /\ ready_to_send = FALSE
  /\ pending_ops = <<>> /\ call = NewCall /\ reader = "null"
  /\ pushed = 0 /\ ended = "no"
  /\ read = 0

----------------------------------------------------------------------------
\* perform up to the attachment of the reply stream.
perform_attach ==
  /\ phase = "new"
  /\ phase' = "attached" /\ reader' = "open"
  /\ UNCHANGED <<alive, sending, call, read, replies>>

\* The rest of perform: send the initial metadata.
perform_handshake ==
  /\ phase = "attached"
  /\ phase' = "performed"
  /\ call' = StartBatch(call, Handshake, {"send_metadata"}, <<>>)
  /\ UNCHANGED <<alive, sending, reading, replies>>

\* A bug: the newest pending reply is sent, not the oldest.
front_mutant(ops) == ops[Len(ops)]

front(ops) == Head(ops)

\* flush_ when ready_to_send_.
flush(c, ops) ==
  /\ ready_to_send' = FALSE
  /\ pending_ops' = Tail(ops)
  /\ call' = StartBatch(c, Send, {"send_message"}, <<front(ops)>>)

\* send_server_end; op_send_status is given no code, which is GRPC_STATUS_OK.
send_server_end(c) == EndBatch(c, Closing, {"recv_close", "send_status"}, "OK")

\* A bug: the producer does not look at ready_to_send_.
MaySend_mutant == TRUE

\* The producer may start a batch itself.
MaySend == ready_to_send

\* The reply stream is attached and has not ended.
Streaming == phase # "new" /\ ended = "no"

\* push: the for_each callback of the reply stream.
push ==
  /\ Streaming /\ pushed < MaxPush
  /\ pushed' = pushed + 1
  /\ LET ops == Append(pending_ops, pushed + 1)
     IN  IF MaySend THEN flush(call, ops)
                    ELSE pending_ops' = ops /\ UNCHANGED <<ready_to_send, call>>
  /\ UNCHANGED <<phase, alive, finished, reading, ended>>

\* finish: the reply stream was completed.
finish ==
  /\ Streaming
  /\ finished' = TRUE /\ ended' = "finish"
  /\ call' = IF MaySend THEN send_server_end(call) ELSE call
  /\ UNCHANGED <<phase, alive, ready_to_send, pending_ops, reading, pushed>>

\* fail: the reply stream failed.  Its batch has no flag, and its
\* op_send_status no code.
fail ==
  /\ Streaming
  /\ ended' = "fail"
  /\ call' = EndBatch(call, {}, {"send_status", "recv_close"}, "OK")
  /\ UNCHANGED <<phase, alive, sending, reading, pushed>>

----------------------------------------------------------------------------
\* grpc core completes a batch; from is the client's side of the call, and
\* cancelled says whether the call was cancelled or lost.  The status the server
\* sends cuts off a receive as well.
BatchDone(from, cancelled) ==
  /\ call' \in Completed(call, from, read + Queued(call), cancelled \/ call.end # "none")
  /\ UNCHANGED <<phase, alive, sending, reading, replies>>

----------------------------------------------------------------------------
\* exec can run on an event with these flags: the worker is not in perform.
Handles(flags) == alive /\ phase = "performed" /\ Event(call, flags)

AskForRequest(c) == StartBatch(c, Recv, {"recv_message"}, <<>>)

\* exec on the handshake: start sending, start receiving.  finished_ is not
\* looked at.
exec_handshake ==
  /\ Handles(Handshake)
  /\ LET c == AskForRequest(TakeEvent(call))
     IN  IF pending_ops # <<>>
           THEN flush(c, pending_ops)
           ELSE ready_to_send' = TRUE /\ call' = c /\ UNCHANGED pending_ops
  /\ UNCHANGED <<phase, alive, finished, reading, replies>>

\* A bug: exec forgets a reply stream that ended while a reply was sent.
close_if_finished_mutant(c) == c

\* The else branch of exec on a reply that was sent.
close_if_finished(c) == IF finished THEN send_server_end(c) ELSE c

\* exec on a reply that was sent: send the next one, or close.
exec_send ==
  /\ Handles(Send)
  /\ IF pending_ops # <<>>
       THEN flush(TakeEvent(call), pending_ops)
       ELSE /\ ready_to_send' = TRUE
            /\ call' = close_if_finished(TakeEvent(call))
            /\ UNCHANGED pending_ops
  /\ UNCHANGED <<phase, alive, finished, reading, replies>>

\* A bug: a receive that brought no request is started again.
AfterRequests_mutant(c) == AskForRequest(c)

\* What exec starts without a payload.
AfterRequests(c) == c

\* exec on a receive: ask for the next request and push this one, or complete
\* the reader.  mtx_ is released before reader_prom_ runs the method's code.
exec_recv ==
  /\ Handles(Recv)
  /\ IF Head(call.cq).result = "message"
       THEN /\ call' = AskForRequest(TakeEvent(call))
            /\ read' = read + 1 /\ UNCHANGED reader
       ELSE /\ call' = AfterRequests(TakeEvent(call))
            /\ reader' = "complete" /\ UNCHANGED read
  /\ UNCHANGED <<phase, alive, sending, replies>>

\* exec on the batch of fail does nothing.
exec_none ==
  /\ Handles({})
  /\ call' = TakeEvent(call)
  /\ UNCHANGED <<phase, alive, sending, reading, replies>>

\* exec on the closing completion: worker_main deletes the handler, and a
\* reader_prom_ that is still open fails its future.
exec_closing ==
  /\ Handles(Closing)
  /\ alive' = FALSE
  /\ reader' = IF reader = "open" THEN "failed" ELSE reader
  /\ call' = TakeEvent(call)
  /\ UNCHANGED <<phase, sending, read, replies>>

\* A completion for a handler that was deleted; see ServerStreaming.
exec_deleted ==
  /\ ~alive /\ call.cq # <<>>
  /\ call' = TakeEvent(call)
  /\ UNCHANGED <<phase, alive, sending, reading, replies>>

\* What the worker does, except for exec_recv, in which the method's code runs.
WorkerAlone == \/ perform_attach \/ perform_handshake \/ exec_handshake \/ exec_send
               \/ exec_none \/ exec_closing \/ exec_deleted

----------------------------------------------------------------------------
\* Properties.

\* grpc core never refuses a batch: one reply is sent at a time, one request
\* received at a time and the call closed once.
NoRefusedBatch == ~call.error

\* The client is sent the replies in the order of push, and the status of a
\* stream that finished after the last of them.
RepliesThenStatus ==
  ended # "fail" =>
    /\ call.wire = Messages(pushed - Len(pending_ops))
    /\ call.end # "none" => ended = "finish" /\ call.wire = Messages(pushed)

\* A handler that is deleted after its reader was completed leaves no batch
\* and no completion behind that carries its address.
NoEventAfterDelete == (~alive /\ reader = "complete") => Quiescent(call)
=============================================================================
