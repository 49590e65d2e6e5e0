-------------------------- MODULE ClientStreaming --------------------------
(***************************************************************************)
(* Client_streaming_call_handler (server/methods/client_streaming.h): the  *)
(* server side of a client-streaming call, from perform to the deletion of *)
(* the handler.                                                            *)
(*                                                                         *)
(* There is no mutex.  The worker of the completion queue runs perform and *)
(* exec; the thread that resolves the method's future runs finish, which   *)
(* only reads call_.  Nothing ties the reply to the end of the requests: a *)
(* method may reply while a receive is outstanding.                        *)
(***************************************************************************)
EXTENDS GrpcCall

VARIABLES
  alive,     \* the handler is not deleted
  call,       \* call_, see GrpcCall
  reader,     \* reader_prom_: "null" (no storage), "open", "complete", "failed"
  read,       \* number of requests pushed to it
  reply       \* what the method's future was resolved with, or "none"

\* The flags of the batch with the reply, std::bitset<4>(true).
Closing == {0}

Init ==
  /\ alive = TRUE /\ call = NewCall
  /\ reader = "null" /\ read = 0 /\ reply = "none"

----------------------------------------------------------------------------
\* A bug: the first request is not asked for.
FirstOps_mutant == {"send_metadata"}

FirstOps == {"send_metadata", "recv_message"}

\* perform: run the method on the future of reader_prom_, send the metadata
\* and ask for the first request; finally is attached after that.
perform ==
  /\ reader = "null"
  /\ reader' = "open"
  /\ call' = StartBatch(call, {}, FirstOps, <<>>)
  /\ UNCHANGED <<alive, read, reply>>

\* A bug: the final batch is not marked with flag 0.
ReplyFlags_mutant == {}

ReplyFlags == Closing

\* finish, when the method's future is resolved: send_unary_response or
\* send_failure.
finish ==
  /\ reader # "null" /\ reply = "none"
  /\ \/ /\ reply' = "value"
        /\ call' = EndBatch(call, ReplyFlags, {"send_message", "send_status", "recv_close"}, "OK")
     \/ /\ reply' = "error"
        /\ call' = EndBatch(call, ReplyFlags, {"send_status", "recv_close"}, "error")
  /\ UNCHANGED <<alive, reader, read>>

----------------------------------------------------------------------------
\* grpc core completes a batch; from is the client's side of the call, and
\* cancelled says whether the call was cancelled or lost.  The status the server
\* sends cuts off a receive as well.
BatchDone(from, cancelled) ==
  /\ call' \in Completed(call, from, read + Queued(call), cancelled \/ call.end # "none")
  /\ UNCHANGED <<alive, reader, read, reply>>

\* exec with a payload: ask for the next request, push this one.
exec_request ==
  /\ alive /\ Event(call, {}) /\ Head(call.cq).result = "message"
  /\ call' = StartBatch(TakeEvent(call), {}, {"recv_message"}, <<>>)
  /\ read' = read + 1
  /\ UNCHANGED <<alive, reader, reply>>

\* A bug: the receive is started again although there is no more request.
AfterRequests_mutant(c) == StartBatch(c, {}, {"recv_message"}, <<>>)

\* What exec starts without a payload.
AfterRequests(c) == c

\* exec without a payload completes the stream; cancelled_ is not looked at.
exec_null ==
  /\ alive /\ Event(call, {}) /\ Head(call.cq).result # "message"
  /\ reader' = "complete"
  /\ call' = AfterRequests(TakeEvent(call))
  /\ UNCHANGED <<alive, read, reply>>

\* exec on the final completion returns true: worker_main deletes the handler,
\* and a reader_prom_ that is still open fails its future.
exec_closing ==
  /\ alive /\ Event(call, Closing)
  /\ alive' = FALSE
  /\ reader' = IF reader = "open" THEN "failed" ELSE reader
  /\ call' = TakeEvent(call)
  /\ UNCHANGED <<read, reply>>

\* A completion for a handler that was deleted; see ServerStreaming.
exec_deleted ==
  /\ ~alive /\ call.cq # <<>>
  /\ call' = TakeEvent(call)
  /\ UNCHANGED <<alive, reader, read, reply>>

Worker == perform \/ exec_request \/ exec_null \/ exec_closing \/ exec_deleted

----------------------------------------------------------------------------
\* Properties.

\* grpc core never refuses a batch: no receive is asked for while another one
\* is outstanding and the call is ended once, whatever the two threads do.  A
\* handler that is deleted after its reader was completed leaves no batch and
\* no completion behind that carries its address.
Safe == ~call.error /\ ((~alive /\ reader = "complete") => Quiescent(call))
=============================================================================
