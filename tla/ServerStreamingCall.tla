------------------------ MODULE ServerStreamingCall ------------------------
(***************************************************************************)
(* start_server_streaming_call and Streaming_call_session                  *)
(* (client/stub_impl.h): the client side of a server-streaming call.       *)
(*                                                                         *)
(* The calling thread starts the first batch and only then calls           *)
(* get_future on the session's reply stream, which is what allocates its   *)
(* storage; the worker of the completion queue runs exec as soon as the    *)
(* batch completes.  An operation on the stream promise before get_future  *)
(* fails the assertion storage_ of stream_promise.h and ends the program.  *)
(***************************************************************************)
EXTENDS GrpcCall

VARIABLES
  caller,     \* "starting", "started" (before get_future) or "returned"
  alive,      \* the session is not deleted
  finishing,  \* finishing_
  call,       \* call_, see GrpcCall
  broken,     \* the deadline has passed, or the connection is lost
  stream,     \* reply_stream_promise_: "null" (no storage), "open",
              \* "complete" or "failed"
  received,   \* number of replies pushed to it
  crashed     \* the assertion on storage_ has failed in "start" or in "exec",
              \* or "no"

vars == <<caller, alive, finishing, call, broken, stream, received, crashed>>

FirstOps == {"send_metadata", "send_message", "recv_metadata", "recv_message"}
LastOps  == {"send_close", "recv_status"}

Init ==
  /\ caller = "starting" /\ alive = TRUE /\ finishing = FALSE
  /\ call = NewCall
  /\ broken = FALSE /\ stream = "null" /\ received = 0 /\ crashed = "no"

----------------------------------------------------------------------------
\* start_server_streaming_call up to the first batch.
start ==
  /\ crashed = "no" /\ caller = "starting"
  /\ call' = StartBatch(call, {}, FirstOps, <<1>>)
  /\ caller' = "started"
  /\ UNCHANGED <<alive, finishing, broken, stream, received, crashed>>

\* grpc core refuses the first batch: set_exception on a stream promise that
\* has no storage yet.
start_refused ==
  /\ crashed = "no" /\ caller = "starting"
  /\ crashed' = "start"
  /\ UNCHANGED <<caller, alive, finishing, call, broken, stream, received>>

\* The return statement: get_future allocates the storage.
get_future ==
  /\ crashed = "no" /\ caller = "started"
  /\ stream' = "open"
  /\ caller' = "returned"
  /\ UNCHANGED <<alive, finishing, call, broken, received, crashed>>

----------------------------------------------------------------------------
\* The call breaks before its status has come; the handler learns nothing.
Break ==
  /\ crashed = "no" /\ caller # "starting" /\ alive /\ ~broken
  /\ broken' = TRUE
  /\ UNCHANGED <<caller, alive, finishing, call, stream, received, crashed>>

\* grpc core completes a batch; from is the handler's side of the call.
BatchDone(from) ==
  /\ call' \in Completed(call, from, received + Queued(call), broken)
  /\ UNCHANGED <<caller, alive, finishing, broken, stream, received, crashed>>

\* reply_stream_promise_ is operated on: the assertion on its storage_.
OnStream(next) ==
  IF stream = "null" THEN crashed' = "exec" /\ UNCHANGED stream
                     ELSE stream' = next /\ UNCHANGED crashed

\* exec has an event to handle.
Handles == crashed = "no" /\ alive /\ call.cq # <<>>

AskForReply(c) == StartBatch(c, {}, {"recv_message"}, <<>>)

\* exec with a reply: ask for the next one, push this one.
exec_reply ==
  /\ Handles /\ ~finishing /\ Head(call.cq).result = "message"
  /\ call' = AskForReply(TakeEvent(call))
  /\ OnStream(stream)
  /\ received' = received + 1
  /\ UNCHANGED <<caller, alive, finishing, broken>>

\* A bug: finishing_ is not set.
Finishing_mutant == finishing

Finishing == TRUE

\* exec without a reply: close our side and ask for the status.
exec_null ==
  /\ Handles /\ ~finishing /\ Head(call.cq).result # "message"
  /\ finishing' = Finishing
  /\ call' = EndBatch(TakeEvent(call), {}, LastOps, "close")
  /\ UNCHANGED <<caller, alive, broken, stream, received, crashed>>

\* A bug: the status is not looked at.
Outcome_mutant == "complete"

\* How status_ ends the stream.
Outcome == IF Head(call.cq).result = "OK" THEN "complete" ELSE "failed"

\* exec with the status: end the stream; worker_main deletes the session.
exec_last ==
  /\ Handles /\ finishing
  /\ call' = TakeEvent(call)
  /\ OnStream(Outcome)
  /\ alive' = FALSE
  /\ UNCHANGED <<caller, finishing, broken, received>>

exec == exec_reply \/ exec_null \/ exec_last

----------------------------------------------------------------------------
\* Properties.

\* grpc core never refuses a batch exec starts (its two assertions hold), and
\* the session is deleted when, and only when, grpc core is done with it.
Safe == ~call.error /\ (~alive => Quiescent(call) /\ call.final_requested)
=============================================================================
