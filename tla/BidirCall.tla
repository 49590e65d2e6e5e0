------------------------------ MODULE BidirCall ------------------------------
(***************************************************************************)
(* start_bidir_streaming_call and Bidir_streaming_call_session             *)
(* (client/stub_impl.h): the client side of a bidirectional call, from its *)
(* constructor to its deletion.                                            *)
(*                                                                         *)
(* The thread that owns the request stream runs the for_each and finally   *)
(* lambdas, the worker of the completion queue runs exec.  Both work under *)
(* mtx_; exec on the closing completion does not, but the batch it belongs *)
(* to was started by an exec that did.  The session is deleted there.      *)
(***************************************************************************)
EXTENDS GrpcCall

CONSTANTS MaxPush   \* bound on the number of requests

VARIABLES
  caller,              \* "starting" (before get_future), "streaming" or "done"
  alive,               \* the session is not deleted
  can_send,            \* can_send_
  finished_sending,    \* finished_sending_
  finished_receiving,  \* finished_receiving_
  end_sent,            \* end_sent_
  pending_ops,         \* pending_ops_, by the number of the request
  call,                \* call_, see GrpcCall
  pushed,              \* number of requests pushed so far
  broken,              \* the deadline has passed, the connection is lost or the
                       \* client has cancelled the call
  rep,                 \* rep_: "null" (no storage), "open", "complete", "failed"
  received,            \* number of replies pushed to it
  crashed,             \* rep_'s assertion on its storage_ has failed
  early                \* history: the replies had ended when the completion of
                       \* send_client_end was still to be handled

flags == <<can_send, finished_sending, finished_receiving, end_sent>>
replies == <<rep, received, crashed>>

Read      == {}
Write     == {0}   \* completion_tag(1)
Handshake == {1}   \* completion_tag(2)
Ending    == {2}   \* completion_tag(4)
Closing   == {3}   \* completion_tag(8)

\* The constructor: nobody can push before start_bidir_streaming_call returns
\* the promise, so it is one step up to the get_future of the return statement.
Init ==
  /\ caller = "starting" /\ alive = TRUE
  /\ can_send = FALSE /\ finished_sending = FALSE
  /\ finished_receiving = FALSE /\ end_sent = FALSE
  /\ pending_ops = <<>> /\ pushed = 0
  /\ call = StartBatch(NewCall, Handshake, {"send_metadata", "recv_metadata"}, <<>>)
  /\ broken = FALSE /\ rep = "null" /\ received = 0 /\ crashed = FALSE /\ early = FALSE

----------------------------------------------------------------------------
\* The return statement of start_bidir_streaming_call: rep_ gets its storage.
get_future ==
  /\ ~crashed /\ caller = "starting"
  /\ caller' = "streaming" /\ rep' = "open"
  /\ UNCHANGED <<alive, flags, pending_ops, call, pushed, broken, received, crashed, early>>

\* flush_ when can_send_.
flush(c, ops) ==
  /\ can_send' = FALSE
  /\ pending_ops' = Tail(ops)
  /\ call' = StartBatch(c, Write, {"send_message"}, <<Head(ops)>>)

\* send_client_end.
send_client_end(c) == call' = EndBatch(c, Ending, {"send_close"}, "close") /\ end_sent' = TRUE

\* The for_each lambda.
push ==
  /\ ~crashed /\ caller = "streaming" /\ pushed < MaxPush
  /\ pushed' = pushed + 1
  /\ LET ops == Append(pending_ops, pushed + 1)
     IN  IF can_send THEN flush(call, ops)
                     ELSE pending_ops' = ops /\ UNCHANGED <<can_send, call>>
  /\ UNCHANGED <<caller, alive, finished_sending, finished_receiving, end_sent,
                 broken, replies, early>>

\* A bug: the finally lambda closes over a request that is being sent.
MayClose_mutant == TRUE

MayClose == can_send

\* The finally lambda.  grpc_call_cancel ends the call for a stream that failed.
end_requests ==
  /\ ~crashed /\ caller = "streaming"
  /\ caller' = "done" /\ finished_sending' = TRUE
  /\ broken' \in {broken, TRUE}
  /\ IF MayClose THEN send_client_end(call) ELSE UNCHANGED <<call, end_sent>>
  /\ UNCHANGED <<alive, can_send, finished_receiving, pending_ops, pushed, replies, early>>

----------------------------------------------------------------------------
\* The call breaks before its status has come.
Break ==
  /\ ~crashed /\ alive /\ ~broken
  /\ broken' = TRUE
  /\ UNCHANGED <<caller, alive, flags, pending_ops, call, pushed, replies, early>>

\* grpc core completes a batch; from is the handler's side of the call.
BatchDone(from) ==
  /\ ~crashed
  /\ call' \in Completed(call, from, received + Queued(call), broken)
  /\ UNCHANGED <<caller, alive, flags, pending_ops, pushed, broken, replies, early>>

----------------------------------------------------------------------------
Handles(tag) == ~crashed /\ alive /\ Event(call, tag)

AskForReply(c) == StartBatch(c, Read, {"recv_message"}, <<>>)

\* finish: ask for the status.
AskForStatus(c) == StartBatch(c, Closing, {"recv_status"}, <<>>)

\* exec on the handshake: start sending and receiving; finished_sending_ is
\* not looked at.
exec_handshake ==
  /\ Handles(Handshake)
  /\ LET c == AskForReply(TakeEvent(call))
     IN  IF pending_ops # <<>>
           THEN flush(c, pending_ops)
           ELSE can_send' = TRUE /\ call' = c /\ UNCHANGED pending_ops
  /\ UNCHANGED <<caller, alive, finished_sending, finished_receiving, end_sent,
                 pushed, broken, replies, early>>

\* exec on a request that was sent: send the next one, or the end.
exec_write ==
  /\ Handles(Write)
  /\ LET c == TakeEvent(call)
     IN  \/ pending_ops # <<>> /\ flush(c, pending_ops) /\ UNCHANGED end_sent
         \/ /\ pending_ops = <<>> /\ can_send' = TRUE /\ UNCHANGED pending_ops
            /\ IF finished_sending THEN send_client_end(c)
                                   ELSE call' = c /\ UNCHANGED end_sent
  /\ UNCHANGED <<caller, alive, finished_sending, finished_receiving,
                 pushed, broken, replies, early>>

\* exec on the end of the requests.
exec_ending ==
  /\ Handles(Ending)
  /\ IF finished_receiving
       THEN call' = AskForStatus(TakeEvent(call)) /\ end_sent' = TRUE
       ELSE call' = TakeEvent(call) /\ UNCHANGED end_sent
  /\ UNCHANGED <<caller, alive, can_send, finished_sending, finished_receiving, pending_ops,
                 pushed, broken, replies, early>>

\* exec on a reply: ask for the next one, push this one, under mtx_.
exec_reply ==
  /\ Handles(Read) /\ Head(call.cq).result = "message"
  /\ call' = AskForReply(TakeEvent(call))
  /\ crashed' = (rep = "null")
  /\ received' = received + 1
  /\ UNCHANGED <<caller, alive, flags, pending_ops, pushed, broken, rep, early>>

\* The completion of send_client_end has not been handled.
EndOutstanding ==
  \/ \E b \in call.out : b.flags = Ending
  \/ \E i \in 1..Len(call.cq) : call.cq[i].flags = Ending

\* The condition on which exec asks for the status when the replies have ended.
BothEnded == finished_sending /\ end_sent

\* exec on a receive without a reply.
exec_null ==
  /\ Handles(Read) /\ Head(call.cq).result = "null"
  /\ finished_receiving' = TRUE
  /\ early' = (early \/ (end_sent /\ EndOutstanding))
  /\ call' = IF BothEnded THEN AskForStatus(TakeEvent(call)) ELSE TakeEvent(call)
  /\ UNCHANGED <<caller, alive, can_send, finished_sending, end_sent, pending_ops,
                 pushed, broken, replies>>

\* How status_ ends the replies.
Outcome == IF Head(call.cq).result = "OK" THEN "complete" ELSE "failed"

\* exec with the status: end the replies; worker_main deletes the session.
exec_closing ==
  /\ Handles(Closing)
  /\ rep' = Outcome
  /\ alive' = FALSE
  /\ call' = TakeEvent(call)
  /\ UNCHANGED <<caller, flags, pending_ops, pushed, broken, received, crashed, early>>

exec == \/ exec_handshake \/ exec_write \/ exec_ending \/ exec_reply \/ exec_null
        \/ exec_closing

\* A completion for a session that was deleted; see ServerStreaming.
exec_deleted ==
  /\ ~crashed /\ ~alive /\ call.cq # <<>>
  /\ call' = TakeEvent(call)
  /\ UNCHANGED <<caller, alive, flags, pending_ops, pushed, broken, replies, early>>

----------------------------------------------------------------------------
\* Properties.

\* The server is sent the requests in the order of push, and the end of the
\* stream after the last of them.  While the end of the requests is handled
\* before the end of the replies, grpc core refuses no batch (the assertions of
\* flush_, send_client_end and finish hold).  The session is deleted when both
\* directions are closed, every request was handed to grpc core (the assertion
\* in its destructor) and, in the same case, no completion that carries its
\* address is left.
Safe ==
  /\ call.wire = Messages(pushed - Len(pending_ops))
  /\ call.end # "none" => finished_sending /\ call.wire = Messages(pushed)
  /\ ~early => ~call.error
  /\ ~alive => /\ finished_receiving /\ call.end = "close" /\ pending_ops = <<>>
               /\ ~early => Quiescent(call)
=============================================================================
