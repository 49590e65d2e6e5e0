------------------------- MODULE ClientStreamingRpc -------------------------
(***************************************************************************)
(* One client-streaming call from end to end: the client session of        *)
(* ClientStreamingCall and the handler of ClientStreaming, each with its   *)
(* own completion queue, joined by what they put on the wire.              *)
(***************************************************************************)
EXTENDS ClientStreamingCall

VARIABLES handler_alive, handler_call, reader, read, reply

Handler == INSTANCE ClientStreaming WITH alive <- handler_alive, call <- handler_call

handler == <<handler_alive, handler_call, reader, read, reply>>
all == <<vars, handler>>

RpcInit == Init /\ Handler!Init

----------------------------------------------------------------------------
\* The steps of the owner of the requests and of the client's worker.
Client == /\ \/ ConstructorEnds \/ push \/ finish \/ exec \/ Break
             \/ BatchDone(handler_call)
          /\ UNCHANGED handler

\* The steps of the handler and of the thread that resolves the reply.
Server == /\ Handler!Worker \/ Handler!finish \/ Handler!BatchDone(call, broken)
          /\ UNCHANGED vars

\* Nothing is left to do on either side.
Done == /\ caller = "done" /\ reply # "none" /\ Quiescent(handler_call) /\ Quiescent(call)
        /\ UNCHANGED all

RpcNext == Client \/ Server \/ Done

RpcSpec == RpcInit /\ [][RpcNext]_all

\* Threads inside a call of the library run on, the workers take what is
\* queued, grpc core delivers what was sent and completes what it accepted.
\* Neither the requests nor the method's reply are assumed to come.
FairRpcSpec ==
  /\ RpcSpec
  /\ WF_all(ConstructorEnds /\ UNCHANGED handler)
  /\ WF_all(exec /\ UNCHANGED handler)
  /\ WF_all(BatchDone(handler_call) /\ UNCHANGED handler)
  /\ WF_all(Handler!Worker /\ UNCHANGED vars)
  /\ WF_all(Handler!BatchDone(call, broken) /\ UNCHANGED vars)

----------------------------------------------------------------------------
\* Properties, beside those of the session.

\* The handler never has a batch refused and, once its reader has ended, leaves
\* nothing behind when it is deleted, whatever the client does (exec and finish
\* of Client_streaming_call_handler).
HandlerSafe == Handler!Safe

\* Unless the method replied first or the call broke, a reader that was told of
\* the end of the stream was given every request the client pushed before its
\* end; and a reply the client got is one the method gave.
EndToEnd ==
  /\ (reader = "complete" /\ reply = "none" /\ ~broken) =>
       caller = "done" /\ read = pushed
  /\ rep = "value" => reply = "value"

\* The reader is told of the end of the requests, unless the first completion
\* was handled before the constructor had set batch_in_flight_.
ReaderEnds == (caller = "done") ~> (reader \in {"complete", "failed"} \/ overtaken)

\* When the requests have ended and the method has replied, the reply is resolved
\* and both call objects are reclaimed, with the same exception.
RpcEnds == (caller = "done" /\ reply # "none") ~>
             ~handler_alive /\ (overtaken \/ (~alive /\ rep # "none"))

\* tests/client_streaming.cpp ends its request stream and then waits for the
\* reply: when the method replies, a reply or an error comes.
AlwaysReplied == (caller = "done" /\ reply # "none") ~> rep # "none"
=============================================================================
