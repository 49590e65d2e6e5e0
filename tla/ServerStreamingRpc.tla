------------------------- MODULE ServerStreamingRpc -------------------------
(***************************************************************************)
(* One server-streaming call from end to end: the handler of               *)
(* ServerStreaming and the client session of ServerStreamingCall, each     *)
(* with its own completion queue, joined by what they put on the wire.     *)
(***************************************************************************)
EXTENDS ServerStreaming

VARIABLES session_alive, session_call, caller, finishing, broken,
          stream, received, crashed

Session == INSTANCE ServerStreamingCall WITH alive <- session_alive, call <- session_call

session == <<session_alive, session_call, caller, finishing, broken,
             stream, received, crashed>>
all == <<vars, session>>

RpcInit == Init /\ Session!Init

----------------------------------------------------------------------------
\* The listener has received the request: the handler performs.
Arrives == session_call.wire # <<>> /\ perform /\ UNCHANGED session

\* The steps of the handler and of the thread that produces the replies.
Handler == /\ push \/ finish \/ fail \/ unlock \/ Completions \/ BatchDone
           /\ UNCHANGED session

\* The steps of the caller and of the client's worker.
Client == /\ \/ Session!start \/ Session!start_refused \/ Session!get_future
             \/ Session!exec \/ Session!BatchDone(call) \/ Session!Break
          /\ UNCHANGED vars

\* Nothing is left to do on either side.
Done ==
  /\ \/ crashed = "start"
     \/ ~alive /\ producer = "done" /\ Quiescent(call) /\ (crashed # "no" \/ ~session_alive)
  /\ UNCHANGED all

RpcNext == Arrives \/ Handler \/ Client \/ Done

RpcSpec == RpcInit /\ [][RpcNext]_all

\* Threads inside a call of the library run on, the workers take what is
\* queued, grpc core delivers what was sent and completes what it accepted.
\* Neither the application's start nor its pushes are assumed.
FairRpcSpec ==
  /\ RpcSpec
  /\ WF_all(Arrives)
  /\ WF_all(unlock /\ UNCHANGED session)
  /\ WF_all(Completions /\ UNCHANGED session)
  /\ WF_all(BatchDone /\ UNCHANGED session)
  /\ WF_all(Session!get_future /\ UNCHANGED vars)
  /\ WF_all(Session!exec /\ UNCHANGED vars)
  /\ WF_all(Session!BatchDone(call) /\ UNCHANGED vars)

----------------------------------------------------------------------------
\* Properties, beside those of the handler.

\* The session never has a batch refused and is deleted exactly when grpc core
\* is done with it, whatever the handler does (exec of Streaming_call_session).
SessionSafe == Session!Safe

\* A stream the client sees complete is one the method finished, with every
\* reply it pushed; one the client sees fail belongs to a call that broke.  The
\* method that fails its stream is the exception FailReachesClient is about.
EndToEnd ==
  /\ stream = "complete" /\ ended # "fail" => ended = "finish" /\ received = pushed
  /\ stream = "failed" => broken

\* When the method has ended its stream, both call objects are reclaimed and the
\* client's stream has ended, unless the client was stopped by an assertion.
RpcEnds ==
  (ended # "no") ~>
     ~alive /\ (crashed # "no" \/ (~session_alive /\ stream \in {"complete", "failed"}))

\* docs/api.md says of fail: "Terminate the rpc with an error."  The client then
\* does not see a stream that completed.
FailReachesClient == ended = "fail" => stream # "complete"
=============================================================================
