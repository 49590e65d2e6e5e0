------------------------------ MODULE BidirRpc ------------------------------
(***************************************************************************)
(* One bidirectional call from end to end: the handler of BidirStreaming   *)
(* with the method it serves (Reflection), and the client session of       *)
(* BidirCall, each with its own completion queue, joined by what they put  *)
(* on the wire.                                                            *)
(***************************************************************************)
EXTENDS Reflection

CONSTANTS MaxRequests   \* bound on the number of requests
ASSUME MaxRequestsAssumption == MaxRequests \in Nat

VARIABLES session_alive, session_call, session_ops, caller, can_send,
          finished_sending, finished_receiving, end_sent, requested, broken, rep, received, crashed, early

Session == INSTANCE BidirCall
  WITH MaxPush <- MaxRequests, alive <- session_alive, call <- session_call,
       pending_ops <- session_ops, pushed <- requested

handler == <<vars, service>>
session == <<session_alive, session_call, session_ops, caller, can_send,
             finished_sending, finished_receiving, end_sent, requested, broken, rep, received, crashed, early>>
all == <<handler, session>>

RpcInit == MethodInit /\ Session!Init

----------------------------------------------------------------------------
\* An assertion has ended one of the programs: on rep_'s storage or on the status
\* of start_batch in the client, on prom's storage in the server.
Stopped == crashed \/ session_call.error \/ misused

\* The steps of the server.
Server == /\ Worker \/ Produces \/ (BatchDone(session_call, broken) /\ UNCHANGED service)
          /\ UNCHANGED session

\* The steps of the owner of the requests and of the client's worker.
Client == /\ \/ Session!get_future \/ Session!push \/ Session!end_requests
             \/ Session!exec \/ Session!exec_deleted \/ Session!Break
             \/ Session!BatchDone(call)
          /\ UNCHANGED handler

\* Nothing is left to do on either side.
Done == /\ \/ Stopped
           \/ /\ ended # "no" /\ phase = "performed" /\ Quiescent(call)
              /\ caller = "done" /\ Quiescent(session_call)
        /\ UNCHANGED all

RpcNext == \/ ~Stopped /\ (Server \/ Client)
           \/ Done

RpcSpec == RpcInit /\ [][RpcNext]_all

\* Threads inside a call of the library run on, the workers take what is
\* queued, grpc core delivers what was sent and completes what it accepted.
\* Neither the requests nor the replies of a method are assumed to come.
FairRpcSpec ==
  /\ RpcSpec
  /\ WF_all(~Stopped /\ Worker /\ UNCHANGED session)
  /\ WF_all(~Stopped /\ BatchDone(session_call, broken) /\ UNCHANGED <<service, session>>)
  /\ WF_all(~Stopped /\ Session!get_future /\ UNCHANGED handler)
  /\ WF_all(~Stopped /\ Session!exec /\ UNCHANGED handler)
  /\ WF_all(~Stopped /\ Session!BatchDone(call) /\ UNCHANGED handler)

----------------------------------------------------------------------------
\* Properties, beside those of the handler.

\* What BidirCall promises of the session holds whatever the handler does.
SessionSafe == Session!Safe

\* A stream of replies the client sees complete is one the method finished, with
\* every reply it pushed (fail, which reports OK, aside).  A client of the
\* reflection service that sees it complete has an answer to every request.
EndToEnd ==
  rep = "complete" /\ ended # "fail" =>
    /\ ended = "finish" /\ received = pushed
    /\ method = "reflection" => received = requested

\* When both streams have ended, each with a message, both call objects are
\* reclaimed and the client's stream has ended, unless an assertion fails first.
RpcEnds ==
  (ended = "finish" /\ pushed > 0 /\ caller = "done" /\ requested > 0) ~>
     Stopped \/ (~alive /\ ~session_alive /\ rep \in {"complete", "failed"})

\* docs/api.md says of finish: "Terminate the rpc successfully."  It does so
\* for a stream without replies too.
FinishTerminates == (ended = "finish") ~> (~alive \/ Stopped)

\* finish of the session asserts that grpc core accepts its batch: it is called
\* once.
FinishAccepted == ~session_call.error

\* push and set_exception of a stream promise assert that it has its storage:
\* the reflection service never uses a promise that has ended.
PromiseUsable == ~misused
=============================================================================
