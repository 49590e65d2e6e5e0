----------------------------- MODULE Reflection -----------------------------
(***************************************************************************)
(* What the handler of a bidirectional call serves: any method, whose      *)
(* replies come from a thread of its own, or the reflection service        *)
(* (Reflection_impl::ServerReflectionInfo, reflection_impl.cpp), whose     *)
(* for_each callback answers each request on the worker, inside the exec   *)
(* that received it.  The descriptor database decides which requests can   *)
(* be answered; here either may happen.                                    *)
(***************************************************************************)
EXTENDS BidirStreaming

VARIABLES
  method,     \* "any" or "reflection"
  answering,  \* what the worker is inside the callback for: "no", "request", "end"
  misused     \* an operation on prom after it gave up its storage: the assertion
              \* on storage_ of stream_promise.h ends the program

service == <<method, answering, misused>>

MethodInit == Init /\ method \in {"any", "reflection"} /\ answering = "no" /\ misused = FALSE

----------------------------------------------------------------------------
\* The thread of some method produces replies.
Produces == /\ method = "any"
            /\ push \/ finish \/ fail
            /\ UNCHANGED service

\* exec pushes to or completes reader_prom_, which runs the callback.
Receives ==
  /\ answering = "no" /\ exec_recv
  /\ answering' = CASE method = "any"                                  -> "no"
                    [] method = "reflection" /\ reader' = "complete" -> "end"
                    [] method = "reflection" /\ reader' # "complete" -> "request"
  /\ UNCHANGED <<method, misused>>

\* A bug: a request is dropped without an answer.
answer_mutant == push \/ (Streaming /\ UNCHANGED vars)

\* The switch of the callback: an answer, or an exception that ends the stream.
answer == push \/ fail

\* The for_each callback.  After a request that failed, prom has no storage left;
\* push and set_exception do not look.
on_request ==
  /\ answering = "request"
  /\ answering' = "no"
  /\ \/ ended = "no" /\ answer /\ UNCHANGED misused
     \/ ended # "no" /\ misused' = TRUE /\ UNCHANGED vars
  /\ UNCHANGED method

\* The finally callback, which does look.
on_end ==
  /\ answering = "end"
  /\ answering' = "no"
  /\ IF ended = "no" THEN finish ELSE UNCHANGED vars
  /\ UNCHANGED <<method, misused>>

\* Everything the worker does.
Worker == \/ answering = "no" /\ WorkerAlone /\ UNCHANGED service
          \/ Receives \/ on_request \/ on_end
=============================================================================
