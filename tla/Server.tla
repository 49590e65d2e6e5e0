------------------------------- MODULE Server -------------------------------
(***************************************************************************)
(* The life of a Server with one unary method, its listeners, one for each *)
(* completion queue that serves it, the handlers of the calls, the unary   *)
(* calls of the clients and the completion queues with their workers.      *)
(*                                                                         *)
(* External are the network and grpc core: an arriving call is given to a  *)
(* listener that waits for one; after grpc_server_shutdown_and_notify the  *)
(* waiting requests fail, calls nobody took are rejected, and the          *)
(* notification comes when every call taken is over on the connection: its *)
(* status is sent, or the connection or the client is gone.  A queue that  *)
(* is shut down accepts no new operation, and ends when it is drained.     *)
(*                                                                         *)
(* The application keeps the completion queues until the Server is         *)
(* destroyed, as every test does by declaring them first.                  *)
(***************************************************************************)
EXTENDS Naturals, Sequences

CONSTANTS Calls, Queues

VARIABLES
  server,    \* impl_: "none", "starting", "running", "shutdown" or "destroyed"
  moved,     \* the Server object was moved from, into another one
  features,  \* the objects of features_ are alive
  listener,  \* of each queue: "none", "waiting" for a call, "called", when its
             \* event is queued, "performing" or "deleted"
  queue,     \* of each queue: "open", "shutdown" or "joined"
  cq,        \* of each queue: the events its worker has not taken
  handler,   \* of each call: "none", "waiting" at the server, "rejected",
             \* "requested", "pending" while the method works, "replied",
             \* "sent", "deleted", or "lost" if its batch is refused
  served_by, \* of each call: the queues whose listener was given it
  result,    \* of each call: what its method returned, "none", "value" or "error"
  reply,     \* of each call: what its batch sends, likewise
  broken,    \* of each call: it timed out, was cancelled or lost its connection
  future,    \* of each call: "none", "pending", "value" or "error"
  refused    \* an operation was started on a queue that was shut down

vars == <<server, moved, features, listener, queue, cq, handler, served_by,
          result, reply, broken, future, refused>>

serverVars == <<server, moved, features>>
callVars == <<handler, served_by, result, reply, broken, future>>

\* The events of a queue: of its listener, with what it was given, or of a handler.
Failed == [of |-> "listener", success |-> FALSE]
Taken(c) == [of |-> "listener", success |-> TRUE, call |-> c]
Sent(c) == [of |-> "handler", call |-> c]

Init ==
  /\ server = "none" /\ moved = FALSE /\ features = TRUE
  /\ listener = [q \in Queues |-> "none"]
  /\ queue = [q \in Queues |-> "open"]
  /\ cq = [q \in Queues |-> <<>>]
  /\ handler = [c \in Calls |-> "none"]
  /\ served_by = [c \in Calls |-> {}]
  /\ result = [c \in Calls |-> "none"]
  /\ reply = [c \in Calls |-> "none"]
  /\ broken = [c \in Calls |-> FALSE]
  /\ future = [c \in Calls |-> "none"]
  /\ refused = FALSE

----------------------------------------------------------------------------
\* The Server object.

\* The constructor binds its ports, registers queues and methods and starts.
Construct ==
  /\ server = "none" /\ server' = "starting"
  /\ UNCHANGED <<moved, features, listener, queue, cq, callVars, refused>>

\* A port cannot be bound: cleanup_, on a server that never started, and throw.
add_listening_ports_fails ==
  /\ server = "none" /\ server' = "destroyed" /\ features' = FALSE
  /\ UNCHANGED <<moved, listener, queue, cq, callVars, refused>>

\* Method::listen for one queue; with the last one the constructor returns.
listen(q) ==
  /\ server = "starting" /\ listener[q] = "none"
  /\ listener' = [listener EXCEPT ![q] = "waiting"]
  /\ server' = IF \E p \in Queues : listener'[p] = "none" THEN server ELSE "running"
  /\ UNCHANGED <<moved, features, queue, cq, callVars, refused>>

\* The move constructor and the move assignment to an empty Server take impl_ and
\* shutdown_queue_, and leave features_ where they are.
Move ==
  /\ server = "running" /\ ~moved /\ moved' = TRUE
  /\ UNCHANGED <<server, features, listener, queue, cq, callVars, refused>>

\* ~Server of the object that was moved from: cleanup_ finds no impl_.
DestroyMovedFrom ==
  /\ moved /\ features /\ features' = FALSE
  /\ UNCHANGED <<server, moved, listener, queue, cq, callVars, refused>>

\* cleanup_ starts the shutdown of the server ...
cleanup ==
  /\ server = "running" /\ server' = "shutdown"
  /\ cq' = [q \in Queues |-> IF listener[q] = "waiting" THEN Append(cq[q], Failed) ELSE cq[q]]
  /\ listener' = [q \in Queues |-> IF listener[q] = "waiting" THEN "called" ELSE listener[q]]
  /\ handler' = [c \in Calls |-> IF handler[c] = "waiting" THEN "rejected" ELSE handler[c]]
  /\ UNCHANGED <<moved, features, queue, served_by, result, reply, broken, future, refused>>

\* Grpc core is done with call c.
Over(c) == handler[c] \in {"requested", "pending", "replied"} => broken[c]

\* A bug: cleanup_ does not wait for the notification.
Notified_mutant ==
  /\ server = "shutdown"
  /\ server' = "destroyed" /\ features' = (features /\ moved)
  /\ UNCHANGED <<moved, listener, queue, cq, callVars, refused>>

\* ... and waits until it is over; the members of the object are destroyed after.
Notified ==
  /\ server = "shutdown" /\ \A c \in Calls : Over(c)
  /\ server' = "destroyed" /\ features' = (features /\ moved)
  /\ UNCHANGED <<moved, listener, queue, cq, callVars, refused>>

----------------------------------------------------------------------------
\* The workers of the server's queues.

\* Grpc core takes the batch that sends r, unless the queue is shut down.
SendReply(c, r) ==
  IF \A q \in served_by[c] : queue[q] = "open"
    THEN /\ reply' = [reply EXCEPT ![c] = r]
         /\ handler' = [handler EXCEPT ![c] = "replied"]
         /\ UNCHANGED refused
    ELSE /\ handler' = [handler EXCEPT ![c] = "lost"]
         /\ refused' = TRUE
         /\ UNCHANGED reply

\* A bug: an error is sent with the status OK.
finish_mutant(c) ==
  \E r \in {"value", "error"} :
    result' = [result EXCEPT ![c] = r] /\ SendReply(c, "value")

\* A bug: nothing is sent for a method that failed.
finish_forgets(c) ==
  \E r \in {"value", "error"} :
    /\ result' = [result EXCEPT ![c] = r]
    /\ IF r = "error" THEN UNCHANGED <<reply, handler, refused>> ELSE SendReply(c, r)

\* Unary_call_handler_base::finish, with what the method returned or threw: one
\* batch with the reply and the status OK, or with the status of the error alone.
finish(c) ==
  \E r \in {"value", "error"} :
    result' = [result EXCEPT ![c] = r] /\ SendReply(c, r)

\* The method returned, threw or returned a future that is settled: finish; or its
\* future is not settled yet.
perform(c) ==
  \/ finish(c)
  \/ handler' = [handler EXCEPT ![c] = "pending"] /\ UNCHANGED <<result, reply, refused>>

\* Method_listener::exec: a call has been taken.  Its inject is a step of its own.
exec_call(q) ==
  /\ cq[q] # <<>> /\ Head(cq[q]).of = "listener" /\ Head(cq[q]).success
  /\ listener[q] # "performing"
  /\ perform(Head(cq[q]).call)
  /\ cq' = [cq EXCEPT ![q] = Tail(@)]
  /\ listener' = [listener EXCEPT ![q] = "performing"]
  /\ UNCHANGED <<serverVars, queue, served_by, broken, future>>

\* What a request for the next call meets.
Requested(q) ==
  CASE queue[q] # "open"                                     -> "refused"
    [] queue[q] = "open" /\ server \in {"starting", "running"} -> "waiting"
    [] OTHER                                                  -> "called"

\* inject asks for the next call, which fails at once when the server is shut
\* down, and is refused when the queue is, which the assertion does not accept.
inject(q) ==
  /\ listener[q] = "performing"
  /\ listener' = [listener EXCEPT ![q] = Requested(q)]
  /\ cq' = [cq EXCEPT ![q] = IF Requested(q) = "called" THEN Append(@, Failed) ELSE @]
  /\ refused' = (refused \/ Requested(q) = "refused")
  /\ UNCHANGED <<serverVars, queue, callVars>>

\* A bug: the listener of a server that is gone is not deleted.
exec_failed_mutant(q) ==
  /\ cq[q] # <<>> /\ Head(cq[q]) = Failed /\ listener[q] # "performing"
  /\ cq' = [cq EXCEPT ![q] = Tail(@)]
  /\ UNCHANGED <<serverVars, queue, listener, callVars, refused>>

\* Method_listener::exec: no call; the listener is deleted with its pending_call_.
exec_failed(q) ==
  /\ cq[q] # <<>> /\ Head(cq[q]) = Failed /\ listener[q] # "performing"
  /\ cq' = [cq EXCEPT ![q] = Tail(@)]
  /\ listener' = [listener EXCEPT ![q] = "deleted"]
  /\ UNCHANGED <<serverVars, queue, callVars, refused>>

\* Unary_call_handler_base::exec: the handler is deleted.
exec_sent(q) ==
  /\ cq[q] # <<>> /\ Head(cq[q]).of = "handler" /\ listener[q] # "performing"
  /\ handler' = [handler EXCEPT ![Head(cq[q]).call] = "deleted"]
  /\ cq' = [cq EXCEPT ![q] = Tail(@)]
  /\ UNCHANGED <<serverVars, listener, queue, served_by, result, reply, broken, future, refused>>

\* The method's future is settled by some thread, or its promise dropped.
MethodReplies(c) ==
  /\ handler[c] = "pending"
  /\ finish(c)
  /\ UNCHANGED <<serverVars, listener, queue, cq, served_by, broken, future>>

\* ~Completion_queue shuts the queue down, and joins the worker when it has seen
\* the last event.
ShutdownQueue(q) ==
  /\ server = "destroyed" /\ queue[q] = "open"
  /\ \A p \in Queues : queue[p] # "shutdown"
  /\ queue' = [queue EXCEPT ![q] = "shutdown"]
  /\ UNCHANGED <<serverVars, listener, cq, callVars, refused>>

JoinWorker(q) ==
  /\ queue[q] = "shutdown" /\ cq[q] = <<>>
  /\ listener[q] \notin {"waiting", "performing"}
  /\ \A c \in Calls : q \in served_by[c] => handler[c] # "replied"
  /\ queue' = [queue EXCEPT ![q] = "joined"]
  /\ UNCHANGED <<serverVars, listener, cq, callVars, refused>>

----------------------------------------------------------------------------
\* The clients, and what grpc core and the network do.

\* start_unary_call starts the one batch of the call, which reaches the server, or
\* finds none; the time in transit has no step of its own.
start_unary_call(c) ==
  /\ future[c] = "none"
  /\ future' = [future EXCEPT ![c] = "pending"]
  /\ handler' = [handler EXCEPT ![c] =
                   IF server \in {"starting", "running"} THEN "waiting" ELSE "rejected"]
  /\ UNCHANGED <<serverVars, listener, queue, cq, served_by, result, reply, broken, refused>>

\* A bug: the call that is refused is forgotten.
start_refused_mutant(c) ==
  /\ future[c] = "none"
  /\ future' = [future EXCEPT ![c] = "pending"]
  /\ broken' = [broken EXCEPT ![c] = TRUE]
  /\ UNCHANGED <<serverVars, listener, queue, cq, handler, served_by, result, reply, refused>>

\* The batch is refused: fail sets an exception and the completion is deleted.
start_refused(c) ==
  /\ future[c] = "none"
  /\ future' = [future EXCEPT ![c] = "error"]
  /\ broken' = [broken EXCEPT ![c] = TRUE]
  /\ UNCHANGED <<serverVars, listener, queue, cq, handler, served_by, result, reply, refused>>

\* Grpc core gives the call to a listener that waits.
Take(q, c) ==
  /\ listener[q] = "waiting" /\ handler[c] = "waiting"
  /\ listener' = [listener EXCEPT ![q] = "called"]
  /\ cq' = [cq EXCEPT ![q] = Append(@, Taken(c))]
  /\ handler' = [handler EXCEPT ![c] = "requested"]
  /\ served_by' = [served_by EXCEPT ![c] = {q}]
  /\ UNCHANGED <<serverVars, queue, result, reply, broken, future, refused>>

\* The deadline passes, the client cancels or the connection is lost: exec finds an
\* error, and nobody waits for the handler any more.
Break(c) ==
  /\ future[c] = "pending"
  /\ broken' = [broken EXCEPT ![c] = TRUE]
  /\ future' = [future EXCEPT ![c] = "error"]
  /\ UNCHANGED <<serverVars, listener, queue, cq, handler, served_by, result, reply, refused>>

\* The handler's batch is done.
BatchDone(c) ==
  /\ handler[c] = "replied"
  /\ handler' = [handler EXCEPT ![c] = "sent"]
  /\ cq' = [q \in Queues |-> IF q \in served_by[c] THEN Append(cq[q], Sent(c)) ELSE cq[q]]
  /\ UNCHANGED <<serverVars, listener, queue, served_by, result, reply, broken, future, refused>>

\* What the client's batch can complete with.
Status(c) ==
  IF handler[c] = "rejected" THEN {"error"} ELSE {reply[c]} \ {"none"}

\* Unary_call_completion::exec settles the future and is deleted.
exec_completion(c) ==
  /\ future[c] = "pending"
  /\ \E status \in Status(c) : future' = [future EXCEPT ![c] = status]
  /\ UNCHANGED <<serverVars, listener, queue, cq, handler, served_by, result, reply, broken, refused>>

----------------------------------------------------------------------------
\* Everything has been taken down.
Done ==
  /\ \A q \in Queues : queue[q] = "joined"
  /\ \A c \in Calls : future[c] \in {"value", "error"}
  /\ UNCHANGED vars

Worker(q) == exec_call(q) \/ inject(q) \/ exec_failed(q) \/ exec_sent(q)

Next ==
  \/ Construct \/ add_listening_ports_fails \/ Move \/ DestroyMovedFrom
  \/ cleanup \/ Notified \/ Done
  \/ \E q \in Queues : listen(q) \/ Worker(q) \/ ShutdownQueue(q) \/ JoinWorker(q)
  \/ \E c \in Calls : \/ start_unary_call(c) \/ start_refused(c) \/ Break(c)
                      \/ MethodReplies(c) \/ BatchDone(c) \/ exec_completion(c)
                      \/ \E q \in Queues : Take(q, c)

Spec == Init /\ [][Next]_vars

\* The workers run, grpc core delivers, and every method settles its future in
\* the end.  That the application starts calls, moves or destroys its objects is
\* not assumed.
FairSpec ==
  /\ Spec
  /\ WF_vars(Notified)
  /\ \A q \in Queues : WF_vars(listen(q)) /\ WF_vars(Worker(q)) /\ WF_vars(JoinWorker(q))
  /\ \A c \in Calls : /\ WF_vars(MethodReplies(c)) /\ WF_vars(BatchDone(c))
                      /\ WF_vars(exec_completion(c))
                      /\ WF_vars(\E q \in Queues : Take(q, c))

----------------------------------------------------------------------------
\* Properties.

\* A client's future has the value or the error its own method gave; an error
\* comes from elsewhere only if the call broke or never reached a listener.
Answered == \A c \in Calls :
  /\ future[c] = "value" => result[c] = "value"
  /\ future[c] = "error" => result[c] = "error" \/ broken[c] \/ handler[c] = "rejected"

\* When the worker of a queue is gone, so are the queue's listener and every handler
\* it served, unless the handler's method is still at work for a client that is
\* gone, or the listener was refused (the assertion in inject).
Reclaimed == \A q \in Queues : queue[q] = "joined" =>
  /\ cq[q] = <<>>
  /\ listener[q] \in {"none", "deleted"} \/ refused
  /\ \A c \in Calls : q \in served_by[c] =>
       handler[c] = "deleted" \/ (broken[c] /\ handler[c] \in {"pending", "lost"})

\* While a method works for a client the objects it belongs to are alive: cleanup_
\* waits for it before features_ is destroyed.  A Server that was moved left them
\* behind.
FeaturesOutliveCalls == \A c \in Calls :
  handler[c] \in {"requested", "pending"} /\ ~broken[c] /\ ~moved => features

\* cleanup_ waits without a deadline and returns once the methods have replied.
ShutdownEnds == (server = "shutdown") ~> (server = "destroyed")

\* Every call that was started is answered: a listener that has performed a call
\* asks for the next one, whatever happens to the call and to the server.
EveryCallAnswered == \A c \in Calls :
  (future[c] = "pending") ~> (future[c] \in {"value", "error"})
=============================================================================
