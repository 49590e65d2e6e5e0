---------------------------- MODULE Server_proofs ----------------------------
(***************************************************************************)
(* The life and the shutdown of Server, for any set of calls and any set   *)
(* of completion queues.                                                   *)
(*                                                                         *)
(* What ties the parts together is that a queue holds exactly the events   *)
(* its listener and its handlers wait for, one each: so a handler is       *)
(* performed and deleted once, and a worker that finds its queue empty has *)
(* left nothing behind.  The rest is that nobody waits for a server that   *)
(* is not up, and that a destroyed server has only broken calls at work.   *)
(***************************************************************************)
EXTENDS Server, GrpcCall_proofs

----------------------------------------------------------------------------
\* The inductive invariant.

Handlers == {"none", "waiting", "rejected", "requested", "pending", "replied",
             "sent", "deleted", "lost"}

\* The events a queue can hold.
Events == {Failed} \cup {Taken(c) : c \in Calls} \cup {Sent(c) : c \in Calls}

\* What the variables of the server, its queues and its calls can hold.
TypeOK ==
  /\ server \in {"none", "starting", "running", "shutdown", "destroyed"}
  /\ moved \in BOOLEAN /\ features \in BOOLEAN /\ refused \in BOOLEAN
  /\ listener \in [Queues -> {"none", "waiting", "called", "performing", "deleted", "refused"}]
  /\ queue \in [Queues -> {"open", "shutdown", "joined"}]
  /\ cq \in [Queues -> Seq(Events)]
  /\ handler \in [Calls -> Handlers]
  /\ served_by \in [Calls -> SUBSET Queues]
  /\ result \in [Calls -> {"none", "value", "error"}]
  /\ reply \in [Calls -> {"none", "value", "error"}]
  /\ broken \in [Calls -> BOOLEAN]
  /\ future \in [Calls -> {"none", "pending", "value", "error"}]

\* The events that wait for the worker of queue q.
Waiting(q) == Range(cq[q])

\* What the phase of the server says of features_, the queues and the listeners.
Phases ==
  /\ ~features => moved \/ server = "destroyed"
  /\ \A q \in Queues :
       /\ queue[q] # "open" => server = "destroyed"
       /\ listener[q] = "refused" => refused
       /\ listener[q] = "waiting" => server \in {"starting", "running"}

\* What it says of the calls: once the server is destroyed only calls that broke
\* are still at work.
CallPhases == \A c \in Calls :
  /\ server = "none" => handler[c] \in {"none", "rejected"}
  /\ handler[c] = "waiting" => server \in {"starting", "running"}
  /\ handler[c] = "lost" => server = "destroyed"
  /\ server = "destroyed" /\ handler[c] \in {"requested", "pending", "replied", "lost"}
       => broken[c]

\* How a call's handler, its queue, what the method returned and what is sent go
\* together.
CallState == \A c \in Calls :
  /\ future[c] = "none" => handler[c] = "none"
  /\ handler[c] \in {"none", "waiting", "rejected"} <=> served_by[c] = {}
  /\ \A p, q \in served_by[c] : p = q
  /\ handler[c] \in {"none", "waiting", "rejected", "requested", "pending"}
       => result[c] = "none" /\ reply[c] = "none"
  /\ reply[c] # "none" => reply[c] = result[c]

\* What waits for the worker of a queue is what its listener and its handlers wait
\* for: one event each.
EventState == \A q \in Queues :
  /\ \A e, f \in Waiting(q) : e.of = "listener" /\ f.of = "listener" => e = f
  /\ listener[q] = "called" <=> \E e \in Waiting(q) : e.of = "listener"
  /\ \A c \in Calls :
       /\ Taken(c) \in Waiting(q) <=> handler[c] = "requested" /\ q \in served_by[c]
       /\ Sent(c) \in Waiting(q) <=> handler[c] = "sent" /\ q \in served_by[c]

\* The worker leaves nothing behind.
JoinState == \A q \in Queues : queue[q] = "joined" =>
  /\ cq[q] = <<>>
  /\ listener[q] \in {"none", "deleted", "refused"}
  /\ \A c \in Calls : q \in served_by[c] => handler[c] \in {"pending", "lost", "deleted"}

Unrepeated == \A q \in Queues : Distinct(cq[q])

IInv == /\ Phases /\ CallPhases /\ CallState /\ Answered
        /\ EventState /\ JoinState /\ Unrepeated
----------------------------------------------------------------------------
\* The kinds of events are told apart by their fields.
LEMMA EventFields ==
  /\ Failed \in Events /\ Failed.of = "listener" /\ ~Failed.success
  /\ \A c \in Calls :
       /\ Taken(c) \in Events /\ Taken(c).of = "listener" /\ Taken(c).call = c
       /\ Sent(c) \in Events /\ Sent(c).of = "handler" /\ Sent(c).call = c
       /\ Failed # Taken(c) /\ Failed # Sent(c)
       /\ \A d \in Calls : /\ Taken(c) # Sent(d)
                           /\ Taken(c) = Taken(d) => c = d
                           /\ Sent(c) = Sent(d) => c = d
  /\ \A e \in Events :
       /\ e.of = "listener" => e = Failed \/ \E c \in Calls : e = Taken(c)
       /\ e.of = "listener" /\ e.success => \E c \in Calls : e = Taken(c)
       /\ e.of = "handler" => \E c \in Calls : e = Sent(c)
<1>1. Failed.of = "listener" /\ Failed.success = FALSE
  BY DEF Failed
<1>2. ASSUME NEW c \in Calls
      PROVE  /\ Taken(c).of = "listener" /\ Taken(c).call = c /\ Taken(c).success = TRUE
             /\ Sent(c).of = "handler" /\ Sent(c).call = c
  BY DEF Taken, Sent
<1>3. Failed \in Events /\ \A c \in Calls : Taken(c) \in Events /\ Sent(c) \in Events
  BY DEF Events
<1>4. \A e \in Events : e = Failed \/ (\E c \in Calls : e = Taken(c)) \/ (\E c \in Calls : e = Sent(c))
  BY DEF Events
<1>5. \A c \in Calls : Failed # Taken(c) /\ Failed # Sent(c)
  BY <1>1, <1>2
<1>6. \A c, d \in Calls : Taken(c) # Sent(d) /\ (Taken(c) = Taken(d) => c = d) /\ (Sent(c) = Sent(d) => c = d)
  <2> SUFFICES ASSUME NEW c \in Calls, NEW d \in Calls
               PROVE  Taken(c) # Sent(d) /\ (Taken(c) = Taken(d) => c = d) /\ (Sent(c) = Sent(d) => c = d)
    OBVIOUS
  <2>1. Taken(c).call = c /\ Taken(d).call = d /\ Sent(c).call = c /\ Sent(d).call = d
    BY <1>2
  <2>2. Taken(c).of # Sent(d).of
    BY <1>2
  <2> QED
    BY <2>1, <2>2, Zenon
<1>7. \A e \in Events :
       /\ e.of = "listener" => e = Failed \/ \E c \in Calls : e = Taken(c)
       /\ e.of = "listener" /\ e.success => \E c \in Calls : e = Taken(c)
       /\ e.of = "handler" => \E c \in Calls : e = Sent(c)
  <2> SUFFICES ASSUME NEW e \in Events
               PROVE  /\ e.of = "listener" => e = Failed \/ \E c \in Calls : e = Taken(c)
                      /\ e.of = "listener" /\ e.success => \E c \in Calls : e = Taken(c)
                      /\ e.of = "handler" => \E c \in Calls : e = Sent(c)
    OBVIOUS
  <2>1. CASE e = Failed
    BY <1>1, <2>1
  <2>2. CASE \E c \in Calls : e = Taken(c)
    BY <1>2, <2>2
  <2>3. CASE \E c \in Calls : e = Sent(c)
    BY <1>2, <2>3
  <2> QED
    BY <1>4, <2>1, <2>2, <2>3
<1> QED
  BY <1>1, <1>2, <1>3, <1>5, <1>6, <1>7, Zenon

----------------------------------------------------------------------------
\* The same event is queued for the workers of the queues in S.
LEMMA EnqueueFor ==
  ASSUME TypeOK, Unrepeated, NEW S \in SUBSET Queues, NEW e \in Events,
         \A q \in S : e \notin Waiting(q),
         cq' = [q \in Queues |-> IF q \in S THEN Append(cq[q], e) ELSE cq[q]]
  PROVE  /\ cq' \in [Queues -> Seq(Events)]
         /\ Unrepeated'
         /\ \A q \in Queues : Waiting(q)' = IF q \in S THEN Waiting(q) \cup {e} ELSE Waiting(q)
<1>1. ASSUME NEW q \in S
      PROVE  /\ cq'[q] \in Seq(Events) /\ Distinct(cq'[q])
             /\ Range(cq'[q]) = Range(cq[q]) \cup {e}
  <2>1. cq[q] \in Seq(Events) /\ Distinct(cq[q]) /\ e \notin Range(cq[q])
    BY DEF TypeOK, Unrepeated, Waiting
  <2>2. cq'[q] = Append(cq[q], e)
    OBVIOUS
  <2> QED
    BY <2>1, <2>2, Enqueue
<1>2. ASSUME NEW q \in Queues, q \notin S
      PROVE  cq'[q] = cq[q] /\ cq[q] \in Seq(Events) /\ Distinct(cq[q])
  BY <1>2 DEF TypeOK, Unrepeated
<1>3. \A q \in Queues : cq'[q] \in Seq(Events)
  BY <1>1, <1>2
<1>4. cq' \in [Queues -> Seq(Events)]
  BY <1>3
<1> QED
  BY <1>1, <1>2, <1>4 DEF Unrepeated, Waiting

\* An event is queued for the worker of queue q.
LEMMA EnqueueOne ==
  ASSUME TypeOK, Unrepeated, NEW q \in Queues, NEW e \in Events, e \notin Waiting(q),
         cq' = [cq EXCEPT ![q] = Append(@, e)]
  PROVE  /\ cq' \in [Queues -> Seq(Events)]
         /\ Unrepeated'
         /\ \A p \in Queues : Waiting(p)' = IF p = q THEN Waiting(q) \cup {e} ELSE Waiting(p)
<1>1. cq' = [p \in Queues |-> IF p \in {q} THEN Append(cq[p], e) ELSE cq[p]]
  BY DEF TypeOK
<1>2. {q} \in SUBSET Queues /\ \A p \in {q} : e \notin Waiting(p)
  OBVIOUS
<1> QED
  BY <1>1, <1>2, EnqueueFor

\* The worker of queue q takes its first event.
LEMMA DequeueOne ==
  ASSUME TypeOK, Unrepeated, NEW q \in Queues, cq[q] # <<>>,
         cq' = [cq EXCEPT ![q] = Tail(@)]
  PROVE  /\ cq' \in [Queues -> Seq(Events)]
         /\ Unrepeated'
         /\ Head(cq[q]) \in Events /\ Head(cq[q]) \in Waiting(q)
         /\ \A p \in Queues :
              Waiting(p)' = IF p = q THEN Waiting(q) \ {Head(cq[q])} ELSE Waiting(p)
<1>1. cq[q] \in Seq(Events) /\ Distinct(cq[q])
  BY DEF TypeOK, Unrepeated
<1>2. /\ Head(cq[q]) \in Events /\ Tail(cq[q]) \in Seq(Events)
      /\ Head(cq[q]) \in Range(cq[q])
      /\ Range(Tail(cq[q])) = Range(cq[q]) \ {Head(cq[q])}
      /\ Distinct(Tail(cq[q]))
  BY <1>1, Dequeue
<1>3. cq'[q] = Tail(cq[q])
  BY DEF TypeOK
<1>4. ASSUME NEW p \in Queues, p # q
      PROVE  cq'[p] = cq[p] /\ cq[p] \in Seq(Events) /\ Distinct(cq[p])
  BY <1>4 DEF TypeOK, Unrepeated
<1>5. \A p \in Queues : cq'[p] \in Seq(Events)
  BY <1>2, <1>3, <1>4
<1>6. cq' \in [Queues -> Seq(Events)]
  BY <1>5 DEF TypeOK
<1> QED
  BY <1>2, <1>3, <1>4, <1>6 DEF Unrepeated, Waiting

\* A queue whose events are unchanged keeps what is said of them.
LEMMA QueuesKept ==
  ASSUME UNCHANGED cq
  PROVE  (\A q \in Queues : Waiting(q)' = Waiting(q)) /\ (Unrepeated => Unrepeated')
  BY DEF Waiting, Unrepeated

\* The method of a call that was taken is performed, or its future is settled: the
\* call stays accounted for.
LEMMA PerformKeeps ==
  ASSUME TypeOK, IInv, NEW c \in Calls, handler[c] \in {"requested", "pending"},
         perform(c), UNCHANGED <<server, queue, served_by, broken, future>>
  PROVE  /\ handler' \in [Calls -> Handlers] /\ refused' \in BOOLEAN
         /\ result' \in [Calls -> {"none", "value", "error"}]
         /\ reply' \in [Calls -> {"none", "value", "error"}]
         /\ handler'[c] \in {"pending", "replied", "lost"}
         /\ \A d \in Calls : d # c => handler'[d] = handler[d]
         /\ refused => refused'
         /\ handler'[c] = "replied" => \A q \in served_by[c] : queue[q] = "open"
         /\ CallPhases' /\ CallState' /\ Answered'
<1>1. PICK h \in {"pending", "replied", "lost"}, r \in {"none", "value", "error"},
           b \in {"none", "value", "error"} :
        /\ handler' = [handler EXCEPT ![c] = h]
        /\ result' = [result EXCEPT ![c] = r] /\ reply' = [reply EXCEPT ![c] = b]
        /\ h = "pending" => r = result[c] /\ b = reply[c] /\ refused' = refused
        /\ h = "replied" => /\ b = r /\ r # "none" /\ refused' = refused
                            /\ \A q \in served_by[c] : queue[q] = "open"
        /\ h = "lost" => /\ r # "none" /\ b = reply[c] /\ refused' = TRUE
                         /\ \E q \in served_by[c] : queue[q] # "open"
  <2>1. CASE handler' = [handler EXCEPT ![c] = "pending"] /\ UNCHANGED <<result, reply, refused>>
    <3>1. /\ result' = [result EXCEPT ![c] = result[c]] /\ reply' = [reply EXCEPT ![c] = reply[c]]
          /\ result[c] \in {"none", "value", "error"} /\ reply[c] \in {"none", "value", "error"}
      BY <2>1 DEF TypeOK
    <3> QED
      BY <2>1, <3>1
  <2>2. CASE finish(c)
    <3>1. PICK r \in {"value", "error"} : result' = [result EXCEPT ![c] = r] /\ SendReply(c, r)
      BY <2>2 DEF finish
    <3>2. reply[c] \in {"none", "value", "error"} /\ reply = [reply EXCEPT ![c] = reply[c]]
      BY DEF TypeOK
    <3>3. CASE \A q \in served_by[c] : queue[q] = "open"
      BY <3>1, <3>3 DEF SendReply
    <3>4. CASE ~(\A q \in served_by[c] : queue[q] = "open")
      BY <3>1, <3>2, <3>4 DEF SendReply
    <3> QED
      BY <3>3, <3>4
  <2> QED
    BY <2>1, <2>2 DEF perform
<1>2. /\ handler' \in [Calls -> Handlers] /\ refused' \in BOOLEAN
      /\ result' \in [Calls -> {"none", "value", "error"}]
      /\ reply' \in [Calls -> {"none", "value", "error"}]
      /\ refused => refused'
  <2>1. refused' = refused \/ refused' = TRUE
    BY <1>1
  <2>2. refused' \in BOOLEAN /\ (refused => refused')
    BY <2>1, Zenon DEF TypeOK
  <2>3. h \in Handlers
    BY DEF Handlers
  <2>4. /\ handler' \in [Calls -> Handlers]
        /\ result' \in [Calls -> {"none", "value", "error"}]
        /\ reply' \in [Calls -> {"none", "value", "error"}]
    BY <1>1, <2>3 DEF TypeOK
  <2> QED
    BY <2>2, <2>4
<1>3. /\ handler'[c] = h /\ result'[c] = r /\ reply'[c] = b
      /\ \A d \in Calls : d # c => handler'[d] = handler[d] /\ result'[d] = result[d] /\ reply'[d] = reply[d]
  BY <1>1 DEF TypeOK
<1>4. result[c] = "none" /\ reply[c] = "none" /\ served_by[c] # {}
  BY DEF IInv, CallState
<1>5. CallPhases'
  <2>1. h = "lost" => server = "destroyed"
    BY <1>1, <1>4 DEF IInv, Phases, TypeOK
  <2> QED
    BY <1>3, <2>1 DEF IInv, CallPhases
<1>6. CallState'
  BY <1>1, <1>3, <1>4 DEF IInv, CallState
<1>7. Answered'
  BY <1>3, <1>4 DEF IInv, Answered
<1> QED
  BY <1>1, <1>2, <1>3, <1>5, <1>6, <1>7

\* Each disjunct of Next, for the case distinction below.
LEMMA NextCases ==
  ASSUME [Next]_vars
  PROVE  \/ Construct \/ add_listening_ports_fails \/ Move \/ DestroyMovedFrom
         \/ Notified \/ cleanup \/ UNCHANGED vars
         \/ \E q \in Queues :
              \/ listen(q) \/ ShutdownQueue(q) \/ JoinWorker(q)
              \/ exec_call(q) \/ inject(q) \/ exec_failed(q) \/ exec_sent(q)
         \/ \E c \in Calls : \/ start_unary_call(c) \/ start_refused(c) \/ Break(c)
                             \/ MethodReplies(c) \/ BatchDone(c) \/ exec_completion(c)
         \/ \E q \in Queues, c \in Calls : Take(q, c)
  BY DEF Next, Worker, Done

\* Nothing waits for the server before it starts.
LEMMA Construct_step ==
  ASSUME TypeOK, IInv, Construct
  PROVE  TypeOK' /\ IInv'
<1>1. /\ UNCHANGED cq
      /\ (\A p \in Queues : Waiting(p)' = Waiting(p)) /\ Unrepeated'
  BY QueuesKept DEF Construct, serverVars, callVars, IInv
<1>2. TypeOK'
  BY DEF TypeOK, Handlers, Construct, serverVars, callVars
<1>3. Phases'
  BY DEF IInv, Phases, CallPhases, TypeOK, Construct, serverVars, callVars
<1>4. CallPhases'
  BY DEF IInv, CallPhases, Phases, TypeOK, Construct, serverVars, callVars
<1>5. CallState' /\ Answered'
  BY DEF IInv, CallState, Answered, CallPhases, TypeOK, Construct, serverVars, callVars
<1>6. EventState'
  BY <1>1 DEF IInv, EventState, CallState, TypeOK, Construct, serverVars, callVars
<1>7. JoinState'
  BY <1>1 DEF IInv, JoinState, Phases, CallState, TypeOK, Construct, serverVars, callVars
<1> QED
  BY <1>1, <1>2, <1>3, <1>4, <1>5, <1>6, <1>7 DEF IInv

\* A server that could not bind its ports has served nothing.
LEMMA add_listening_ports_fails_step ==
  ASSUME TypeOK, IInv, add_listening_ports_fails
  PROVE  TypeOK' /\ IInv'
<1>1. /\ UNCHANGED cq
      /\ (\A p \in Queues : Waiting(p)' = Waiting(p)) /\ Unrepeated'
  BY QueuesKept DEF add_listening_ports_fails, serverVars, callVars, IInv
<1>2. TypeOK'
  BY DEF TypeOK, Handlers, add_listening_ports_fails, serverVars, callVars
<1>3. Phases'
  BY DEF IInv, Phases, CallPhases, TypeOK, add_listening_ports_fails, serverVars, callVars
<1>4. CallPhases'
  BY DEF IInv, CallPhases, Phases, TypeOK, add_listening_ports_fails, serverVars, callVars
<1>5. CallState' /\ Answered'
  BY DEF IInv, CallState, Answered, CallPhases, TypeOK, add_listening_ports_fails, serverVars, callVars
<1>6. EventState'
  BY <1>1 DEF IInv, EventState, CallState, TypeOK, add_listening_ports_fails, serverVars, callVars
<1>7. JoinState'
  BY <1>1 DEF IInv, JoinState, Phases, CallState, TypeOK, add_listening_ports_fails, serverVars, callVars
<1> QED
  BY <1>1, <1>2, <1>3, <1>4, <1>5, <1>6, <1>7 DEF IInv

\* A move touches no call.
LEMMA Move_step ==
  ASSUME TypeOK, IInv, Move
  PROVE  TypeOK' /\ IInv'
<1>1. /\ UNCHANGED cq
      /\ (\A p \in Queues : Waiting(p)' = Waiting(p)) /\ Unrepeated'
  BY QueuesKept DEF Move, serverVars, callVars, IInv
<1>2. TypeOK'
  BY DEF TypeOK, Handlers, Move, serverVars, callVars
<1>3. Phases'
  BY DEF IInv, Phases, CallPhases, TypeOK, Move, serverVars, callVars
<1>4. CallPhases'
  BY DEF IInv, CallPhases, Phases, TypeOK, Move, serverVars, callVars
<1>5. CallState' /\ Answered'
  BY DEF IInv, CallState, Answered, CallPhases, TypeOK, Move, serverVars, callVars
<1>6. EventState'
  BY <1>1 DEF IInv, EventState, CallState, TypeOK, Move, serverVars, callVars
<1>7. JoinState'
  BY <1>1 DEF IInv, JoinState, Phases, CallState, TypeOK, Move, serverVars, callVars
<1> QED
  BY <1>1, <1>2, <1>3, <1>4, <1>5, <1>6, <1>7 DEF IInv

\* features_ die with the object that was moved from.
LEMMA DestroyMovedFrom_step ==
  ASSUME TypeOK, IInv, DestroyMovedFrom
  PROVE  TypeOK' /\ IInv'
<1>1. /\ UNCHANGED cq
      /\ (\A p \in Queues : Waiting(p)' = Waiting(p)) /\ Unrepeated'
  BY QueuesKept DEF DestroyMovedFrom, serverVars, callVars, IInv
<1>2. TypeOK'
  BY DEF TypeOK, Handlers, DestroyMovedFrom, serverVars, callVars
<1>3. Phases'
  BY DEF IInv, Phases, CallPhases, TypeOK, DestroyMovedFrom, serverVars, callVars
<1>4. CallPhases'
  BY DEF IInv, CallPhases, Phases, TypeOK, DestroyMovedFrom, serverVars, callVars
<1>5. CallState' /\ Answered'
  BY DEF IInv, CallState, Answered, CallPhases, TypeOK, DestroyMovedFrom, serverVars, callVars
<1>6. EventState'
  BY <1>1 DEF IInv, EventState, CallState, TypeOK, DestroyMovedFrom, serverVars, callVars
<1>7. JoinState'
  BY <1>1 DEF IInv, JoinState, Phases, CallState, TypeOK, DestroyMovedFrom, serverVars, callVars
<1> QED
  BY <1>1, <1>2, <1>3, <1>4, <1>5, <1>6, <1>7 DEF IInv

\* The notification comes when no unbroken call is at work.
LEMMA Notified_step ==
  ASSUME TypeOK, IInv, Notified
  PROVE  TypeOK' /\ IInv'
<1>1. /\ UNCHANGED cq
      /\ (\A p \in Queues : Waiting(p)' = Waiting(p)) /\ Unrepeated'
  BY QueuesKept DEF Notified, serverVars, callVars, Over, IInv
<1>2. TypeOK'
  BY DEF TypeOK, Handlers, Notified, serverVars, callVars, Over
<1>3. Phases'
  BY DEF IInv, Phases, CallPhases, TypeOK, Notified, serverVars, callVars, Over
<1>4. CallPhases'
  BY DEF IInv, CallPhases, Phases, TypeOK, Notified, serverVars, callVars, Over
<1>5. CallState' /\ Answered'
  BY DEF IInv, CallState, Answered, CallPhases, TypeOK, Notified, serverVars, callVars, Over
<1>6. EventState'
  BY <1>1 DEF IInv, EventState, CallState, TypeOK, Notified, serverVars, callVars, Over
<1>7. JoinState'
  BY <1>1 DEF IInv, JoinState, Phases, CallState, TypeOK, Notified, serverVars, callVars, Over
<1> QED
  BY <1>1, <1>2, <1>3, <1>4, <1>5, <1>6, <1>7 DEF IInv

\* A listener starts to wait on a server that is up.
LEMMA listen_step ==
  ASSUME TypeOK, IInv, NEW q \in Queues, listen(q)
  PROVE  TypeOK' /\ IInv'
<1>1. /\ UNCHANGED cq
      /\ (\A p \in Queues : Waiting(p)' = Waiting(p)) /\ Unrepeated'
  BY QueuesKept DEF listen, serverVars, callVars, IInv
<1>2. TypeOK'
  BY DEF TypeOK, Handlers, listen, serverVars, callVars
<1>3. Phases'
  BY DEF IInv, Phases, CallPhases, TypeOK, listen, serverVars, callVars
<1>4. CallPhases'
  BY DEF IInv, CallPhases, Phases, TypeOK, listen, serverVars, callVars
<1>5. CallState' /\ Answered'
  BY DEF IInv, CallState, Answered, CallPhases, TypeOK, listen, serverVars, callVars
<1>6. EventState'
  BY <1>1 DEF IInv, EventState, CallState, TypeOK, listen, serverVars, callVars
<1>7. JoinState'
  BY <1>1 DEF IInv, JoinState, Phases, CallState, TypeOK, listen, serverVars, callVars
<1> QED
  BY <1>1, <1>2, <1>3, <1>4, <1>5, <1>6, <1>7 DEF IInv

\* A queue is shut down after the server.
LEMMA ShutdownQueue_step ==
  ASSUME TypeOK, IInv, NEW q \in Queues, ShutdownQueue(q)
  PROVE  TypeOK' /\ IInv'
<1>1. /\ UNCHANGED cq
      /\ (\A p \in Queues : Waiting(p)' = Waiting(p)) /\ Unrepeated'
  BY QueuesKept DEF ShutdownQueue, serverVars, callVars, IInv
<1>2. TypeOK'
  BY DEF TypeOK, Handlers, ShutdownQueue, serverVars, callVars
<1>3. Phases'
  BY DEF IInv, Phases, CallPhases, TypeOK, ShutdownQueue, serverVars, callVars
<1>4. CallPhases'
  BY DEF IInv, CallPhases, Phases, TypeOK, ShutdownQueue, serverVars, callVars
<1>5. CallState' /\ Answered'
  BY DEF IInv, CallState, Answered, CallPhases, TypeOK, ShutdownQueue, serverVars, callVars
<1>6. EventState'
  BY <1>1 DEF IInv, EventState, CallState, TypeOK, ShutdownQueue, serverVars, callVars
<1>7. JoinState'
  BY <1>1 DEF IInv, JoinState, Phases, CallState, TypeOK, ShutdownQueue, serverVars, callVars
<1> QED
  BY <1>1, <1>2, <1>3, <1>4, <1>5, <1>6, <1>7 DEF IInv

\* The worker ends when its queue is empty: nobody waits for an event.
LEMMA JoinWorker_step ==
  ASSUME TypeOK, IInv, NEW q \in Queues, JoinWorker(q)
  PROVE  TypeOK' /\ IInv'
<1>1. /\ UNCHANGED cq
      /\ (\A p \in Queues : Waiting(p)' = Waiting(p)) /\ Unrepeated'
  BY QueuesKept DEF JoinWorker, serverVars, callVars, IInv
<1>2. TypeOK'
  BY DEF TypeOK, Handlers, JoinWorker, serverVars, callVars
<1>3. Phases'
  BY DEF IInv, Phases, CallPhases, TypeOK, JoinWorker, serverVars, callVars
<1>4. CallPhases'
  BY DEF IInv, CallPhases, Phases, TypeOK, JoinWorker, serverVars, callVars
<1>5. CallState' /\ Answered'
  BY DEF IInv, CallState, Answered, CallPhases, TypeOK, JoinWorker, serverVars, callVars
<1>6. EventState'
  BY <1>1 DEF IInv, EventState, CallState, TypeOK, JoinWorker, serverVars, callVars
<1>7. JoinState'
  <2>1. Waiting(q) = {}
    BY NoEvents DEF JoinWorker, Waiting, TypeOK
  <2>2. listener[q] \in {"none", "deleted", "refused"}
    BY <2>1 DEF JoinWorker, IInv, EventState, TypeOK
  <2>3. \A c \in Calls : q \in served_by[c] => handler[c] \in {"pending", "lost", "deleted"}
    <3> SUFFICES ASSUME NEW c \in Calls, q \in served_by[c]
                 PROVE  handler[c] \in {"pending", "lost", "deleted"}
      OBVIOUS
    <3>1. handler[c] \notin {"none", "waiting", "rejected"}
      BY DEF IInv, CallState
    <3>2. handler[c] # "requested" /\ handler[c] # "sent"
      BY <2>1 DEF IInv, EventState
    <3>3. handler[c] # "replied" /\ handler[c] \in Handlers
      BY DEF JoinWorker, TypeOK
    <3> QED
      BY <3>1, <3>2, <3>3 DEF Handlers
  <2> QED
    BY <1>1, <2>2, <2>3 DEF JoinWorker, IInv, JoinState, TypeOK, serverVars, callVars
<1> QED
  BY <1>1, <1>2, <1>3, <1>4, <1>5, <1>6, <1>7 DEF IInv

\* A call that is started waits at a server that is up, or is rejected.
LEMMA start_unary_call_step ==
  ASSUME TypeOK, IInv, NEW c \in Calls, start_unary_call(c)
  PROVE  TypeOK' /\ IInv'
<1>1. /\ UNCHANGED cq
      /\ (\A p \in Queues : Waiting(p)' = Waiting(p)) /\ Unrepeated'
  BY QueuesKept DEF start_unary_call, serverVars, callVars, IInv
<1>2. TypeOK'
  BY DEF TypeOK, Handlers, start_unary_call, serverVars, callVars
<1>3. Phases'
  BY DEF IInv, Phases, CallPhases, TypeOK, start_unary_call, serverVars, callVars
<1>4. CallPhases'
  BY DEF IInv, CallPhases, Phases, TypeOK, start_unary_call, serverVars, callVars
<1>5. CallState' /\ Answered'
  BY DEF IInv, CallState, Answered, CallPhases, TypeOK, start_unary_call, serverVars, callVars
<1>6. EventState'
  BY <1>1 DEF IInv, EventState, CallState, TypeOK, start_unary_call, serverVars, callVars
<1>7. JoinState'
  BY <1>1 DEF IInv, JoinState, Phases, CallState, TypeOK, start_unary_call, serverVars, callVars
<1> QED
  BY <1>1, <1>2, <1>3, <1>4, <1>5, <1>6, <1>7 DEF IInv

\* A call that is refused is broken.
LEMMA start_refused_step ==
  ASSUME TypeOK, IInv, NEW c \in Calls, start_refused(c)
  PROVE  TypeOK' /\ IInv'
<1>1. /\ UNCHANGED cq
      /\ (\A p \in Queues : Waiting(p)' = Waiting(p)) /\ Unrepeated'
  BY QueuesKept DEF start_refused, serverVars, callVars, IInv
<1>2. TypeOK'
  BY DEF TypeOK, Handlers, start_refused, serverVars, callVars
<1>3. Phases'
  BY DEF IInv, Phases, CallPhases, TypeOK, start_refused, serverVars, callVars
<1>4. CallPhases'
  BY DEF IInv, CallPhases, Phases, TypeOK, start_refused, serverVars, callVars
<1>5. CallState' /\ Answered'
  BY DEF IInv, CallState, Answered, CallPhases, TypeOK, start_refused, serverVars, callVars
<1>6. EventState'
  BY <1>1 DEF IInv, EventState, CallState, TypeOK, start_refused, serverVars, callVars
<1>7. JoinState'
  BY <1>1 DEF IInv, JoinState, Phases, CallState, TypeOK, start_refused, serverVars, callVars
<1> QED
  BY <1>1, <1>2, <1>3, <1>4, <1>5, <1>6, <1>7 DEF IInv

\* A call that breaks has an error.
LEMMA Break_step ==
  ASSUME TypeOK, IInv, NEW c \in Calls, Break(c)
  PROVE  TypeOK' /\ IInv'
<1>1. /\ UNCHANGED cq
      /\ (\A p \in Queues : Waiting(p)' = Waiting(p)) /\ Unrepeated'
  BY QueuesKept DEF Break, serverVars, callVars, IInv
<1>2. TypeOK'
  BY DEF TypeOK, Handlers, Break, serverVars, callVars
<1>3. Phases'
  BY DEF IInv, Phases, CallPhases, TypeOK, Break, serverVars, callVars
<1>4. CallPhases'
  BY DEF IInv, CallPhases, Phases, TypeOK, Break, serverVars, callVars
<1>5. CallState' /\ Answered'
  BY DEF IInv, CallState, Answered, CallPhases, TypeOK, Break, serverVars, callVars
<1>6. EventState'
  BY <1>1 DEF IInv, EventState, CallState, TypeOK, Break, serverVars, callVars
<1>7. JoinState'
  BY <1>1 DEF IInv, JoinState, Phases, CallState, TypeOK, Break, serverVars, callVars
<1> QED
  BY <1>1, <1>2, <1>3, <1>4, <1>5, <1>6, <1>7 DEF IInv

\* The client is given what was sent.
LEMMA exec_completion_step ==
  ASSUME TypeOK, IInv, NEW c \in Calls, exec_completion(c)
  PROVE  TypeOK' /\ IInv'
<1>1. /\ UNCHANGED cq
      /\ (\A p \in Queues : Waiting(p)' = Waiting(p)) /\ Unrepeated'
  BY QueuesKept DEF exec_completion, serverVars, callVars, Status, IInv
<1>2. TypeOK'
  <2>1. Status(c) \subseteq {"value", "error"}
    BY DEF Status, TypeOK
  <2> QED
    BY <2>1 DEF TypeOK, exec_completion, serverVars
<1>3. Phases'
  BY DEF IInv, Phases, CallPhases, TypeOK, exec_completion, serverVars, callVars, Status
<1>4. CallPhases'
  BY DEF IInv, CallPhases, Phases, TypeOK, exec_completion, serverVars, callVars, Status
<1>5. CallState' /\ Answered'
  BY DEF IInv, CallState, Answered, CallPhases, TypeOK, exec_completion, serverVars, callVars, Status
<1>6. EventState'
  BY <1>1 DEF IInv, EventState, CallState, TypeOK, exec_completion, serverVars, callVars, Status
<1>7. JoinState'
  BY <1>1 DEF IInv, JoinState, Phases, CallState, TypeOK, exec_completion, serverVars, callVars, Status
<1> QED
  BY <1>1, <1>2, <1>3, <1>4, <1>5, <1>6, <1>7 DEF IInv

\* The failed request of a listener that waits is its event.
LEMMA FailedIsNew ==
  ASSUME TypeOK, IInv, NEW q \in Queues, listener[q] # "called"
  PROVE  Failed \notin Waiting(q)
  BY EventFields DEF IInv, EventState

\* The waiting listeners are called with a failure, the waiting calls rejected.
LEMMA cleanup_step ==
  ASSUME TypeOK, IInv, cleanup
  PROVE  TypeOK' /\ IInv'
<1> DEFINE S == {q \in Queues : listener[q] = "waiting"}
<1>1. /\ cq' \in [Queues -> Seq(Events)]
      /\ Unrepeated'
      /\ \A q \in Queues : Waiting(q)' = IF q \in S THEN Waiting(q) \cup {Failed} ELSE Waiting(q)
  <2>1. cq' = [q \in Queues |-> IF q \in S THEN Append(cq[q], Failed) ELSE cq[q]]
    BY DEF cleanup
  <2>2. \A q \in S : Failed \notin Waiting(q)
    BY FailedIsNew
  <2> HIDE DEF S
  <2>3. S \in SUBSET Queues
    BY DEF S
  <2> QED
    BY <2>1, <2>2, <2>3, EventFields, EnqueueFor DEF IInv
<1>2. TypeOK'
  BY <1>1 DEF TypeOK, Handlers, cleanup
<1>3. Phases'
  BY DEF IInv, Phases, TypeOK, cleanup
<1>4. CallPhases'
  BY DEF IInv, CallPhases, TypeOK, cleanup
<1>5. CallState' /\ Answered'
  BY DEF IInv, CallState, Answered, TypeOK, cleanup
<1>6. EventState'
  <2> SUFFICES ASSUME NEW q \in Queues PROVE EventState!(q)'
    BY DEF EventState
  <2> QED
    BY <1>1, EventFields DEF IInv, EventState, CallState, TypeOK, cleanup
<1>7. JoinState'
  BY DEF IInv, JoinState, Phases, TypeOK, cleanup
<1> QED
  BY <1>1, <1>2, <1>3, <1>4, <1>5, <1>6, <1>7 DEF IInv

\* The call that is given to a listener is its event.
LEMMA Take_step ==
  ASSUME TypeOK, IInv, NEW q \in Queues, NEW c \in Calls, Take(q, c)
  PROVE  TypeOK' /\ IInv'
<1>1. /\ cq' \in [Queues -> Seq(Events)]
      /\ Unrepeated'
      /\ \A p \in Queues : Waiting(p)' = IF p = q THEN Waiting(q) \cup {Taken(c)} ELSE Waiting(p)
  <2>1. Taken(c) \in Events /\ Taken(c) \notin Waiting(q)
    BY EventFields DEF Take, IInv, EventState
  <2> QED
    BY <2>1, EnqueueOne DEF IInv, Take
<1>2. TypeOK'
  BY <1>1 DEF TypeOK, Handlers, Take, serverVars
<1>3. Phases'
  BY DEF IInv, Phases, TypeOK, Take, serverVars
<1>4. CallPhases'
  BY DEF IInv, CallPhases, Phases, TypeOK, Take, serverVars
<1>5. CallState' /\ Answered'
  BY DEF IInv, CallState, Answered, TypeOK, Take
<1>6. EventState'
  <2> SUFFICES ASSUME NEW p \in Queues PROVE EventState!(p)'
    BY DEF EventState
  <2>1. \A d \in Calls : Taken(d) = Taken(c) => d = c
    BY EventFields
  <2> QED
    BY <1>1, <2>1, EventFields DEF IInv, EventState, CallState, TypeOK, Take
<1>7. JoinState'
  BY DEF IInv, JoinState, Phases, TypeOK, Take
<1> QED
  BY <1>1, <1>2, <1>3, <1>4, <1>5, <1>6, <1>7 DEF IInv

\* The next request waits, fails with an event or is refused.
LEMMA inject_step ==
  ASSUME TypeOK, IInv, NEW q \in Queues, inject(q)
  PROVE  TypeOK' /\ IInv'
<1>1. /\ cq' \in [Queues -> Seq(Events)]
      /\ Unrepeated'
      /\ \A p \in Queues : Waiting(p)' = IF p = q /\ Requested(q) = "called"
                                           THEN Waiting(q) \cup {Failed} ELSE Waiting(p)
  <2>1. CASE Requested(q) = "called"
    <3>1. cq' = [cq EXCEPT ![q] = Append(@, Failed)]
      BY <2>1 DEF inject
    <3>2. Failed \in Events /\ Failed \notin Waiting(q)
      BY EventFields, FailedIsNew DEF inject
    <3> QED
      BY <2>1, <3>1, <3>2, EnqueueOne DEF IInv
  <2>2. CASE Requested(q) # "called"
    <3>1. cq' = cq
      BY <2>2 DEF inject, TypeOK
    <3> QED
      BY <2>2, <3>1, QueuesKept DEF IInv, TypeOK
  <2> QED
    BY <2>1, <2>2
<1>2. /\ Requested(q) \in {"refused", "waiting", "called"}
      /\ Requested(q) = "waiting" => server \in {"starting", "running"}
      /\ Requested(q) \in {"waiting", "called"} => queue[q] = "open"
  BY DEF Requested
<1>3. TypeOK'
  <2>1. refused' \in BOOLEAN
    BY DEF inject
  <2> QED
    BY <1>1, <1>2, <2>1 DEF TypeOK, inject, serverVars, callVars
<1>4. Phases'
  BY <1>2 DEF IInv, Phases, TypeOK, inject, serverVars
<1>5. CallPhases'
  BY DEF IInv, CallPhases, inject, serverVars, callVars
<1>6. CallState' /\ Answered'
  BY DEF IInv, CallState, Answered, inject, callVars
<1>7. EventState'
  <2> SUFFICES ASSUME NEW p \in Queues PROVE EventState!(p)'
    BY DEF EventState
  <2> QED
    BY <1>1, <1>2, EventFields DEF IInv, EventState, TypeOK, inject, callVars
<1>8. JoinState'
  BY <1>2 DEF IInv, JoinState, TypeOK, inject, callVars
<1> QED
  BY <1>1, <1>3, <1>4, <1>5, <1>6, <1>7, <1>8 DEF IInv

\* The listener that has no event any more is deleted.
LEMMA exec_failed_step ==
  ASSUME TypeOK, IInv, NEW q \in Queues, exec_failed(q)
  PROVE  TypeOK' /\ IInv'
<1>1. /\ cq' \in [Queues -> Seq(Events)]
      /\ Unrepeated'
      /\ Head(cq[q]) \in Events /\ Head(cq[q]) \in Waiting(q)
      /\ \A p \in Queues :
           Waiting(p)' = IF p = q THEN Waiting(q) \ {Head(cq[q])} ELSE Waiting(p)
  BY DequeueOne DEF IInv, exec_failed
<1>2. TypeOK'
  BY <1>1 DEF TypeOK, exec_failed, serverVars, callVars
<1>3. Phases'
  BY DEF IInv, Phases, TypeOK, exec_failed, serverVars
<1>4. CallPhases'
  BY DEF IInv, CallPhases, exec_failed, serverVars, callVars
<1>5. CallState' /\ Answered'
  BY DEF IInv, CallState, Answered, exec_failed, callVars
<1>6. EventState'
  <2> SUFFICES ASSUME NEW p \in Queues PROVE EventState!(p)'
    BY DEF EventState
  <2>1. Head(cq[q]) = Failed
    BY DEF exec_failed
  <2> QED
    BY <1>1, <2>1, EventFields DEF IInv, EventState, TypeOK, exec_failed, callVars
<1>7. JoinState'
  BY DEF IInv, JoinState, TypeOK, exec_failed, callVars
<1> QED
  BY <1>1, <1>2, <1>3, <1>4, <1>5, <1>6, <1>7 DEF IInv

\* The handler that has no event any more is deleted.
LEMMA exec_sent_step ==
  ASSUME TypeOK, IInv, NEW q \in Queues, exec_sent(q)
  PROVE  TypeOK' /\ IInv'
<1>1. /\ cq' \in [Queues -> Seq(Events)]
      /\ Unrepeated'
      /\ Head(cq[q]) \in Events /\ Head(cq[q]) \in Waiting(q)
      /\ \A p \in Queues :
           Waiting(p)' = IF p = q THEN Waiting(q) \ {Head(cq[q])} ELSE Waiting(p)
  BY DequeueOne DEF IInv, exec_sent
<1>2. PICK c \in Calls : Head(cq[q]) = Sent(c) /\ Head(cq[q]).call = c
  BY <1>1, EventFields DEF exec_sent
<1>3. /\ handler[c] = "sent" /\ q \in served_by[c]
      /\ handler' = [handler EXCEPT ![c] = "deleted"]
  BY <1>2, <1>1 DEF IInv, EventState, exec_sent
<1>4. TypeOK'
  BY <1>1, <1>3 DEF TypeOK, Handlers, exec_sent, serverVars
<1>5. Phases'
  BY DEF IInv, Phases, exec_sent, serverVars
<1>6. CallPhases'
  BY <1>3 DEF IInv, CallPhases, TypeOK, exec_sent, serverVars
<1>7. CallState' /\ Answered'
  BY <1>3 DEF IInv, CallState, Answered, TypeOK, exec_sent
<1>8. EventState'
  <2> SUFFICES ASSUME NEW p \in Queues PROVE EventState!(p)'
    BY DEF EventState
  <2>1. \A d \in Calls : Sent(d) = Sent(c) => d = c
    BY EventFields
  <2>2. p # q => p \notin served_by[c]
    BY <1>3 DEF IInv, CallState
  <2> QED
    BY <1>2, <1>1, <1>3, <2>1, <2>2, EventFields DEF IInv, EventState, TypeOK, exec_sent
<1>9. JoinState'
  BY <1>3 DEF IInv, JoinState, TypeOK, exec_sent
<1> QED
  BY <1>1, <1>4, <1>5, <1>6, <1>7, <1>8, <1>9 DEF IInv

\* The call of the event is performed, and the listener has no event any more.
LEMMA exec_call_step ==
  ASSUME TypeOK, IInv, NEW q \in Queues, exec_call(q)
  PROVE  TypeOK' /\ IInv'
<1>1. /\ cq' \in [Queues -> Seq(Events)]
      /\ Unrepeated'
      /\ Head(cq[q]) \in Events /\ Head(cq[q]) \in Waiting(q)
      /\ \A p \in Queues :
           Waiting(p)' = IF p = q THEN Waiting(q) \ {Head(cq[q])} ELSE Waiting(p)
  BY DequeueOne DEF IInv, exec_call
<1>2. PICK c \in Calls : Head(cq[q]) = Taken(c) /\ Head(cq[q]).call = c
  BY <1>1, EventFields DEF exec_call
<1>3. handler[c] = "requested" /\ q \in served_by[c] /\ perform(c)
  BY <1>2, <1>1 DEF IInv, EventState, exec_call
<1>4. /\ handler' \in [Calls -> Handlers] /\ refused' \in BOOLEAN
      /\ result' \in [Calls -> {"none", "value", "error"}]
      /\ reply' \in [Calls -> {"none", "value", "error"}]
      /\ handler'[c] \in {"pending", "replied", "lost"}
      /\ \A d \in Calls : d # c => handler'[d] = handler[d]
      /\ refused => refused'
      /\ CallPhases' /\ CallState' /\ Answered'
  BY <1>3, PerformKeeps DEF exec_call, serverVars
<1>5. TypeOK'
  BY <1>1, <1>4 DEF TypeOK, exec_call, serverVars
<1>6. Phases'
  BY <1>4 DEF IInv, Phases, TypeOK, exec_call, serverVars
<1>7. EventState'
  <2> SUFFICES ASSUME NEW p \in Queues PROVE EventState!(p)'
    BY DEF EventState
  <2>1. \A d \in Calls : Taken(d) = Taken(c) => d = c
    BY EventFields
  <2>2. p # q => p \notin served_by[c]
    BY <1>3 DEF IInv, CallState
  <2> QED
    BY <1>2, <1>1, <1>3, <1>4, <2>1, <2>2, EventFields DEF IInv, EventState, TypeOK, exec_call
<1>8. JoinState'
  <2>1. queue[q] # "joined" /\ \A p \in Queues : p # q => p \notin served_by[c]
    BY <1>3 DEF IInv, CallState, JoinState, exec_call
  <2> SUFFICES ASSUME NEW p \in Queues, queue'[p] = "joined"
               PROVE  /\ cq'[p] = <<>> /\ listener'[p] \in {"none", "deleted", "refused"}
                      /\ \A d \in Calls : p \in served_by'[d] => handler'[d] \in {"pending", "lost", "deleted"}
    BY DEF JoinState
  <2>2. p # q /\ cq'[p] = cq[p] /\ listener'[p] = listener[p] /\ queue[p] = "joined"
    BY <2>1 DEF exec_call, TypeOK
  <2>3. UNCHANGED served_by
    BY DEF exec_call
  <2> QED
    BY <1>4, <2>1, <2>2, <2>3 DEF IInv, JoinState
<1> QED
  BY <1>1, <1>5, <1>6, <1>7, <1>8, <1>4 DEF IInv

\* The reply of a method that was at work is sent, or lost with its queue.
LEMMA MethodReplies_step ==
  ASSUME TypeOK, IInv, NEW c \in Calls, MethodReplies(c)
  PROVE  TypeOK' /\ IInv'
<1>1. (\A p \in Queues : Waiting(p)' = Waiting(p)) /\ Unrepeated'
  BY QueuesKept DEF MethodReplies, IInv
<1>2. handler[c] = "pending" /\ perform(c)
  BY DEF MethodReplies, perform
<1>3. /\ handler' \in [Calls -> Handlers] /\ refused' \in BOOLEAN
      /\ result' \in [Calls -> {"none", "value", "error"}]
      /\ reply' \in [Calls -> {"none", "value", "error"}]
      /\ handler'[c] \in {"pending", "replied", "lost"}
      /\ \A d \in Calls : d # c => handler'[d] = handler[d]
      /\ refused => refused'
      /\ handler'[c] = "replied" => \A q \in served_by[c] : queue[q] = "open"
      /\ CallPhases' /\ CallState' /\ Answered'
  BY <1>2, PerformKeeps DEF MethodReplies, serverVars
<1>4. TypeOK'
  BY <1>3 DEF TypeOK, MethodReplies, serverVars
<1>5. Phases'
  BY <1>3 DEF IInv, Phases, MethodReplies, serverVars
<1>6. EventState'
  <2> SUFFICES ASSUME NEW p \in Queues PROVE EventState!(p)'
    BY DEF EventState
  <2> QED
    BY <1>1, <1>2, <1>3 DEF IInv, EventState, MethodReplies
<1>7. JoinState'
  BY <1>3 DEF IInv, JoinState, MethodReplies
<1> QED
  BY <1>1, <1>4, <1>5, <1>6, <1>7, <1>3 DEF IInv

\* The end of the batch is the event of the handler.
LEMMA BatchDone_step ==
  ASSUME TypeOK, IInv, NEW c \in Calls, BatchDone(c)
  PROVE  TypeOK' /\ IInv'
<1>1. /\ cq' \in [Queues -> Seq(Events)]
      /\ Unrepeated'
      /\ \A q \in Queues : Waiting(q)' = IF q \in served_by[c] THEN Waiting(q) \cup {Sent(c)} ELSE Waiting(q)
  <2>1. served_by[c] \in SUBSET Queues /\ Sent(c) \in Events
    BY EventFields DEF TypeOK
  <2>2. \A q \in served_by[c] : Sent(c) \notin Waiting(q)
    BY <2>1 DEF BatchDone, IInv, EventState
  <2>3. cq' = [q \in Queues |-> IF q \in served_by[c] THEN Append(cq[q], Sent(c)) ELSE cq[q]]
    BY DEF BatchDone
  <2>4. PICK S : S = served_by[c]
    OBVIOUS
  <2>5. PICK e : e = Sent(c)
    OBVIOUS
  <2>6. /\ S \in SUBSET Queues /\ e \in Events /\ \A q \in S : e \notin Waiting(q)
        /\ cq' = [q \in Queues |-> IF q \in S THEN Append(cq[q], e) ELSE cq[q]]
    BY <2>1, <2>2, <2>3, <2>4, <2>5
  <2>7. /\ cq' \in [Queues -> Seq(Events)] /\ Unrepeated'
        /\ \A q \in Queues : Waiting(q)' = IF q \in S THEN Waiting(q) \cup {e} ELSE Waiting(q)
    BY <2>6, EnqueueFor DEF IInv
  <2> QED
    BY <2>4, <2>5, <2>7
<1>2. TypeOK'
  BY <1>1 DEF TypeOK, Handlers, BatchDone, serverVars
<1>3. Phases'
  BY DEF IInv, Phases, BatchDone, serverVars
<1>4. CallPhases'
  BY DEF IInv, CallPhases, TypeOK, BatchDone, serverVars
<1>5. CallState' /\ Answered'
  BY DEF IInv, CallState, Answered, TypeOK, BatchDone
<1>6. EventState'
  <2> SUFFICES ASSUME NEW p \in Queues PROVE EventState!(p)'
    BY DEF EventState
  <2>1. \A d \in Calls : Sent(d) = Sent(c) => d = c
    BY EventFields
  <2> QED
    <3>1. CASE p \in served_by[c]
      <4>1. Waiting(p)' = Waiting(p) \cup {Sent(c)} /\ Sent(c).of # "listener"
        BY <1>1, <3>1, EventFields
      <4>2. /\ listener' = listener /\ served_by' = served_by
            /\ handler[c] = "replied" /\ handler'[c] = "sent"
            /\ \A d \in Calls : d # c => handler'[d] = handler[d]
        BY DEF BatchDone, TypeOK
      <4>3. \A d \in Calls : Taken(d) # Sent(c)
        BY EventFields
      <4>4. \A e, f \in Waiting(p)' : e.of = "listener" /\ f.of = "listener" => e = f
        BY <4>1 DEF IInv, EventState
      <4>5. listener'[p] = "called" <=> \E e \in Waiting(p)' : e.of = "listener"
        BY <4>1, <4>2 DEF IInv, EventState
      <4>6. \A d \in Calls :
              /\ Taken(d) \in Waiting(p)' <=> handler'[d] = "requested" /\ p \in served_by'[d]
              /\ Sent(d) \in Waiting(p)' <=> handler'[d] = "sent" /\ p \in served_by'[d]
        BY <2>1, <3>1, <4>1, <4>2, <4>3 DEF IInv, EventState
      <4> QED
        BY <4>4, <4>5, <4>6
    <3>2. CASE p \notin served_by[c]
      BY <1>1, <3>2 DEF IInv, EventState, TypeOK, BatchDone
    <3> QED
      BY <3>1, <3>2
<1>7. JoinState'
  BY DEF IInv, JoinState, TypeOK, BatchDone
<1> QED
  BY <1>1, <1>2, <1>3, <1>4, <1>5, <1>6, <1>7 DEF IInv

----------------------------------------------------------------------------
\* Initially the types and the invariant hold.
LEMMA InitInv == Init => TypeOK /\ IInv
<1> SUFFICES ASSUME Init PROVE TypeOK /\ IInv
  OBVIOUS
<1>1. <<>> \in Seq(Events) /\ Distinct(<<>>) /\ Range(<<>>) = {}
  <2>1. <<>> \in Seq(Events) /\ Distinct(<<>>)
    BY DEF Distinct
  <2> QED
    BY <2>1, NoEvents
<1>2. \A q \in Queues : Waiting(q) = {} /\ Distinct(cq[q])
  BY <1>1 DEF Init, Waiting
<1>3. TypeOK
  BY <1>1 DEF Init, TypeOK, Handlers
<1>4. Phases /\ CallPhases /\ CallState /\ Answered
  BY DEF Init, Phases, CallPhases, CallState, Answered
<1>5. EventState /\ JoinState /\ Unrepeated
  BY <1>2 DEF Init, EventState, JoinState, Unrepeated
<1> QED
  BY <1>3, <1>4, <1>5 DEF IInv

\* Every step keeps the types and the invariant.
LEMMA InvStep == TypeOK /\ IInv /\ [Next]_vars => (TypeOK /\ IInv)'
<1> SUFFICES ASSUME TypeOK, IInv, [Next]_vars PROVE TypeOK' /\ IInv'
  OBVIOUS
<1>1. CASE Construct \/ add_listening_ports_fails \/ Move \/ DestroyMovedFrom \/ Notified \/ cleanup
  BY <1>1, Construct_step, add_listening_ports_fails_step, Move_step, DestroyMovedFrom_step,
     Notified_step, cleanup_step
<1>2. ASSUME NEW q \in Queues, \/ listen(q) \/ ShutdownQueue(q) \/ JoinWorker(q)
                               \/ exec_call(q) \/ inject(q) \/ exec_failed(q) \/ exec_sent(q)
      PROVE  TypeOK' /\ IInv'
  BY <1>2, listen_step, ShutdownQueue_step, JoinWorker_step, exec_call_step, inject_step,
     exec_failed_step, exec_sent_step
<1>3. ASSUME NEW c \in Calls, \/ start_unary_call(c) \/ start_refused(c) \/ Break(c)
                              \/ MethodReplies(c) \/ BatchDone(c) \/ exec_completion(c)
      PROVE  TypeOK' /\ IInv'
  BY <1>3, start_unary_call_step, start_refused_step, Break_step, MethodReplies_step,
     BatchDone_step, exec_completion_step
<1>4. ASSUME NEW q \in Queues, NEW c \in Calls, Take(q, c)
      PROVE  TypeOK' /\ IInv'
  BY <1>4, Take_step
<1>5. CASE UNCHANGED vars
  <2> USE <1>5 DEF vars
  <2>1. TypeOK'
    BY DEF TypeOK
  <2>2. Phases' /\ CallPhases' /\ CallState' /\ Answered'
    BY DEF IInv, Phases, CallPhases, CallState, Answered
  <2>3. EventState' /\ JoinState' /\ Unrepeated'
    BY QueuesKept DEF IInv, EventState, JoinState
  <2> QED
    BY <2>1, <2>2, <2>3 DEF IInv
<1> QED
  BY <1>1, <1>2, <1>3, <1>4, <1>5, NextCases

\* Type correctness, for any set of calls and queues.
THEOREM TypeCorrect == Spec => []TypeOK
  BY InitInv, InvStep, PTL DEF Spec

\* IInv holds in every reachable state of the server and its clients.
THEOREM Invariant == Spec => []IInv
  BY InitInv, InvStep, PTL DEF Spec

\* A client's future has what its own method gave; an error comes from elsewhere
\* only if the call broke or never reached a listener.
THEOREM CallsAnswered == Spec => []Answered
<1>1. IInv => Answered
  BY DEF IInv
<1> QED
  BY <1>1, Invariant, PTL

\* ~Completion_queue leaves no listener and no handler of an unbroken call behind.
THEOREM QueuesReclaimed == Spec => []Reclaimed
<1>1. TypeOK /\ IInv => Reclaimed
  <2> SUFFICES ASSUME TypeOK, IInv, NEW q \in Queues, queue[q] = "joined"
               PROVE  Reclaimed!(q)!2
    BY DEF Reclaimed
  <2>1. server = "destroyed" /\ (listener[q] = "refused" => refused)
    BY DEF IInv, Phases
  <2>2. \A c \in Calls : handler[c] \in {"pending", "lost"} => broken[c]
    BY <2>1 DEF IInv, CallPhases
  <2> QED
    BY <2>1, <2>2 DEF IInv, JoinState
<1> QED
  BY <1>1, TypeCorrect, Invariant, PTL

\* cleanup_ does not return, and features_ are not destroyed, before the methods
\* that work for a client have replied.
THEOREM FeaturesOutlive == Spec => []FeaturesOutliveCalls
<1>1. TypeOK /\ IInv => FeaturesOutliveCalls
  BY DEF TypeOK, IInv, Phases, CallPhases, FeaturesOutliveCalls
<1> QED
  BY <1>1, TypeCorrect, Invariant, PTL
=============================================================================
