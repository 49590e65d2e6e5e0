--------------------------- MODULE GrpcCall_proofs ---------------------------
(***************************************************************************)
(* What the operators of GrpcCall do to a call, and what queuing and       *)
(* taking events does to a queue that holds no event twice: the lemmas the *)
(* proofs about the server, the handlers and the sessions rest on.         *)
(***************************************************************************)
EXTENDS GrpcCall, SequenceTheorems, FiniteSetTheorems, TLAPS

\* No event is queued twice.
Distinct(s) == \A i, j \in 1..Len(s) : s[i] = s[j] => i = j

\* A call on which batches of B are started, which have the events E and the ends N.
CallType(B, E, N) ==
  [out : SUBSET B, cq : Seq(E), wire : Seq(Nat), end : N,
   final_requested : BOOLEAN, error : BOOLEAN]

----------------------------------------------------------------------------
\* Queues of events.

\* Queuing an event that is not in the queue adds it to the queue's events.
LEMMA Enqueue ==
  ASSUME NEW T, NEW s \in Seq(T), NEW e \in T, e \notin Range(s), Distinct(s)
  PROVE  /\ Append(s, e) \in Seq(T)
         /\ Range(Append(s, e)) = Range(s) \cup {e}
         /\ Distinct(Append(s, e))
<1>1. PICK t : t = Append(s, e)
  OBVIOUS
<1>2. /\ t \in Seq(T) /\ Len(t) = Len(s) + 1
      /\ \A i \in 1..Len(s) : t[i] = s[i]
      /\ t[Len(s) + 1] = e
  BY <1>1, AppendProperties
<1>3. Len(s) \in Nat /\ Range(s) = {s[i] : i \in 1..Len(s)} /\ Range(t) = {t[i] : i \in 1..Len(t)}
  BY <1>2, LenProperties, RangeEquality
<1>4. \A i \in 1..Len(t) : i \in 1..Len(s) \/ i = Len(s) + 1
  BY <1>2, <1>3
<1>5. 1..Len(s) \subseteq 1..Len(t) /\ Len(s) + 1 \in 1..Len(t)
  BY <1>2, <1>3
<1>6. Range(t) = Range(s) \cup {e}
  BY <1>2, <1>3, <1>4, <1>5, Zenon
<1>7. ASSUME NEW i \in 1..Len(t), NEW j \in 1..Len(t), t[i] = t[j]
      PROVE  i = j
  <2>1. CASE i \in 1..Len(s) /\ j \in 1..Len(s)
    BY <2>1, <1>2, <1>7 DEF Distinct
  <2>2. CASE i \in 1..Len(s) /\ j = Len(s) + 1
    BY <2>2, <1>2, <1>3, <1>7
  <2>3. CASE i = Len(s) + 1 /\ j \in 1..Len(s)
    BY <2>3, <1>2, <1>3, <1>7
  <2> QED
    BY <2>1, <2>2, <2>3, <1>4
<1>8. Distinct(t)
  BY <1>7 DEF Distinct
<1> QED
  BY <1>1, <1>2, <1>6, <1>8

\* Taking the first event of a queue without repetitions removes it.
LEMMA Dequeue ==
  ASSUME NEW T, NEW s \in Seq(T), s # <<>>, Distinct(s)
  PROVE  /\ Head(s) \in T /\ Tail(s) \in Seq(T)
         /\ Head(s) \in Range(s)
         /\ Range(Tail(s)) = Range(s) \ {Head(s)}
         /\ Distinct(Tail(s))
<1>1. PICK t : t = Tail(s)
  OBVIOUS
<1>2. /\ t \in Seq(T) /\ Len(t) = Len(s) - 1 /\ Head(s) \in T
      /\ \A i \in 1..Len(t) : t[i] = s[i + 1]
      /\ Head(s) = s[1]
  BY <1>1, HeadTailProperties
<1>3. /\ Len(s) \in Nat /\ Len(s) > 0 /\ Len(t) \in Nat
      /\ Range(s) = {s[i] : i \in 1..Len(s)} /\ Range(t) = {t[i] : i \in 1..Len(t)}
  <2>1. Len(s) \in Nat /\ Len(t) \in Nat /\ Len(s) # 0
    BY <1>2, LenProperties, EmptySeq
  <2>2. Range(s) = {s[i] : i \in 1..Len(s)} /\ Range(t) = {t[i] : i \in 1..Len(t)}
    BY <1>2, RangeEquality
  <2> QED
    BY <2>1, <2>2
<1>4. \A i \in 1..Len(t) : i + 1 \in 1..Len(s) /\ i + 1 # 1
  BY <1>2, <1>3
<1>5. 1 \in 1..Len(s) /\ \A i \in 1..Len(s) : i = 1 \/ (i - 1 \in 1..Len(t) /\ i = (i - 1) + 1)
  BY <1>2, <1>3
<1>6. Range(t) = Range(s) \ {Head(s)}
  <2>1. ASSUME NEW x \in Range(t) PROVE x \in Range(s) \ {Head(s)}
    <3>1. PICK i \in 1..Len(t) : x = t[i]
      BY <1>3
    <3>2. x = s[i + 1] /\ x # s[1]
      BY <3>1, <1>2, <1>4, <1>5 DEF Distinct
    <3> QED
      BY <3>2, <1>2, <1>3, <1>4
  <2>2. ASSUME NEW x \in Range(s), x # Head(s) PROVE x \in Range(t)
    <3>1. PICK i \in 1..Len(s) : x = s[i]
      BY <1>3
    <3>2. i - 1 \in 1..Len(t) /\ t[i - 1] = x
      BY <3>1, <2>2, <1>2, <1>5
    <3> QED
      BY <3>2, <1>3
  <2> QED
    BY <2>1, <2>2
<1>7. ASSUME NEW i \in 1..Len(t), NEW j \in 1..Len(t), t[i] = t[j]
      PROVE  i = j
  <2>1. i + 1 = j + 1
    BY <1>2, <1>4, <1>7 DEF Distinct
  <2> QED
    BY <2>1
<1>8. Head(s) \in Range(s)
  BY <1>2, <1>3, <1>5
<1> QED
  BY <1>1, <1>2, <1>6, <1>7, <1>8 DEF Distinct

\* An empty queue has no events, and only an empty queue.
LEMMA NoEvents ==
  ASSUME NEW T, NEW s \in Seq(T)
  PROVE  s = <<>> <=> Range(s) = {}
<1>1. Len(s) \in Nat /\ Range(s) = {s[i] : i \in 1..Len(s)} /\ (s = <<>> <=> Len(s) = 0)
  BY LenProperties, RangeEquality, EmptySeq
<1>2. CASE Len(s) = 0
  BY <1>1, <1>2
<1>3. CASE Len(s) # 0
  <2>1. 1 \in 1..Len(s)
    BY <1>1, <1>3
  <2> QED
    BY <1>1, <1>3, <2>1
<1> QED
  BY <1>2, <1>3

----------------------------------------------------------------------------
\* Calls.

\* A new call has nothing outstanding, queued or sent.
LEMMA NewFields ==
  ASSUME NEW B, NEW E, NEW N, "none" \in N
  PROVE  /\ NewCall \in CallType(B, E, N)
         /\ NewCall.out = {} /\ NewCall.cq = <<>> /\ Range(NewCall.cq) = {} /\ Distinct(NewCall.cq)
         /\ NewCall.wire = <<>> /\ NewCall.end = "none"
         /\ ~NewCall.final_requested /\ ~NewCall.error
<1>1. <<>> \in Seq(E) /\ <<>> \in Seq(Nat)
  OBVIOUS
<1>2. Range(<<>>) = {} /\ Distinct(<<>>)
  <2>1. Distinct(<<>>)
    BY DEF Distinct
  <2> QED
    BY <1>1, <2>1, NoEvents
<1>3. NewCall.out = {} /\ NewCall.cq = <<>> /\ NewCall.wire = <<>> /\ NewCall.end = "none"
  BY DEF NewCall
<1>4. NewCall.final_requested = FALSE /\ NewCall.error = FALSE
  BY DEF NewCall
<1>5. NewCall \in CallType(B, E, N)
  BY <1>1 DEF NewCall, CallType
<1> QED
  BY <1>2, <1>3, <1>4, <1>5

\* A batch that is accepted is outstanding, and what it sends is on the wire unless
\* the call has ended.
LEMMA StartFields ==
  ASSUME NEW B, NEW E, NEW N, NEW c \in CallType(B, E, N),
         NEW b \in B, b = [flags |-> b.flags, ops |-> b.ops],
         Legal(c, b.ops), b.ops \cap FinalRecvs = {}, NEW sends \in Seq(Nat),
         NEW d, d = StartBatch(c, b.flags, b.ops, sends)
  PROVE  /\ d \in CallType(B, E, N)
         /\ d.out = c.out \cup {b}
         /\ d.cq = c.cq /\ d.end = c.end
         /\ d.wire = IF c.end = "none" THEN c.wire \o sends ELSE c.wire
         /\ d.final_requested = c.final_requested /\ d.error = c.error
<1>1. PICK w : w = IF c.end = "none" THEN c.wire \o sends ELSE c.wire
  OBVIOUS
<1>2. PICK o : o = c.out \cup {[flags |-> b.flags, ops |-> b.ops]}
  OBVIOUS
<1>3. PICK f : f = (c.final_requested \/ b.ops \cap FinalRecvs # {})
  OBVIOUS
<1>4. d = [c EXCEPT !.out = o, !.wire = w, !.final_requested = f]
  BY <1>1, <1>2, <1>3, Zenon DEF StartBatch
<1>5. o \in SUBSET B /\ w \in Seq(Nat)
  BY <1>1, <1>2, ConcatProperties DEF CallType
<1>6. f = c.final_requested /\ f \in BOOLEAN
  BY <1>3 DEF CallType
<1>7. d \in CallType(B, E, N)
  BY <1>4, <1>5, <1>6 DEF CallType
<1>8. d.out = o /\ d.cq = c.cq /\ d.end = c.end /\ d.wire = w
  BY <1>4 DEF CallType
<1>9. d.final_requested = c.final_requested /\ d.error = c.error
  BY <1>4, <1>6 DEF CallType
<1> QED
  BY <1>1, <1>2, <1>7, <1>8, <1>9

\* A batch that ends the call, and asks for the peer's end.
LEMMA EndFields ==
  ASSUME NEW B, NEW E, NEW N, NEW c \in CallType(B, E, N),
         NEW b \in B, b = [flags |-> b.flags, ops |-> b.ops],
         Legal(c, b.ops), b.ops \cap FinalRecvs # {}, NEW end \in N,
         NEW d, d = EndBatch(c, b.flags, b.ops, end)
  PROVE  /\ d \in CallType(B, E, N)
         /\ d.out = c.out \cup {b}
         /\ d.cq = c.cq /\ d.end = end /\ d.wire = c.wire
         /\ d.final_requested /\ d.error = c.error
<1>1. PICK o : o = c.out \cup {[flags |-> b.flags, ops |-> b.ops]}
  OBVIOUS
<1>2. PICK w : w = IF c.end = "none" THEN c.wire \o <<>> ELSE c.wire
  OBVIOUS
<1>3. PICK f : f = (c.final_requested \/ b.ops \cap FinalRecvs # {})
  OBVIOUS
<1>4. PICK s : s = StartBatch(c, b.flags, b.ops, <<>>)
  OBVIOUS
<1>5. s = [c EXCEPT !.out = o, !.wire = w, !.final_requested = f]
  BY <1>1, <1>2, <1>3, <1>4, Zenon DEF StartBatch
<1>6. w = c.wire
  BY <1>2, ConcatEmptySeq DEF CallType
<1>7. f = TRUE
  BY <1>3
<1>8. d = [s EXCEPT !.end = end]
  BY <1>4, Zenon DEF EndBatch
<1>9. o \in SUBSET B
  BY <1>1 DEF CallType
<1>10. s \in CallType(B, E, N)
  BY <1>5, <1>6, <1>7, <1>9 DEF CallType
<1>11. s.out = o /\ s.cq = c.cq /\ s.wire = c.wire
  BY <1>5, <1>6 DEF CallType
<1>12. s.final_requested = TRUE /\ s.error = c.error
  BY <1>5, <1>7 DEF CallType
<1>13. d \in CallType(B, E, N)
  BY <1>8, <1>10 DEF CallType
<1>14. d.out = o /\ d.cq = c.cq /\ d.wire = c.wire /\ d.end = end
  BY <1>8, <1>10, <1>11 DEF CallType
<1>15. d.final_requested = TRUE /\ d.error = c.error
  BY <1>8, <1>10, <1>12 DEF CallType
<1> QED
  BY <1>1, <1>13, <1>14, <1>15

\* A batch that is accepted and sends nothing may ask for the peer's end.
LEMMA AskFields ==
  ASSUME NEW B, NEW E, NEW N, NEW c \in CallType(B, E, N),
         NEW b \in B, b = [flags |-> b.flags, ops |-> b.ops],
         Legal(c, b.ops), NEW s, s = <<>>,
         NEW d, d = StartBatch(c, b.flags, b.ops, s)
  PROVE  /\ d \in CallType(B, E, N)
         /\ d.out = c.out \cup {b}
         /\ d.cq = c.cq /\ d.end = c.end /\ d.wire = c.wire /\ d.error = c.error
         /\ d.final_requested <=> c.final_requested \/ b.ops \cap FinalRecvs # {}
<1>1. PICK w : w = IF c.end = "none" THEN c.wire \o s ELSE c.wire
  OBVIOUS
<1>2. PICK o : o = c.out \cup {[flags |-> b.flags, ops |-> b.ops]}
  OBVIOUS
<1>3. PICK f : f = (c.final_requested \/ b.ops \cap FinalRecvs # {})
  OBVIOUS
<1>4. d = [c EXCEPT !.out = o, !.wire = w, !.final_requested = f]
  BY <1>1, <1>2, <1>3, Zenon DEF StartBatch
<1>5. o \in SUBSET B /\ w = c.wire
  BY <1>1, <1>2, ConcatEmptySeq DEF CallType
<1>6. f \in BOOLEAN
  BY <1>3
<1>7. d \in CallType(B, E, N)
  BY <1>4, <1>5, <1>6 DEF CallType
<1>8. d.out = o /\ d.cq = c.cq /\ d.end = c.end /\ d.wire = w
  BY <1>4 DEF CallType
<1>9. d.final_requested = f /\ d.error = c.error
  BY <1>4, <1>6 DEF CallType
<1> QED
  BY <1>2, <1>3, <1>5, <1>7, <1>8, <1>9

\* A batch that ends the call without asking for the peer's end.
LEMMA ShutFields ==
  ASSUME NEW B, NEW E, NEW N, NEW c \in CallType(B, E, N),
         NEW b \in B, b = [flags |-> b.flags, ops |-> b.ops],
         Legal(c, b.ops), b.ops \cap FinalRecvs = {}, NEW end \in N,
         NEW d, d = EndBatch(c, b.flags, b.ops, end)
  PROVE  /\ d \in CallType(B, E, N)
         /\ d.out = c.out \cup {b}
         /\ d.cq = c.cq /\ d.end = end /\ d.wire = c.wire
         /\ d.final_requested = c.final_requested /\ d.error = c.error
<1>1. PICK s : s = <<>>
  OBVIOUS
<1>2. PICK x : x = StartBatch(c, b.flags, b.ops, s)
  OBVIOUS
<1>3. /\ x \in CallType(B, E, N)
      /\ x.out = c.out \cup {b}
      /\ x.cq = c.cq /\ x.end = c.end /\ x.wire = c.wire /\ x.error = c.error
      /\ x.final_requested <=> c.final_requested \/ b.ops \cap FinalRecvs # {}
  BY <1>1, <1>2, AskFields
<1>4. d = [x EXCEPT !.end = end]
  BY <1>1, <1>2, Zenon DEF EndBatch
<1>5. x.final_requested = c.final_requested
  BY <1>3 DEF CallType
<1>6. d \in CallType(B, E, N)
  BY <1>3, <1>4 DEF CallType
<1>7. d.out = x.out /\ d.cq = x.cq /\ d.wire = x.wire /\ d.end = end
  BY <1>3, <1>4 DEF CallType
<1>8. d.final_requested = x.final_requested /\ d.error = x.error
  BY <1>3, <1>4 DEF CallType
<1> QED
  BY <1>3, <1>5, <1>6, <1>7, <1>8

\* A batch that is refused leaves nothing but the error.
LEMMA RefusedFields ==
  ASSUME NEW B, NEW E, NEW N, NEW c \in CallType(B, E, N),
         NEW flags, NEW ops, NEW s, ~Legal(c, ops), NEW d, d = StartBatch(c, flags, ops, s)
  PROVE  /\ d \in CallType(B, E, N)
         /\ d.out = c.out /\ d.cq = c.cq /\ d.end = c.end /\ d.wire = c.wire
         /\ d.final_requested = c.final_requested /\ d.error
<1>1. d = [c EXCEPT !.error = TRUE]
  BY Zenon DEF StartBatch
<1>2. d \in CallType(B, E, N)
  BY <1>1 DEF CallType
<1>3. d.out = c.out /\ d.cq = c.cq /\ d.end = c.end /\ d.wire = c.wire
  BY <1>1 DEF CallType
<1>4. d.final_requested = c.final_requested /\ d.error = TRUE
  BY <1>1 DEF CallType
<1> QED
  BY <1>2, <1>3, <1>4

\* A batch that is done is an event.
LEMMA CompleteFields ==
  ASSUME NEW B, NEW E, NEW N, NEW c \in CallType(B, E, N), Distinct(c.cq),
         NEW b, NEW r, [flags |-> b.flags, result |-> r] \in E,
         [flags |-> b.flags, result |-> r] \notin Range(c.cq),
         NEW d, d = Complete(c, b, r)
  PROVE  /\ d \in CallType(B, E, N)
         /\ d.out = c.out \ {b}
         /\ Range(d.cq) = Range(c.cq) \cup {[flags |-> b.flags, result |-> r]} /\ Distinct(d.cq)
         /\ d.wire = c.wire /\ d.end = c.end
         /\ d.final_requested = c.final_requested /\ d.error = c.error
<1>1. PICK e : e = [flags |-> b.flags, result |-> r]
  OBVIOUS
<1>2. PICK s : s = Append(c.cq, e)
  OBVIOUS
<1>3. c.cq \in Seq(E) /\ c.out \in SUBSET B
  BY DEF CallType
<1>4. s \in Seq(E) /\ Range(s) = Range(c.cq) \cup {e} /\ Distinct(s)
  BY <1>1, <1>2, <1>3, Enqueue
<1>5. d = [c EXCEPT !.out = c.out \ {b}, !.cq = s]
  BY <1>1, <1>2, Zenon DEF Complete
<1>6. d \in CallType(B, E, N)
  BY <1>4, <1>5 DEF CallType
<1>7. d.out = c.out \ {b} /\ d.cq = s /\ d.wire = c.wire /\ d.end = c.end
  BY <1>5 DEF CallType
<1>8. d.final_requested = c.final_requested /\ d.error = c.error
  BY <1>5 DEF CallType
<1> QED
  BY <1>1, <1>4, <1>6, <1>7, <1>8

\* The worker takes the first event.
LEMMA TakeFields ==
  ASSUME NEW B, NEW E, NEW N, NEW c \in CallType(B, E, N), Distinct(c.cq), c.cq # <<>>,
         NEW d, d = TakeEvent(c)
  PROVE  /\ d \in CallType(B, E, N)
         /\ Head(c.cq) \in E /\ Head(c.cq) \in Range(c.cq)
         /\ d.out = c.out
         /\ Range(d.cq) = Range(c.cq) \ {Head(c.cq)} /\ Distinct(d.cq)
         /\ d.wire = c.wire /\ d.end = c.end
         /\ d.final_requested = c.final_requested /\ d.error = c.error
<1>1. PICK s : s = Tail(c.cq)
  OBVIOUS
<1>2. c.cq \in Seq(E)
  BY DEF CallType
<1>3. /\ Head(c.cq) \in E /\ Head(c.cq) \in Range(c.cq)
      /\ s \in Seq(E) /\ Range(s) = Range(c.cq) \ {Head(c.cq)} /\ Distinct(s)
  BY <1>1, <1>2, Dequeue
<1>4. d = [c EXCEPT !.cq = s]
  BY <1>1, Zenon DEF TakeEvent
<1>5. d \in CallType(B, E, N)
  BY <1>3, <1>4 DEF CallType
<1>6. d.out = c.out /\ d.cq = s /\ d.wire = c.wire /\ d.end = c.end
  BY <1>4 DEF CallType
<1>7. d.final_requested = c.final_requested /\ d.error = c.error
  BY <1>4 DEF CallType
<1> QED
  BY <1>3, <1>5, <1>6, <1>7

\* Grpc core completes one of the outstanding batches.
LEMMA CompletedBatch ==
  ASSUME NEW c, NEW from, NEW seen, NEW cut, NEW d \in Completed(c, from, seen, cut)
  PROVE  \E b \in c.out : \E r \in Results(b, from, seen, cut) : d = Complete(c, b, r)
  BY DEF Completed

\* A queue without messages.
LEMMA QueuedNone ==
  ASSUME NEW T, NEW c, c.cq \in Seq(T), \A e \in Range(c.cq) : e.result # "message"
  PROVE  Queued(c) = 0
<1>1. \A i \in 1..Len(c.cq) : c.cq[i] \in Range(c.cq)
  <2>1. PICK s : s = c.cq
    OBVIOUS
  <2>2. Range(s) = {s[i] : i \in 1..Len(s)}
    BY <2>1, RangeEquality
  <2> QED
    BY <2>1, <2>2
<1>2. {i \in 1..Len(c.cq) : c.cq[i].result = "message"} = {}
  BY <1>1
<1> QED
  BY <1>2, FS_EmptySet DEF Queued

\* The messages 1 to n, and the next one.
LEMMA MessagesNext ==
  ASSUME NEW n \in Nat
  PROVE  /\ Messages(n) \in Seq(Nat) /\ Len(Messages(n)) = n
         /\ Messages(n) \o <<n + 1>> = Messages(n + 1)
<1>1. PICK s : s = Messages(n)
  OBVIOUS
<1>2. PICK t : t = Messages(n + 1)
  OBVIOUS
<1>3. /\ s \in Seq(Nat) /\ Len(s) = n /\ \A i \in 1..n : s[i] = i
      /\ t \in Seq(Nat) /\ Len(t) = n + 1 /\ \A i \in 1..(n + 1) : t[i] = i
  BY <1>1, <1>2 DEF Messages
<1>4. PICK u : u = Append(s, n + 1)
  OBVIOUS
<1>5. /\ u \in Seq(Nat) /\ Len(u) = n + 1 /\ u[n + 1] = n + 1 /\ u = s \o <<n + 1>>
      /\ \A i \in 1..n : u[i] = s[i]
  BY <1>3, <1>4, AppendProperties, AppendIsConcat
<1>6. \A i \in 1..(n + 1) : u[i] = t[i]
  BY <1>3, <1>5
<1>7. u = t
  BY <1>3, <1>5, <1>6, SeqEqual
<1> QED
  BY <1>1, <1>2, <1>3, <1>5, <1>7

----------------------------------------------------------------------------
\* Messages that wait to be sent: the last ones of n, in the order of push.
Pending(ops, n) ==
  /\ ops \in Seq(Nat) /\ Len(ops) <= n
  /\ \A i \in 1..Len(ops) : ops[i] = n - Len(ops) + i

\* How many have been sent.
LEMMA PendingLen ==
  ASSUME NEW n \in Nat, NEW ops, Pending(ops, n)
  PROVE  /\ ops \in Seq(Nat) /\ Len(ops) \in Nat /\ n - Len(ops) \in Nat
         /\ Messages(n - Len(ops)) \in Seq(Nat) /\ Len(Messages(n - Len(ops))) = n - Len(ops)
         /\ ops = <<>> => n - Len(ops) = n
<1>1. ops \in Seq(Nat) /\ Len(ops) \in Nat /\ Len(ops) <= n
  BY LenProperties DEF Pending
<1>2. PICK k \in Nat : k = n - Len(ops)
  BY <1>1
<1>3. Messages(k) \in Seq(Nat) /\ Len(Messages(k)) = k
  BY MessagesNext
<1> QED
  BY <1>1, <1>2, <1>3

\* A push adds the next message to the pending ones.
LEMMA PendingPush ==
  ASSUME NEW n \in Nat, NEW ops, Pending(ops, n), NEW t, t = Append(ops, n + 1)
  PROVE  /\ Pending(t, n + 1) /\ t # <<>>
         /\ (n + 1) - Len(t) = n - Len(ops)
<1>1. /\ t \in Seq(Nat) /\ Len(t) = Len(ops) + 1 /\ t[Len(ops) + 1] = n + 1
      /\ \A i \in 1..Len(ops) : t[i] = ops[i]
  BY AppendProperties DEF Pending
<1>2. Len(ops) \in Nat /\ Len(ops) <= n
  BY PendingLen DEF Pending
<1>3. t # <<>>
  BY <1>1, <1>2
<1>4. ASSUME NEW i \in 1..Len(t) PROVE t[i] = (n + 1) - Len(t) + i
  <2>1. CASE i \in 1..Len(ops)
    BY <1>1, <1>2, <2>1 DEF Pending
  <2>2. CASE i = Len(ops) + 1
    BY <1>1, <1>2, <2>2
  <2> QED
    BY <1>1, <1>2, <2>1, <2>2
<1> QED
  BY <1>1, <1>2, <1>3, <1>4 DEF Pending

\* The oldest pending message is the next one on the wire.
LEMMA PendingSend ==
  ASSUME NEW n \in Nat, NEW ops, Pending(ops, n), ops # <<>>, NEW t, t = Tail(ops)
  PROVE  /\ Pending(t, n) /\ Head(ops) \in Nat
         /\ Messages(n - Len(ops)) \o <<Head(ops)>> = Messages(n - Len(t))
         /\ Len(Messages(n - Len(t))) = Len(Messages(n - Len(ops))) + 1
<1>1. /\ ops \in Seq(Nat) /\ Len(ops) \in Nat /\ Len(ops) <= n /\ Len(ops) # 0
      /\ \A i \in 1..Len(ops) : ops[i] = n - Len(ops) + i
  BY PendingLen, EmptySeq DEF Pending
<1>2. /\ Head(ops) = ops[1] /\ t \in Seq(Nat) /\ Len(t) = Len(ops) - 1
      /\ \A i \in 1..Len(t) : t[i] = ops[i + 1]
  BY <1>1, HeadTailProperties
<1>3. ASSUME NEW i \in 1..Len(t) PROVE t[i] = n - Len(t) + i
  <2>1. i + 1 \in 1..Len(ops) /\ t[i] = ops[i + 1]
    BY <1>1, <1>2
  <2>2. ops[i + 1] = n - Len(ops) + (i + 1)
    BY <1>1, <2>1
  <2> QED
    BY <1>1, <1>2, <2>1, <2>2
<1>4. PICK k \in Nat : k = n - Len(ops)
  BY <1>1
<1>5. k + 1 = n - Len(t) /\ Head(ops) = k + 1
  BY <1>1, <1>2, <1>4
<1>6. Messages(k) \o <<k + 1>> = Messages(k + 1) /\ Len(Messages(k)) = k
  BY MessagesNext
<1>7. PICK m \in Nat : m = k + 1
  OBVIOUS
<1>8. Len(Messages(m)) = m
  BY MessagesNext
<1>9. Pending(t, n)
  BY <1>1, <1>2, <1>3 DEF Pending
<1> QED
  BY <1>4, <1>5, <1>6, <1>7, <1>8, <1>9
=============================================================================
