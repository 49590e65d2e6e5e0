------------------------------ MODULE GrpcCall ------------------------------
(***************************************************************************)
(* The part of grpc core the sessions and call handlers use: a call on     *)
(* which batches of operations are started with grpc_call_start_batch, and *)
(* the completion queue their completions come back through.  grpc core is *)
(* not part of this repository; what is stated here is its API contract:   *)
(*   - at most one SEND_MESSAGE and one RECV_MESSAGE may be outstanding,   *)
(*     and the operations that end a direction may be requested once;      *)
(*     otherwise start_batch refuses the batch with                        *)
(*     GRPC_CALL_ERROR_TOO_MANY_OPERATIONS;                                *)
(*   - every batch that was accepted completes exactly once, and batches   *)
(*     of one call may complete in any order;                              *)
(*   - completions are handed to the one worker thread of a                *)
(*     Completion_queue in the order in which they were queued;            *)
(*   - what is sent reaches the peer in the order in which it was started. *)
(***************************************************************************)
EXTENDS Naturals, Sequences, FiniteSets

\* The operations that end the two directions of a call.
FinalSends == {"send_close", "send_status"}
FinalRecvs == {"recv_status", "recv_close"}

\* A call nothing has been started on: out, the batches grpc core works on;
\* cq, the completions not yet taken by the worker; wire, the messages sent, and
\* end, what ended them; final_requested, whether the peer's end was asked for;
\* error, whether a batch has been refused.
NewCall == [out |-> {}, cq |-> <<>>, wire |-> <<>>, end |-> "none",
            final_requested |-> FALSE, error |-> FALSE]

\* start_batch accepts a batch of these operations.
Legal(c, ops) ==
  /\ \A b \in c.out : b.ops \cap ops \cap {"send_message", "recv_message"} = {}
  /\ ops \cap FinalSends # {} => c.end = "none"
  /\ ops \cap FinalRecvs # {} => ~c.final_requested

\* grpc_call_start_batch with the tag completion_tag(flags): exec will be given
\* the flags back.  sends is what the batch puts on the wire, which carries
\* nothing after its end.
StartBatch(c, flags, ops, sends) ==
  IF Legal(c, ops)
    THEN [c EXCEPT !.out = @ \cup {[flags |-> flags, ops |-> ops]},
                   !.wire = IF c.end = "none" THEN @ \o sends ELSE @,
                   !.final_requested = @ \/ ops \cap FinalRecvs # {}]
    ELSE [c EXCEPT !.error = TRUE]

\* A batch with one of FinalSends, which sends this end.
EndBatch(c, flags, ops, end) ==
  [StartBatch(c, flags, ops, <<>>) EXCEPT !.end = IF Legal(c, ops) THEN end ELSE @]

\* What batch b can complete with: from is the peer's side of the call, seen the
\* number of its messages received so far, cut whether the call was cut off, after
\* which messages may be lost.
Results(b, from, seen, cut) ==
  IF "recv_status" \in b.ops THEN IF cut THEN {"error"} ELSE {from.end} \ {"none"}
  ELSE IF "recv_message" \in b.ops
    THEN {r \in {"message", "null"} :
            IF r = "message" THEN seen < Len(from.wire)
                             ELSE cut \/ (from.end # "none" /\ seen = Len(from.wire))}
    ELSE {"none"}

\* Batch b is done: its event is queued, with what a receive produced.
Complete(c, b, result) ==
  [c EXCEPT !.out = @ \ {b},
            !.cq = Append(@, [flags |-> b.flags, result |-> result])]

\* The ways in which grpc core can complete a batch of c.
Completed(c, from, seen, cut) ==
  UNION {{Complete(c, b, r) : r \in Results(b, from, seen, cut)} : b \in c.out}

\* The messages in the completions that wait for the worker.
Queued(c) == Cardinality({i \in 1..Len(c.cq) : c.cq[i].result = "message"})

\* The first event is one for these flags.
Event(c, flags) == c.cq # <<>> /\ Head(c.cq).flags = flags

\* The worker has taken the first event.
TakeEvent(c) == [c EXCEPT !.cq = Tail(@)]

\* Messages 1 to n in the order of push.
Messages(n) == [i \in 1..n |-> i]

\* Nothing more will be handed to the object the tags point to.
Quiescent(c) == c.out = {} /\ c.cq = <<>>
=============================================================================
