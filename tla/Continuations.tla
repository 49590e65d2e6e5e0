--------------------------- MODULE Continuations ---------------------------
(***************************************************************************)
(* Futures chained the way an application does it:                         *)
(*     join(f_1, ..., f_N).then(queue, cb)                                 *)
(* or with then_expect.  Each f_i comes from a promise some thread settles *)
(* or from async(queue, ...); cb returns a value, throws, or returns a     *)
(* future that is settled later.                                           *)
(*                                                                         *)
(* What FutureStorage shows of one storage is taken as a step here: its    *)
(* handler runs once, in whichever comes later of the settling and the     *)
(* attaching.  The tasks of a queue run one after the other; a task that   *)
(* settles some f_i also runs the callback of join, and here the queue may *)
(* go on before that callback is through.                                  *)
(***************************************************************************)
EXTENDS Naturals, Sequences, FiniteSets, FiniteSetsExt

CONSTANT N        \* the number of futures joined

ASSUME NAssumption == N \in Nat \ {0, 1}

Sources == 1..N

VARIABLES
  source,      \* what f_i was settled with: "new", "pending", "value" or "error"
  bound,       \* how many of the futures bind_landing has called finally on
  joiner,      \* the future whose callback the joining thread runs, or 0
  landing,     \* landing_: "value" from the start, as expected<T>{} has one
  landed,      \* callbacks between writing their slot and ping
  pinged,      \* callbacks that are done
  fullfilled,  \* fullfilled_
  joined,      \* what the joined future was finished with, in order
  chained,     \* "no", "then" or "then_expect" was called on the joined future
  tasks,       \* the queue
  inner,       \* the future cb returned: "none", "pending" or "settled"
  ran,         \* how often cb was invoked
  result       \* what the chain's future was settled with, in order

vars == <<source, bound, joiner, landing, landed, pinged, fullfilled, joined,
          chained, tasks, inner, ran, result>>

joinVars == <<bound, joiner, landing, landed, pinged, fullfilled>>
chainVars == <<inner, ran, result>>

Init ==
  /\ source = [i \in Sources |-> "new"]
  /\ bound = 0 /\ joiner = 0 /\ fullfilled = 0
  /\ landing = [i \in Sources |-> "value"]
  /\ landed = {} /\ pinged = {}
  /\ joined = <<>> /\ chained = "no" /\ tasks = <<>>
  /\ inner = "none" /\ ran = 0 /\ result = <<>>

----------------------------------------------------------------------------
\* Where the futures come from.

\* A promise and its future.
MakePromise(i) ==
  /\ source[i] = "new"
  /\ source' = [source EXCEPT ![i] = "pending"]
  /\ UNCHANGED <<joinVars, joined, chained, tasks, chainVars>>

\* async: the task that will settle the future is queued.
async(i) ==
  /\ source[i] = "new"
  /\ source' = [source EXCEPT ![i] = "pending"]
  /\ tasks' = Append(tasks, [task |-> "async", of |-> i])
  /\ UNCHANGED <<joinVars, joined, chained, chainVars>>

Queued(i) == \E k \in 1..Len(tasks) : tasks[k].task = "async" /\ tasks[k].of = i

\* The promise is settled, or dropped, which fails it.
Settle(i) ==
  /\ source[i] = "pending" /\ ~Queued(i)
  /\ \E r \in {"value", "error"} : source' = [source EXCEPT ![i] = r]
  /\ UNCHANGED <<joinVars, joined, chained, tasks, chainVars>>

----------------------------------------------------------------------------
\* join.

\* bind_landing calls finally on the next future, and runs the callback itself
\* if the future is settled already.
bind_landing ==
  /\ bound < N /\ joiner = 0
  /\ \A i \in Sources : source[i] # "new"
  /\ bound' = bound + 1
  /\ joiner' = IF source[bound + 1] = "pending" THEN 0 ELSE bound + 1
  /\ UNCHANGED <<source, landing, landed, pinged, fullfilled, joined, chained,
                 tasks, chainVars>>

\* The callback of future i writes its slot ...
Land(i) ==
  /\ i <= bound /\ source[i] # "pending" /\ i \notin landed \cup pinged
  /\ landing' = [landing EXCEPT ![i] = source[i]]
  /\ landed' = landed \cup {i}
  /\ UNCHANGED <<source, bound, joiner, pinged, fullfilled, joined, chained,
                 tasks, chainVars>>

\* A bug: the error that comes last by position.
get_first_error_mutant(f) ==
  LET errors == {i \in Sources : f[i] = "error"}
  IN  IF errors = {} THEN 0 ELSE Max(errors)

\* get_first_error goes by position.
get_first_error(f) ==
  LET errors == {i \in Sources : f[i] = "error"}
  IN  IF errors = {} THEN 0 ELSE Min(errors)

\* The task Future_then_handler queues when the future is finished; a failure is
\* queued, too.
then_task(f) ==
  IF get_first_error(f) = 0 THEN [task |-> "run", of |-> 0]
                            ELSE [task |-> "fail", of |-> get_first_error(f)]

\* The one of Future_then_expect_handler, which has cb look at what failed.
then_expect_task(f) == [task |-> "run", of |-> 0]

do_finish(how, f) == IF how = "then" THEN then_task(f) ELSE then_expect_task(f)

\* A bug: the increment of a thread that another one overtakes is lost.
ping_mutant(i) ==
  /\ i \in landed
  /\ landed' = landed \ {i} /\ pinged' = pinged \cup {i}
  /\ joiner' = IF joiner = i THEN 0 ELSE joiner
  /\ fullfilled' = IF landed = {i} THEN fullfilled + 1 ELSE fullfilled
  /\ IF fullfilled' = N
       THEN /\ joined' = Append(joined, landing)
            /\ tasks' = IF chained = "no" THEN tasks ELSE Append(tasks, do_finish(chained, landing))
       ELSE UNCHANGED <<joined, tasks>>
  /\ UNCHANGED <<source, bound, landing, chained, chainVars>>

\* ... and pings: the last one finishes the joined future.
ping(i) ==
  /\ i \in landed
  /\ landed' = landed \ {i} /\ pinged' = pinged \cup {i}
  /\ joiner' = IF joiner = i THEN 0 ELSE joiner
  /\ fullfilled' = fullfilled + 1
  /\ IF fullfilled' = N
       THEN /\ joined' = Append(joined, landing)
            /\ tasks' = IF chained = "no" THEN tasks ELSE Append(tasks, do_finish(chained, landing))
       ELSE UNCHANGED <<joined, tasks>>
  /\ UNCHANGED <<source, bound, landing, chained, chainVars>>

\* then or then_expect on the future join returned; the queue is given the task
\* here if the future is finished already.
then(how) ==
  /\ bound = N /\ joiner = 0 /\ chained = "no"
  /\ chained' = how
  /\ tasks' = IF joined = <<>> THEN tasks ELSE Append(tasks, do_finish(how, Head(joined)))
  /\ UNCHANGED <<source, joinVars, joined, chainVars>>

----------------------------------------------------------------------------
\* The queue's worker.

Task == Head(tasks)
Take == tasks # <<>> /\ tasks' = Tail(tasks)

\* The task of async: its callback returns or throws.
RunAsync ==
  /\ Take /\ Task.task = "async"
  /\ \E r \in {"value", "error"} : source' = [source EXCEPT ![Task.of] = r]
  /\ UNCHANGED <<joinVars, joined, chained, chainVars>>

\* The outcomes of the chain: 0 a value, i the error of f_i, N + 1 one of cb's own.
\* do_fullfill: cb is invoked; it returns a value or throws ...
RunCallback ==
  /\ Take /\ Task.task = "run" /\ ran' = ran + 1
  /\ \E r \in {0, N + 1} : result' = Append(result, r)
  /\ UNCHANGED <<source, joinVars, joined, chained, inner>>

\* ... or a future, whose outcome fullfill will pass on.
RunReturnsFuture ==
  /\ Take /\ Task.task = "run" /\ ran' = ran + 1
  /\ inner' = "pending"
  /\ UNCHANGED <<source, joinVars, joined, chained, result>>

SettleInner ==
  /\ inner = "pending" /\ inner' = "settled"
  /\ \E r \in {0, N + 1} : result' = Append(result, r)
  /\ UNCHANGED <<source, joinVars, joined, chained, tasks, ran>>

\* do_fail: the failure is passed on, and cb destroyed.
RunFail ==
  /\ Take /\ Task.task = "fail"
  /\ result' = Append(result, Task.of)
  /\ UNCHANGED <<source, joinVars, joined, chained, inner, ran>>

Worker == RunAsync \/ RunCallback \/ RunReturnsFuture \/ RunFail

Done == result # <<>> /\ tasks = <<>> /\ UNCHANGED vars

Next ==
  \/ \E i \in Sources : MakePromise(i) \/ async(i) \/ Settle(i) \/ Land(i) \/ ping(i)
  \/ bind_landing \/ (\E how \in {"then", "then_expect"} : then(how))
  \/ Worker \/ SettleInner \/ Done

Spec == Init /\ [][Next]_vars

\* Threads inside a call of the library run on and the queue's worker runs.
\* Whether a promise is settled is up to the application.
FairSpec ==
  /\ Spec
  /\ WF_vars(bind_landing) /\ WF_vars(Worker)
  /\ \A i \in Sources : WF_vars(Land(i)) /\ WF_vars(ping(i))

----------------------------------------------------------------------------
\* Properties.

\* The error of the first future, by position, that has one.
FirstError ==
  CHOOSE e \in 0..N :
    IF e = 0 THEN \A i \in Sources : source[i] = "value"
             ELSE source[e] = "error" /\ \A i \in 1..(e - 1) : source[i] # "error"

\* The joined future is finished once, with what every future was settled with.
JoinSound ==
  /\ Len(joined) <= 1
  /\ joined # <<>> => Head(joined) = source

\* The chain is settled at most once, after every future has landed, and as the
\* futures were settled: then passes the first error by position on without
\* invoking cb, whatever order the futures fail in; then_expect always invokes it.
ChainSound ==
  /\ JoinSound
  /\ Len(result) <= 1 /\ ran <= 1
  /\ ran = 1 => chained = "then_expect" \/ FirstError = 0
  /\ result # <<>> =>
       IF ran = 1 THEN Head(result) \in {0, N + 1}
       ELSE chained = "then" /\ Head(result) = FirstError /\ FirstError # 0

\* When all futures are settled and the chain is built, either its own future is
\* settled in the end or cb has returned a future that is not.
ChainSettles ==
  (chained # "no" /\ \A i \in Sources : source[i] \in {"value", "error"})
     ~> (result # <<>> \/ inner = "pending")
=============================================================================
