------------------------ MODULE Continuations_proofs ------------------------
(***************************************************************************)
(* ChainSound for any number of joined futures.                            *)
(*                                                                         *)
(* That the joined future is finished once, and with every slot written,   *)
(* rests on the count being the number of callbacks that have pinged: it   *)
(* reaches N in one ping only, the one that completes Sources.  That the   *)
(* chain is settled once rests on its task being queued once, by that ping *)
(* or by then, whichever comes later, and on everything the chain does     *)
(* coming after that task.                                                 *)
(***************************************************************************)
EXTENDS Continuations, FiniteSetTheorems, TLAPS

Settled == {"value", "error"}

\* The types.
TypeOK ==
  /\ source \in [Sources -> {"new", "pending"} \cup Settled]
  /\ bound \in 0..N /\ joiner \in 0..N
  /\ landing \in [Sources -> Settled]
  /\ landed \subseteq 1..bound /\ pinged \subseteq 1..bound
  /\ fullfilled \in Nat
  /\ chained \in {"no", "then", "then_expect"}
  /\ tasks \in Seq([task : {"async", "run", "fail"}, of : 0..N])
  /\ inner \in {"none", "pending", "settled"} /\ ran \in Nat

\* join: the count is that of the callbacks that are done, and the joined future
\* is finished when all are, with what is in their slots.
Joining ==
  /\ bound > 0 => \A i \in Sources : source[i] # "new"
  /\ landed \cap pinged = {}
  /\ \A i \in landed \cup pinged : source[i] \in Settled /\ landing[i] = source[i]
  /\ fullfilled = Cardinality(pinged)
  /\ joined = IF pinged = Sources THEN <<source>> ELSE <<>>

\* A task of async is in the queue once, until it settles its future.
AsyncTasks == \A k \in 1..Len(tasks) : tasks[k].task = "async" =>
  /\ tasks[k].of \in Sources /\ source[tasks[k].of] = "pending"
  /\ \A j \in 1..Len(tasks) :
       tasks[j].task = "async" /\ tasks[j].of = tasks[k].of => j = k

\* At most one task of the chain is in the queue, the one the futures call for,
\* and nothing has run before it.
ChainTasks == \A k \in 1..Len(tasks) : tasks[k].task # "async" =>
  /\ chained # "no" /\ pinged = Sources
  /\ ran = 0 /\ inner = "none" /\ result = <<>>
  /\ tasks[k] = do_finish(chained, source)
  /\ \A j \in 1..Len(tasks) : tasks[j].task # "async" => j = k

\* What has run is what the futures call for.
Ran ==
  /\ ran = 0 => inner = "none"
  /\ ran # 0 => ran = 1 /\ chained # "no" /\ pinged = Sources /\ do_finish(chained, source).task = "run"
  /\ inner = "pending" => result = <<>>
  /\ \/ result = <<>>
     \/ ran = 1 /\ (result = <<0>> \/ result = <<N + 1>>)
     \/ /\ ran = 0 /\ chained # "no" /\ pinged = Sources
        /\ do_finish(chained, source).task = "fail"
        /\ result = <<do_finish(chained, source).of>>

Inv == TypeOK /\ Joining /\ AsyncTasks /\ ChainTasks /\ Ran

----------------------------------------------------------------------------
\* What a queue holds after a task was added to it ...
LEMMA AppendTask ==
  ASSUME NEW T, NEW s \in Seq(T), NEW t \in T
  PROVE  /\ Append(s, t) \in Seq(T)
         /\ \A k \in 1..Len(Append(s, t)) : \/ k \in 1..Len(s) /\ Append(s, t)[k] = s[k]
                                            \/ k = Len(s) + 1 /\ Append(s, t)[k] = t
OBVIOUS

\* ... and after its first one was taken.
LEMMA TailTask ==
  ASSUME NEW T, NEW s \in Seq(T), s # <<>>
  PROVE  /\ Tail(s) \in Seq(T) /\ 1 \in 1..Len(s) /\ Head(s) = s[1]
         /\ \A k \in 1..Len(Tail(s)) : k + 1 \in 2..Len(s) /\ Tail(s)[k] = s[k + 1]
OBVIOUS

\* Every set of numbers that is not empty has a least one.
LEMMA LeastExists ==
  ASSUME NEW S \in SUBSET Nat, S # {}
  PROVE  \E x \in S : \A y \in S : x <= y
<1>1. \E x \in S : \A y \in S : ~(<<y, x>> \in OpToRel(<, Nat))
  BY NatLessThanWellFounded, WFMin
<1>2. \A x, y \in Nat : y < x => <<y, x>> \in OpToRel(<, Nat)
  BY DEF OpToRel
<1>3. PICK x \in S : \A y \in S : ~(<<y, x>> \in OpToRel(<, Nat))
  BY <1>1
<1>4. \A y \in S : ~(y < x)
  BY <1>2, <1>3
<1> QED  BY <1>4

\* get_first_error returns the position of the first error, or 0 if there is none.
LEMMA FirstErrorIs ==
  ASSUME NEW f \in [Sources -> Settled]
  PROVE  /\ get_first_error(f) \in 0..N
         /\ get_first_error(f) = 0 => \A i \in Sources : f[i] = "value"
         /\ get_first_error(f) # 0 => /\ f[get_first_error(f)] = "error"
                                      /\ \A i \in 1..(get_first_error(f) - 1) : f[i] # "error"
<1> DEFINE errors == {i \in Sources : f[i] = "error"}
<1>1. CASE errors = {}
  BY <1>1, NAssumption DEF get_first_error, Sources, Settled
<1>2. CASE errors # {}
  <2>0. errors \in SUBSET Nat
    BY NAssumption DEF Sources
  <2>1. \E x \in errors : \A y \in errors : x <= y
    <3> HIDE DEF errors
    <3> QED  BY <1>2, <2>0, LeastExists
  <2>2. Min(errors) \in errors /\ \A y \in errors : Min(errors) <= y
    BY <2>1 DEF Min
  <2>3. get_first_error(f) = Min(errors)
    BY <1>2 DEF get_first_error
  <2>4. get_first_error(f) \in errors /\ \A i \in errors : get_first_error(f) <= i
    BY <2>2, <2>3
  <2>5. get_first_error(f) \in 1..N /\ f[get_first_error(f)] = "error"
    BY <2>4 DEF Sources
  <2>6. ASSUME NEW i \in 1..(get_first_error(f) - 1)
        PROVE  f[i] # "error"
    BY <2>4, <2>5, <2>6, NAssumption DEF Sources
  <2> QED  BY <2>5, <2>6, NAssumption
<1> QED  BY <1>1, <1>2

\* do_finish of then and then_expect queues cb or, for then, the first error.
LEMMA ChainTask ==
  ASSUME NEW how \in {"then", "then_expect"}, NEW f \in [Sources -> Settled]
  PROVE  /\ do_finish(how, f) \in [task : {"run", "fail"}, of : 0..N]
         /\ do_finish(how, f).task = "run" => how = "then_expect" \/ get_first_error(f) = 0
         /\ do_finish(how, f).task = "fail" =>
              how = "then" /\ get_first_error(f) # 0 /\ do_finish(how, f).of = get_first_error(f)
<1>1. get_first_error(f) \in 0..N  BY FirstErrorIs
<1> QED  BY <1>1, NAssumption DEF do_finish, then_task, then_expect_task

\* Whatever future is not settled has not pinged, so the chain has not begun.
LEMMA NotBegun ==
  ASSUME Inv, NEW i \in Sources, source[i] \notin Settled
  PROVE  /\ i \notin landed \cup pinged /\ pinged # Sources /\ joined = <<>>
         /\ ran = 0 /\ inner = "none" /\ result = <<>>
         /\ \A k \in 1..Len(tasks) : tasks[k].task = "async"
<1>1. i \notin landed \cup pinged
  BY DEF Inv, Joining
<1>2. pinged # Sources
  BY <1>1
<1> QED  BY <1>1, <1>2 DEF Inv, Joining, ChainTasks, Ran

\* The invariant holds when nothing has been made yet.
LEMMA InitInv == Init => Inv
<1> SUFFICES ASSUME Init PROVE Inv
  OBVIOUS
<1>1. TypeOK
  BY NAssumption DEF Init, TypeOK, Sources, Settled
<1>2. pinged # Sources
  BY NAssumption DEF Init, Sources
<1>3. Joining
  BY <1>2, FS_EmptySet, NAssumption DEF Init, Joining, Sources
<1>4. AsyncTasks /\ ChainTasks /\ Ran
  BY <1>2 DEF Init, AsyncTasks, ChainTasks, Ran
<1> QED  BY <1>1, <1>3, <1>4 DEF Inv

\* The steps that settle or create a future, before the chain has begun: all
\* of the invariant but what it says of the tasks of async.
LEMMA SourceStep ==
  ASSUME Inv, NEW i \in Sources, source[i] \in {"new", "pending"},
         NEW r \in {"pending"} \cup Settled, source' = [source EXCEPT ![i] = r],
         UNCHANGED <<joinVars, joined, chained, chainVars>>,
         tasks' \in Seq([task : {"async", "run", "fail"}, of : 0..N]),
         \A k \in 1..Len(tasks') : tasks'[k].task = "async"
  PROVE  TypeOK' /\ Joining' /\ ChainTasks' /\ Ran'
<1>1. /\ i \notin landed \cup pinged /\ pinged # Sources /\ joined = <<>>
      /\ ran = 0 /\ inner = "none" /\ result = <<>>
  BY NotBegun DEF Settled
<1>2. TypeOK'
  BY DEF Inv, TypeOK, joinVars, chainVars, Settled, Sources
<1>3. \A j \in Sources : source'[j] = IF j = i THEN r ELSE source[j]
  BY DEF Inv, TypeOK
<1>4. landed \subseteq Sources /\ pinged \subseteq Sources
  BY NAssumption DEF Inv, TypeOK, Sources
<1>5. Joining'
  BY <1>1, <1>3, <1>4 DEF Inv, Joining, joinVars, Settled
<1>6. ChainTasks' /\ Ran'
  BY <1>1 DEF ChainTasks, Ran, joinVars, chainVars
<1> QED  BY <1>2, <1>5, <1>6

\* Making, queueing and settling a future preserves the invariant.
LEMMA SourcesInv ==
  ASSUME Inv, NEW i \in Sources, MakePromise(i) \/ async(i) \/ Settle(i)
  PROVE  Inv'
<1> DEFINE T == [task : {"async", "run", "fail"}, of : 0..N]
<1>0. tasks \in Seq(T) /\ source \in [Sources -> {"new", "pending"} \cup Settled]
  BY DEF Inv, TypeOK
<1>1. CASE MakePromise(i)
  <2>1. \A k \in 1..Len(tasks) : tasks[k].task = "async"
    BY <1>1, NotBegun DEF MakePromise, Settled
  <2>2. TypeOK' /\ Joining' /\ ChainTasks' /\ Ran'
    BY <1>0, <1>1, <2>1, SourceStep DEF MakePromise
  <2>3. AsyncTasks'
    BY <1>0, <1>1 DEF MakePromise, Inv, AsyncTasks
  <2> QED  BY <2>2, <2>3 DEF Inv
<1>2. CASE async(i)
  <2> DEFINE t == [task |-> "async", of |-> i]
  <2>1. \A k \in 1..Len(tasks) : tasks[k].task = "async"
    BY <1>2, NotBegun DEF async, Settled
  <2>2. t \in T
    BY NAssumption DEF Sources
  <2>3. /\ tasks' \in Seq(T)
        /\ \A k \in 1..Len(tasks') : \/ k \in 1..Len(tasks) /\ tasks'[k] = tasks[k]
                                     \/ k = Len(tasks) + 1 /\ tasks'[k] = t
    <3> HIDE DEF t, T
    <3>1. tasks' = Append(tasks, t)
      BY <1>2 DEF async, t
    <3> QED  BY <1>0, <2>2, <3>1, AppendTask
  <2>4. \A k \in 1..Len(tasks') : tasks'[k].task = "async"
    BY <2>1, <2>3
  <2>5. TypeOK' /\ Joining' /\ ChainTasks' /\ Ran'
    BY <1>0, <1>2, <2>3, <2>4, SourceStep DEF async
  <2>6. \A k \in 1..Len(tasks) : tasks[k].of \in Sources /\ tasks[k].of # i /\ source'[tasks[k].of] = "pending"
    BY <1>0, <1>2, <2>1 DEF async, Inv, AsyncTasks
  <2>7. source'[i] = "pending"
    BY <1>0, <1>2 DEF async
  <2>8. \A j, k \in 1..Len(tasks) : tasks[j].of = tasks[k].of => j = k
    BY <2>1 DEF Inv, AsyncTasks
  <2>9. t.of = i
    OBVIOUS
  <2>10. AsyncTasks'
    <3> HIDE DEF t, T
    <3> QED  BY <2>3, <2>6, <2>7, <2>8, <2>9 DEF AsyncTasks
  <2> QED  BY <2>5, <2>10 DEF Inv
<1>3. CASE Settle(i)
  <2>1. \A k \in 1..Len(tasks) : tasks[k].task = "async"
    BY <1>3, NotBegun DEF Settle, Settled
  <2>2. PICK r \in Settled : source' = [source EXCEPT ![i] = r]
    BY <1>3 DEF Settle, Settled
  <2>3. TypeOK' /\ Joining' /\ ChainTasks' /\ Ran'
    BY <1>0, <1>3, <2>1, <2>2, SourceStep DEF Settle
  <2>4. \A k \in 1..Len(tasks) : tasks[k].of # i
    BY <1>0, <1>3, <2>1 DEF Settle, Queued
  <2>5. AsyncTasks'
    BY <1>0, <1>3, <2>2, <2>4 DEF Settle, Inv, AsyncTasks
  <2> QED  BY <2>3, <2>5 DEF Inv
<1> QED  BY <1>1, <1>2, <1>3

\* bind_landing and the write of a slot preserve the invariant.
LEMMA JoinInv ==
  ASSUME Inv, bind_landing \/ \E i \in Sources : Land(i)
  PROVE  Inv'
<1>0. landed \subseteq Sources /\ pinged \subseteq Sources
  BY NAssumption DEF Inv, TypeOK, Sources
<1>1. CASE bind_landing
  <2>1. TypeOK'
    BY <1>1, NAssumption DEF bind_landing, chainVars, Inv, TypeOK
  <2>2. Joining'
    BY <1>1 DEF bind_landing, Inv, Joining
  <2>3. AsyncTasks' /\ ChainTasks' /\ Ran'
    BY <1>1 DEF bind_landing, chainVars, Inv, AsyncTasks, ChainTasks, Ran
  <2> QED  BY <2>1, <2>2, <2>3 DEF Inv
<1>2. ASSUME NEW i \in Sources, Land(i) PROVE Inv'
  <2>1. source[i] \in Settled
    BY <1>2, NAssumption DEF Land, Inv, TypeOK, Joining, Sources, Settled
  <2>2. TypeOK'
    BY <1>2, <2>1, NAssumption DEF Land, chainVars, Inv, TypeOK, Sources
  <2>3. \A j \in Sources : landing'[j] = IF j = i THEN source[i] ELSE landing[j]
    BY <1>2 DEF Land, Inv, TypeOK
  <2>4. Joining'
    BY <1>0, <1>2, <2>1, <2>3 DEF Land, Inv, Joining
  <2>5. AsyncTasks' /\ ChainTasks' /\ Ran'
    BY <1>2 DEF Land, chainVars, Inv, AsyncTasks, ChainTasks, Ran
  <2> QED  BY <2>2, <2>4, <2>5 DEF Inv
<1> QED  BY <1>1, <1>2

\* The one step that queues a task of the chain: ping or then, whichever comes last.
LEMMA QueueChain ==
  ASSUME Inv, NEW how \in {"then", "then_expect"}, source \in [Sources -> Settled],
         ran = 0, inner = "none", result = <<>>,
         \A k \in 1..Len(tasks) : tasks[k].task = "async",
         chained' = how, pinged' = Sources, UNCHANGED <<source, chainVars>>,
         tasks' = Append(tasks, do_finish(how, source))
  PROVE  /\ tasks' \in Seq([task : {"async", "run", "fail"}, of : 0..N])
         /\ AsyncTasks' /\ ChainTasks' /\ Ran'
<1> DEFINE T == [task : {"async", "run", "fail"}, of : 0..N]
           t == do_finish(how, source)
<1>1. t \in T /\ t.task # "async"
  BY ChainTask
<1>2. tasks \in Seq(T)
  BY DEF Inv, TypeOK
<1> HIDE DEF T, t
<1>3. /\ tasks' \in Seq(T)
      /\ \A k \in 1..Len(tasks') : \/ k \in 1..Len(tasks) /\ tasks'[k] = tasks[k]
                                   \/ k = Len(tasks) + 1 /\ tasks'[k] = t
  <2>1. tasks' = Append(tasks, t)
    BY DEF t
  <2> QED  BY <1>1, <1>2, <2>1, AppendTask
<1>4. AsyncTasks'
  BY <1>1, <1>3 DEF Inv, AsyncTasks
<1>5. do_finish(chained', source') = t
  BY DEF t
<1>6. ChainTasks'
  BY <1>1, <1>3, <1>5 DEF ChainTasks, chainVars
<1>7. Ran'
  BY DEF Ran, chainVars
<1> QED  BY <1>3, <1>4, <1>6, <1>7 DEF T

\* ping preserves the invariant: only the last one finds the count at N.
LEMMA PingInv ==
  ASSUME Inv, NEW i \in Sources, ping(i)
  PROVE  Inv'
<1>0. landed \subseteq Sources /\ pinged \subseteq Sources /\ i \notin pinged /\ pinged # Sources
  BY NAssumption DEF ping, Inv, TypeOK, Joining, Sources
<1>1. IsFiniteSet(Sources) /\ Cardinality(Sources) = N
  BY FS_Interval, NAssumption DEF Sources
<1>2. IsFiniteSet(pinged)
  BY <1>0, <1>1, FS_Subset
<1>3. fullfilled' = Cardinality(pinged')
  BY <1>0, <1>2, FS_AddElement DEF ping, Inv, Joining
<1>4. fullfilled' = N <=> pinged' = Sources
  BY <1>0, <1>1, <1>3, FS_Subset DEF ping
<1>5. /\ joined = <<>> /\ ran = 0 /\ inner = "none" /\ result = <<>>
      /\ \A k \in 1..Len(tasks) : tasks[k].task = "async"
  BY <1>0 DEF Inv, Joining, ChainTasks, Ran
<1>6. \A j \in landed \cup pinged : source[j] \in Settled /\ landing[j] = source[j]
  BY DEF Inv, Joining
<1>7. CASE pinged' = Sources
  <2>1. \A j \in Sources : source[j] \in Settled /\ landing[j] = source[j]
    BY <1>6, <1>7 DEF ping
  <2>2. landing = source /\ source \in [Sources -> Settled]
    BY <2>1 DEF Inv, TypeOK
  <2>3. joined' = <<source>>
    BY <1>4, <1>5, <1>7, <2>2 DEF ping
  <2>4. Joining'
    BY <1>3, <1>6, <1>7, <2>3 DEF ping, Inv, Joining
  <2>5. /\ tasks' \in Seq([task : {"async", "run", "fail"}, of : 0..N])
        /\ AsyncTasks' /\ ChainTasks' /\ Ran'
    <3>1. CASE chained = "no"
      BY <1>4, <1>5, <1>7, <3>1 DEF ping, chainVars, Inv, TypeOK, AsyncTasks, ChainTasks, Ran
    <3>2. CASE chained # "no"
      <4>1. chained \in {"then", "then_expect"}
        BY <3>2 DEF Inv, TypeOK
      <4>2. tasks' = Append(tasks, do_finish(chained, source))
        BY <1>4, <1>7, <2>2, <3>2 DEF ping
      <4> QED  BY <1>5, <1>7, <2>2, <4>1, <4>2, QueueChain DEF ping
    <3> QED  BY <3>1, <3>2
  <2>6. TypeOK'
    BY <2>5, NAssumption DEF ping, chainVars, Inv, TypeOK
  <2> QED  BY <2>4, <2>5, <2>6 DEF Inv
<1>8. CASE pinged' # Sources
  <2>1. UNCHANGED <<joined, tasks>>
    BY <1>4, <1>8 DEF ping
  <2>2. TypeOK'
    BY <2>1, NAssumption DEF ping, chainVars, Inv, TypeOK
  <2>3. Joining'
    BY <1>3, <1>5, <1>6, <1>8, <2>1 DEF ping, Inv, Joining
  <2>4. AsyncTasks' /\ ChainTasks' /\ Ran'
    BY <1>5, <2>1 DEF ping, chainVars, Inv, AsyncTasks, ChainTasks, Ran
  <2> QED  BY <2>2, <2>3, <2>4 DEF Inv
<1> QED  BY <1>7, <1>8

\* then and then_expect preserve the invariant.
LEMMA ThenInv ==
  ASSUME Inv, NEW how \in {"then", "then_expect"}, then(how)
  PROVE  Inv'
<1>1. /\ ran = 0 /\ inner = "none" /\ result = <<>>
      /\ \A k \in 1..Len(tasks) : tasks[k].task = "async"
  BY DEF then, Inv, ChainTasks, Ran
<1>2. Joining'
  BY DEF then, joinVars, Inv, Joining
<1>3. CASE pinged # Sources
  <2>1. tasks' = tasks
    BY <1>3 DEF then, Inv, Joining
  <2>2. TypeOK'
    BY <2>1 DEF then, joinVars, chainVars, Inv, TypeOK
  <2>3. AsyncTasks' /\ ChainTasks' /\ Ran'
    BY <1>1, <2>1 DEF then, chainVars, Inv, AsyncTasks, ChainTasks, Ran
  <2> QED  BY <1>2, <2>2, <2>3 DEF Inv
<1>4. CASE pinged = Sources
  <2>1. joined = <<source>>
    BY <1>4 DEF Inv, Joining
  <2>2. source \in [Sources -> Settled]
    BY <1>4 DEF Inv, Joining, TypeOK
  <2>3. tasks' = Append(tasks, do_finish(how, source))
    BY <2>1 DEF then
  <2>4. /\ tasks' \in Seq([task : {"async", "run", "fail"}, of : 0..N])
        /\ AsyncTasks' /\ ChainTasks' /\ Ran'
    BY <1>1, <1>4, <2>2, <2>3, QueueChain DEF then, joinVars
  <2>5. TypeOK'
    BY <2>4 DEF then, joinVars, chainVars, Inv, TypeOK
  <2> QED  BY <1>2, <2>4, <2>5 DEF Inv
<1> QED  BY <1>3, <1>4

\* What a worker finds when it has taken a task: the others are as before.
LEMMA TakeTask ==
  ASSUME Inv, Take
  PROVE  /\ tasks' \in Seq([task : {"async", "run", "fail"}, of : 0..N])
         /\ 1 \in 1..Len(tasks) /\ Task = tasks[1]
         /\ \A k \in 1..Len(tasks') : k + 1 \in 2..Len(tasks) /\ tasks'[k] = tasks[k + 1]
<1>1. tasks # <<>> /\ tasks' = Tail(tasks)
  BY DEF Take
<1>2. tasks \in Seq([task : {"async", "run", "fail"}, of : 0..N])
  BY DEF Inv, TypeOK
<1>3. /\ Tail(tasks) \in Seq([task : {"async", "run", "fail"}, of : 0..N])
      /\ 1 \in 1..Len(tasks) /\ Head(tasks) = tasks[1]
      /\ \A k \in 1..Len(Tail(tasks)) : k + 1 \in 2..Len(tasks) /\ Tail(tasks)[k] = tasks[k + 1]
  BY <1>1, <1>2, TailTask
<1> QED  BY <1>1, <1>3 DEF Task

\* The task of async preserves the invariant.
LEMMA AsyncInv ==
  ASSUME Inv, RunAsync
  PROVE  Inv'
<1> DEFINE i == tasks[1].of
<1>1. /\ tasks' \in Seq([task : {"async", "run", "fail"}, of : 0..N])
      /\ 1 \in 1..Len(tasks) /\ Task = tasks[1]
      /\ \A k \in 1..Len(tasks') : k + 1 \in 2..Len(tasks) /\ tasks'[k] = tasks[k + 1]
  BY TakeTask DEF RunAsync
<1>2. /\ i \in Sources /\ source[i] = "pending"
      /\ \A k \in 1..Len(tasks) : tasks[k].task = "async" /\ tasks[k].of = i => k = 1
  BY <1>1 DEF RunAsync, Inv, AsyncTasks
<1>3. PICK r \in Settled : source' = [source EXCEPT ![i] = r]
  BY <1>1 DEF RunAsync, Settled
<1>4. UNCHANGED <<joinVars, joined, chained, chainVars>>
  BY DEF RunAsync
<1> HIDE DEF i
<1>5. \A k \in 1..Len(tasks) : tasks[k].task = "async"
  BY <1>2, NotBegun DEF Settled
<1>6. \A k \in 1..Len(tasks') : tasks'[k].task = "async"
  BY <1>1, <1>5
<1>7. TypeOK' /\ Joining' /\ ChainTasks' /\ Ran'
  BY <1>1, <1>2, <1>3, <1>4, <1>6, SourceStep
<1>8. source \in [Sources -> {"new", "pending"} \cup Settled]
  BY DEF Inv, TypeOK
<1>9. \A k \in 2..Len(tasks) : tasks[k].of \in Sources /\ tasks[k].of # i /\ source'[tasks[k].of] = "pending"
  BY <1>2, <1>3, <1>5, <1>8 DEF Inv, AsyncTasks
<1>10. \A j, k \in 2..Len(tasks) : tasks[j].of = tasks[k].of => j = k
  BY <1>5 DEF Inv, AsyncTasks
<1>11. AsyncTasks'
  <2>1. ASSUME NEW k \in 1..Len(tasks')
        PROVE  tasks'[k].of \in Sources /\ source'[tasks'[k].of] = "pending"
    BY <1>1, <1>9
  <2>2. ASSUME NEW j \in 1..Len(tasks'), NEW k \in 1..Len(tasks'), tasks'[j].of = tasks'[k].of
        PROVE  j = k
    <3>1. /\ j + 1 \in 2..Len(tasks) /\ tasks'[j] = tasks[j + 1]
          /\ k + 1 \in 2..Len(tasks) /\ tasks'[k] = tasks[k + 1]
      BY <1>1
    <3>2. j + 1 = k + 1
      BY <1>10, <2>2, <3>1
    <3> QED  BY <3>2
  <2> QED  BY <2>1, <2>2 DEF AsyncTasks
<1> QED  BY <1>7, <1>11 DEF Inv

\* The task of the chain preserves the invariant.
LEMMA ChainInv ==
  ASSUME Inv, RunCallback \/ RunReturnsFuture \/ RunFail
  PROVE  Inv'
<1>1. /\ tasks' \in Seq([task : {"async", "run", "fail"}, of : 0..N])
      /\ 1 \in 1..Len(tasks) /\ Task = tasks[1]
      /\ \A k \in 1..Len(tasks') : k + 1 \in 2..Len(tasks) /\ tasks'[k] = tasks[k + 1]
  BY TakeTask DEF RunCallback, RunReturnsFuture, RunFail
<1>2. tasks[1].task # "async" /\ UNCHANGED <<source, joinVars, joined, chained>>
  BY <1>1 DEF RunCallback, RunReturnsFuture, RunFail
<1>3. /\ chained # "no" /\ pinged = Sources /\ ran = 0 /\ inner = "none" /\ result = <<>>
      /\ tasks[1] = do_finish(chained, source)
      /\ \A k \in 1..Len(tasks) : tasks[k].task # "async" => k = 1
  BY <1>1, <1>2 DEF Inv, ChainTasks
<1>4. TypeOK'
  BY <1>1, <1>2 DEF RunCallback, RunReturnsFuture, RunFail, joinVars, Inv, TypeOK
<1>5. Joining'
  BY <1>2 DEF joinVars, Inv, Joining
<1>6. \A k \in 1..Len(tasks') : tasks'[k].task = "async"
  BY <1>1, <1>3
<1>7. AsyncTasks'
  <2>1. ASSUME NEW k \in 1..Len(tasks')
        PROVE  tasks'[k].of \in Sources /\ source'[tasks'[k].of] = "pending"
    <3>1. k + 1 \in 1..Len(tasks) /\ tasks'[k] = tasks[k + 1]
      BY <1>1
    <3> QED  BY <1>2, <1>6, <3>1 DEF Inv, AsyncTasks
  <2>2. ASSUME NEW j \in 1..Len(tasks'), NEW k \in 1..Len(tasks'), tasks'[j].of = tasks'[k].of
        PROVE  j = k
    <3>1. /\ j + 1 \in 1..Len(tasks) /\ tasks'[j] = tasks[j + 1]
          /\ k + 1 \in 1..Len(tasks) /\ tasks'[k] = tasks[k + 1]
      BY <1>1
    <3>2. j + 1 = k + 1
      BY <1>6, <2>2, <3>1 DEF Inv, AsyncTasks
    <3> QED  BY <3>2
  <2> QED  BY <2>1, <2>2 DEF AsyncTasks
<1>8. ChainTasks'
  BY <1>6 DEF ChainTasks
<1>9. Ran'
  <2>1. CASE RunCallback
    BY <1>1, <1>2, <1>3, <2>1 DEF RunCallback, joinVars, Ran
  <2>2. CASE RunReturnsFuture
    BY <1>1, <1>2, <1>3, <2>2 DEF RunReturnsFuture, joinVars, Ran
  <2>3. CASE RunFail
    BY <1>1, <1>2, <1>3, <2>3 DEF RunFail, joinVars, Ran
  <2> QED  BY <2>1, <2>2, <2>3
<1> QED  BY <1>4, <1>5, <1>7, <1>8, <1>9 DEF Inv

\* Settling the future cb returned preserves the invariant.
LEMMA SettleInnerInv ==
  ASSUME Inv, SettleInner
  PROVE  Inv'
<1>1. ran = 1 /\ result = <<>> /\ chained # "no" /\ pinged = Sources
  BY DEF SettleInner, Inv, Ran
<1>2. \A k \in 1..Len(tasks) : tasks[k].task = "async"
  BY <1>1 DEF Inv, ChainTasks
<1>3. TypeOK' /\ Joining'
  BY DEF SettleInner, joinVars, Inv, TypeOK, Joining
<1>4. AsyncTasks' /\ ChainTasks'
  BY <1>2 DEF SettleInner, Inv, AsyncTasks, ChainTasks
<1>5. Ran'
  BY <1>1 DEF SettleInner, joinVars, Inv, Ran
<1> QED  BY <1>3, <1>4, <1>5 DEF Inv

\* Every step preserves the invariant.
LEMMA InvStep == Inv /\ [Next]_vars => Inv'
<1> SUFFICES ASSUME Inv, [Next]_vars PROVE Inv'
  OBVIOUS
<1>1. CASE UNCHANGED vars \/ Done
  <2>1. UNCHANGED vars
    BY <1>1 DEF Done
  <2>2. TypeOK' /\ Joining'
    BY <2>1 DEF vars, Inv, TypeOK, Joining
  <2>3. AsyncTasks' /\ ChainTasks'
    BY <2>1 DEF vars, Inv, AsyncTasks, ChainTasks
  <2>4. Ran'
    BY <2>1 DEF vars, Inv, Ran
  <2> QED  BY <2>2, <2>3, <2>4 DEF Inv
<1>2. ASSUME NEW i \in Sources,
             MakePromise(i) \/ async(i) \/ Settle(i) \/ Land(i) \/ ping(i)
      PROVE  Inv'
  BY <1>2, SourcesInv, JoinInv, PingInv
<1>3. ASSUME NEW how \in {"then", "then_expect"}, then(how) PROVE Inv'
  BY <1>3, ThenInv
<1>4. CASE bind_landing
  BY <1>4, JoinInv
<1>5. CASE Worker
  BY <1>5, AsyncInv, ChainInv DEF Worker
<1>6. CASE SettleInner
  BY <1>6, SettleInnerInv
<1> QED  BY <1>1, <1>2, <1>3, <1>4, <1>5, <1>6 DEF Next

\* The error ChainSound speaks of is the one get_first_error finds.
LEMMA FirstErrorUnique ==
  ASSUME source \in [Sources -> Settled]
  PROVE  FirstError = get_first_error(source)
<1> DEFINE P(e) == IF e = 0 THEN \A i \in Sources : source[i] = "value"
                   ELSE source[e] = "error" /\ \A i \in 1..(e - 1) : source[i] # "error"
           g == get_first_error(source)
<1>1. g \in 0..N /\ P(g)
  BY FirstErrorIs
<1>2. \A d, e \in 0..N : P(d) /\ P(e) => d = e
  BY NAssumption DEF Sources
<1>3. FirstError = CHOOSE e \in 0..N : P(e)
  BY DEF FirstError
<1> HIDE DEF P, g
<1>4. FirstError \in 0..N /\ P(FirstError)
  BY <1>1, <1>3
<1>5. FirstError = g
  BY <1>1, <1>2, <1>4
<1> QED  BY <1>5 DEF g

\* The invariant implies the property.
LEMMA SoundFromInv == Inv => ChainSound
<1> SUFFICES ASSUME Inv PROVE ChainSound
  OBVIOUS
<1>1. JoinSound
  BY DEF Inv, Joining, JoinSound
<1>2. Len(result) <= 1 /\ ran <= 1
  <2>1. \/ result = <<>> \/ result = <<0>> \/ result = <<N + 1>>
        \/ result = <<do_finish(chained, source).of>>
    BY DEF Inv, Ran
  <2>2. Len(<<>>) <= 1 /\ \A x : Len(<<x>>) <= 1
    OBVIOUS
  <2>3. ran <= 1
    BY DEF Inv, TypeOK, Ran
  <2> QED  BY <2>1, <2>2, <2>3
<1>3. ASSUME pinged = Sources, chained # "no"
      PROVE  /\ FirstError = get_first_error(source)
             /\ do_finish(chained, source).task = "run" => chained = "then_expect" \/ FirstError = 0
             /\ do_finish(chained, source).task = "fail" =>
                  chained = "then" /\ FirstError # 0 /\ do_finish(chained, source).of = FirstError
  <2>1. source \in [Sources -> Settled]
    BY <1>3 DEF Inv, TypeOK, Joining
  <2>2. chained \in {"then", "then_expect"}
    BY <1>3 DEF Inv, TypeOK
  <2> QED  BY <2>1, <2>2, FirstErrorUnique, ChainTask
<1>4. ran = 1 => chained = "then_expect" \/ FirstError = 0
  BY <1>3 DEF Inv, Ran
<1>5. result # <<>> =>
        IF ran = 1 THEN Head(result) \in {0, N + 1}
        ELSE chained = "then" /\ Head(result) = FirstError /\ FirstError # 0
  BY <1>3 DEF Inv, Ran
<1> QED  BY <1>1, <1>2, <1>4, <1>5 DEF ChainSound

----------------------------------------------------------------------------
\* The inductive invariant: the count and the slots of join (Landing), the tasks
\* in the queue and what has run of them (Future_then_handler).
THEOREM ChainInvariant == Spec => []Inv
BY InitInv, InvStep, PTL DEF Spec

\* The variables keep their types; the callbacks of join only run for futures
\* that bind_landing has reached.
THEOREM ChainTypes == Spec => []TypeOK
<1>1. Inv => TypeOK
  BY DEF Inv
<1> QED  BY <1>1, ChainInvariant, PTL

\* For any number of joined futures the chain is settled at most once and as the
\* futures were: join finishes once with every slot written, then passes on the
\* first error by position without invoking cb, and cb runs at most once.
THEOREM ChainCorrect == Spec => []ChainSound
BY ChainInvariant, SoundFromInv, PTL
=============================================================================
