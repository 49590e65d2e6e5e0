------------------------ MODULE FutureStorage_proofs ------------------------
(***************************************************************************)
(* The promise/future handshake is correct for any set of values and       *)
(* errors: type correctness, the inductive invariant IInv, the safety      *)
(* properties it implies, and the refinement of OneShot.                   *)
(***************************************************************************)
EXTENDS FutureStorage, TLAPS

\* The first call of the handler makes the history a singleton.
LEMMA AppendEmpty == \A x : Append(<<>>, x) = <<x>>
  OBVIOUS

\* Each disjunct of Next, for the case distinctions below.
LEMMA NextCases ==
  ASSUME Next
  PROVE  \/ Direct \/ Construct \/ Publish \/ LateProducer \/ Assigned
         \/ ReleasePromise \/ DestroyByPromise
         \/ Attach \/ LateConsumer \/ ReleaseFuture \/ DestroyByFuture
         \/ get_future \/ DestroyPromise \/ SetHandler \/ DropFuture
         \/ \E o \in {"finish", "fail"}, r \in Values \cup Errors : Assign(o, r)
         \/ UNCHANGED vars
  BY DEF Next, PromiseStep, FutureStep, PromiseCall, FutureCall, Done

\* Initially the type invariant and IInv hold.
LEMMA InitInv == Init => TypeOK /\ IInv
<1> SUFFICES ASSUME Init PROVE TypeOK /\ IInv
  OBVIOUS
<1> USE DEF Init
<1>1. ref_count \in 0..2 /\ delivered \in Seq(Outcomes \cup {None, Moved})
  OBVIOUS
<1>2. TypeOK
  BY <1>1, Zenon DEF TypeOK
<1>3. Counted /\ Lifetime
  BY DEF Counted, Lifetime
<1>4. PromiseThread /\ FutureThread
  BY DEF PromiseThread, FutureThread
<1>5. Bits /\ Handover
  BY DEF Bits, Handover, OpDone
<1> QED
  BY <1>2, <1>3, <1>4, <1>5 DEF IInv


\* Every step keeps the types, given IInv for the range of ref_count_.
LEMMA TypeStep == TypeOK /\ IInv /\ [Next]_vars => TypeOK'
<1> SUFFICES ASSUME TypeOK, IInv, [Next]_vars PROVE TypeOK'
  OBVIOUS
<1> USE DEF TypeOK
<1>1. CASE Direct
  BY <1>1 DEF Direct, AfterOp, promise_vars, fvars, svars
<1>2. CASE Construct
  BY <1>2 DEF Construct, promise_vars, fvars
<1>3. CASE Publish
  BY <1>3 DEF Publish, AfterOp, promise_vars, fvars
<1>4. CASE LateProducer
  BY <1>4 DEF LateProducer, AfterOp, promise_vars, fvars
<1>5. CASE Assigned
  BY <1>5 DEF Assigned, promise_vars, fvars, svars
<1>6. CASE ReleasePromise
  <2>1. held /\ ref_count \in 1..2
    BY <1>6 DEF ReleasePromise, IInv, Counted, PromiseThread
  <2>2. ref_count' \in 0..2
    BY <1>6, <2>1 DEF ReleasePromise, DropRef
  <2>3. ppc' \in {"idle", "direct", "construct", "publish", "late", "assigned",
                   "release", "destroy", "gone"}
    BY <1>6 DEF ReleasePromise, IsLast, AfterRelease
  <2>4. /\ held' \in BOOLEAN
        /\ alive' = alive /\ state' = state /\ callback' = callback
        /\ finished' = finished /\ delivered' = delivered
        /\ future_created' = future_created /\ value_assigned' = value_assigned
        /\ op' = op /\ outcome' = outcome /\ dying' = dying
        /\ future' = future /\ fpc' = fpc
    BY <1>6 DEF ReleasePromise, DropRef, fvars
  <2> QED
    BY <2>2, <2>3, <2>4
<1>7. CASE DestroyByPromise
  BY <1>7 DEF DestroyByPromise, DestroyStorage, AfterRelease, promise_vars, fvars
<1>8. CASE Attach
  BY <1>8 DEF Attach, pvars, promise_vars, promise_vars
<1>9. CASE LateConsumer
  BY <1>9 DEF LateConsumer, pvars, promise_vars, promise_vars
<1>10. CASE ReleaseFuture
  BY <1>10 DEF ReleaseFuture, DropRef, IsLast, pvars, promise_vars, IInv, Counted, FutureThread
<1>11. CASE DestroyByFuture
  BY <1>11 DEF DestroyByFuture, DestroyStorage, pvars, promise_vars, promise_vars
<1>12. CASE get_future
  BY <1>12 DEF get_future, IInv, Counted, PromiseThread
<1>13. CASE DestroyPromise
  BY <1>13 DEF DestroyPromise, StartOp, Outcomes, promise_vars, fvars, svars
<1>14. CASE SetHandler
  BY <1>14 DEF SetHandler, pvars, promise_vars, promise_vars
<1>15. CASE DropFuture
  BY <1>15 DEF DropFuture, pvars, promise_vars, svars
<1>16. CASE \E o \in {"finish", "fail"}, r \in Values \cup Errors : Assign(o, r)
  BY <1>16 DEF Assign, StartOp, Outcomes, promise_vars, fvars, svars
<1>17. CASE UNCHANGED vars
  BY <1>17 DEF vars, pvars, promise_vars, promise_vars, fvars, svars
<1> QED
  BY <1>1, <1>2, <1>3, <1>4, <1>5, <1>6, <1>7, <1>8, <1>9, <1>10, <1>11,
     <1>12, <1>13, <1>14, <1>15, <1>16, <1>17, NextCases

\* Every step keeps each part of IInv.
LEMMA InvStep == TypeOK /\ IInv /\ [Next]_vars => IInv'
<1> SUFFICES ASSUME TypeOK, IInv, [Next]_vars PROVE IInv'
  OBVIOUS
<1> USE DEF IInv, Counted, Lifetime, PromiseThread, FutureThread, Bits, OpDone
<1>1. CASE Direct
  <2> USE <1>1, OutcomesAreObjects DEF TypeOK, Direct, AfterOp, promise_vars, fvars, svars
  <2>1. Counted'
    OBVIOUS
  <2>2. Lifetime'
    OBVIOUS
  <2>3. PromiseThread'
    OBVIOUS
  <2>4. FutureThread'
    OBVIOUS
  <2>5. Bits'
    OBVIOUS
  <2>6. Handover'
    BY AppendEmpty, <2>1 DEF Handover
  <2> QED
    BY <2>1, <2>2, <2>3, <2>4, <2>5, <2>6
<1>2. CASE Construct
  <2> USE <1>2, OutcomesAreObjects DEF TypeOK, Construct, promise_vars, fvars
  <2>1. Counted'
    OBVIOUS
  <2>2. Lifetime'
    OBVIOUS
  <2>3. PromiseThread'
    OBVIOUS
  <2>4. FutureThread'
    OBVIOUS
  <2>5. Bits'
    OBVIOUS
  <2>6. Handover'
    BY <2>1 DEF Handover
  <2> QED
    BY <2>1, <2>2, <2>3, <2>4, <2>5, <2>6
<1>3. CASE Publish
  <2> USE <1>3, OutcomesAreObjects DEF TypeOK, Publish, AfterOp, promise_vars, fvars
  <2>1. Counted'
    OBVIOUS
  <2>2. Lifetime'
    OBVIOUS
  <2>3. PromiseThread'
    OBVIOUS
  <2>4. FutureThread'
    OBVIOUS
  <2>5. Bits'
    OBVIOUS
  <2>6. Handover'
    BY <2>1 DEF Handover
  <2> QED
    BY <2>1, <2>2, <2>3, <2>4, <2>5, <2>6
<1>4. CASE LateProducer
  <2> USE <1>4, OutcomesAreObjects DEF TypeOK, LateProducer, AfterOp, promise_vars, fvars
  <2>1. Counted'
    OBVIOUS
  <2>2. Lifetime'
    OBVIOUS
  <2>3. PromiseThread'
    OBVIOUS
  <2>4. FutureThread'
    OBVIOUS
  <2>5. Bits'
    BY DEF Handover
  <2>6. Handover'
    BY AppendEmpty, <2>1 DEF Handover
  <2> QED
    BY <2>1, <2>2, <2>3, <2>4, <2>5, <2>6
<1>5. CASE Assigned
  <2> USE <1>5, OutcomesAreObjects DEF TypeOK, Assigned, fvars, svars
  <2>1. Counted'
    OBVIOUS
  <2>2. Lifetime'
    OBVIOUS
  <2>3. PromiseThread'
    OBVIOUS
  <2>4. FutureThread'
    OBVIOUS
  <2>5. Bits'
    OBVIOUS
  <2>6. Handover'
    BY <2>1 DEF Handover
  <2> QED
    BY <2>1, <2>2, <2>3, <2>4, <2>5, <2>6
<1>6. CASE ReleasePromise
  <2> USE <1>6, OutcomesAreObjects DEF TypeOK, ReleasePromise, DropRef, IsLast, AfterRelease, fvars
  <2>1. Counted'
    OBVIOUS
  <2>2. Lifetime'
    OBVIOUS
  <2>3. PromiseThread'
    OBVIOUS
  <2>4. FutureThread'
    OBVIOUS
  <2>5. Bits'
    OBVIOUS
  <2>6. Handover'
    BY <2>1 DEF Handover
  <2> QED
    BY <2>1, <2>2, <2>3, <2>4, <2>5, <2>6
<1>7. CASE DestroyByPromise
  <2> USE <1>7, OutcomesAreObjects DEF TypeOK, DestroyByPromise, DestroyStorage, AfterRelease, promise_vars, fvars
  <2>1. Counted'
    OBVIOUS
  <2>2. Lifetime'
    OBVIOUS
  <2>3. PromiseThread'
    OBVIOUS
  <2>4. FutureThread'
    OBVIOUS
  <2>5. Bits'
    OBVIOUS
  <2>6. Handover'
    BY <2>1 DEF Handover
  <2> QED
    BY <2>1, <2>2, <2>3, <2>4, <2>5, <2>6
<1>8. CASE Attach
  <2> USE <1>8, OutcomesAreObjects DEF TypeOK, Attach, pvars, promise_vars
  <2>1. Counted'
    OBVIOUS
  <2>2. Lifetime'
    OBVIOUS
  <2>3. PromiseThread'
    OBVIOUS
  <2>4. FutureThread'
    OBVIOUS
  <2>5. Bits'
    OBVIOUS
  <2>6. Handover'
    BY <2>1 DEF Handover
  <2> QED
    BY <2>1, <2>2, <2>3, <2>4, <2>5, <2>6
<1>9. CASE LateConsumer
  <2> USE <1>9, OutcomesAreObjects DEF TypeOK, LateConsumer, pvars, promise_vars
  <2>1. Counted'
    OBVIOUS
  <2>2. Lifetime'
    OBVIOUS
  <2>3. PromiseThread'
    OBVIOUS
  <2>4. FutureThread'
    OBVIOUS
  <2>5. Bits'
    BY DEF Handover
  <2>6. Handover'
    BY AppendEmpty, <2>1 DEF Handover
  <2> QED
    BY <2>1, <2>2, <2>3, <2>4, <2>5, <2>6
<1>10. CASE ReleaseFuture
  <2> USE <1>10, OutcomesAreObjects DEF TypeOK, ReleaseFuture, DropRef, IsLast, pvars, promise_vars
  <2>1. Counted'
    OBVIOUS
  <2>2. Lifetime'
    OBVIOUS
  <2>3. PromiseThread'
    OBVIOUS
  <2>4. FutureThread'
    OBVIOUS
  <2>5. Bits'
    OBVIOUS
  <2>6. Handover'
    BY <2>1 DEF Handover
  <2> QED
    BY <2>1, <2>2, <2>3, <2>4, <2>5, <2>6
<1>11. CASE DestroyByFuture
  <2> USE <1>11, OutcomesAreObjects DEF TypeOK, DestroyByFuture, DestroyStorage, pvars, promise_vars
  <2>1. Counted'
    OBVIOUS
  <2>2. Lifetime'
    OBVIOUS
  <2>3. PromiseThread'
    OBVIOUS
  <2>4. FutureThread'
    OBVIOUS
  <2>5. Bits'
    OBVIOUS
  <2>6. Handover'
    BY <2>1 DEF Handover
  <2> QED
    BY <2>1, <2>2, <2>3, <2>4, <2>5, <2>6
<1>12. CASE get_future
  <2> USE <1>12, OutcomesAreObjects DEF TypeOK, get_future
  <2>1. Counted'
    OBVIOUS
  <2>2. Lifetime'
    OBVIOUS
  <2>3. PromiseThread'
    OBVIOUS
  <2>4. FutureThread'
    OBVIOUS
  <2>5. Bits'
    OBVIOUS
  <2>6. Handover'
    BY <2>1 DEF Handover
  <2> QED
    BY <2>1, <2>2, <2>3, <2>4, <2>5, <2>6
<1>13. CASE DestroyPromise
  <2> USE <1>13, OutcomesAreObjects DEF TypeOK, DestroyPromise, StartOp, Outcomes, promise_vars, fvars, svars
  <2>1. Counted'
    OBVIOUS
  <2>2. Lifetime'
    OBVIOUS
  <2>3. PromiseThread'
    OBVIOUS
  <2>4. FutureThread'
    OBVIOUS
  <2>5. Bits'
    OBVIOUS
  <2>6. Handover'
    BY <2>1 DEF Handover
  <2> QED
    BY <2>1, <2>2, <2>3, <2>4, <2>5, <2>6
<1>14. CASE SetHandler
  <2> USE <1>14, OutcomesAreObjects DEF TypeOK, SetHandler, pvars, promise_vars
  <2>1. Counted'
    OBVIOUS
  <2>2. Lifetime'
    OBVIOUS
  <2>3. PromiseThread'
    OBVIOUS
  <2>4. FutureThread'
    OBVIOUS
  <2>5. Bits'
    OBVIOUS
  <2>6. Handover'
    BY <2>1 DEF Handover
  <2> QED
    BY <2>1, <2>2, <2>3, <2>4, <2>5, <2>6
<1>15. CASE DropFuture
  <2> USE <1>15, OutcomesAreObjects DEF TypeOK, DropFuture, pvars, promise_vars, svars
  <2>1. Counted'
    OBVIOUS
  <2>2. Lifetime'
    OBVIOUS
  <2>3. PromiseThread'
    OBVIOUS
  <2>4. FutureThread'
    OBVIOUS
  <2>5. Bits'
    OBVIOUS
  <2>6. Handover'
    BY <2>1 DEF Handover
  <2> QED
    BY <2>1, <2>2, <2>3, <2>4, <2>5, <2>6
<1>16. CASE \E o \in {"finish", "fail"}, r \in Values \cup Errors : Assign(o, r)
  <2> USE <1>16, OutcomesAreObjects DEF TypeOK, Assign, StartOp, Outcomes, promise_vars, fvars, svars
  <2>1. Counted'
    OBVIOUS
  <2>2. Lifetime'
    OBVIOUS
  <2>3. PromiseThread'
    OBVIOUS
  <2>4. FutureThread'
    OBVIOUS
  <2>5. Bits'
    OBVIOUS
  <2>6. Handover'
    BY <2>1 DEF Handover
  <2> QED
    BY <2>1, <2>2, <2>3, <2>4, <2>5, <2>6
<1>17. CASE UNCHANGED vars
  <2> USE <1>17, OutcomesAreObjects DEF TypeOK, vars, pvars, promise_vars, fvars, svars
  <2>1. Counted'
    OBVIOUS
  <2>2. Lifetime'
    OBVIOUS
  <2>3. PromiseThread'
    OBVIOUS
  <2>4. FutureThread'
    OBVIOUS
  <2>5. Bits'
    OBVIOUS
  <2>6. Handover'
    BY <2>1 DEF Handover
  <2> QED
    BY <2>1, <2>2, <2>3, <2>4, <2>5, <2>6
<1> QED
  BY <1>1, <1>2, <1>3, <1>4, <1>5, <1>6, <1>7, <1>8, <1>9, <1>10, <1>11,
     <1>12, <1>13, <1>14, <1>15, <1>16, <1>17, NextCases

\* Type correctness and the inductive invariant, for any values and errors.
THEOREM TypeCorrect == Spec => []TypeOK
<1>1. TypeOK /\ IInv /\ [Next]_vars => (TypeOK /\ IInv)'
  BY TypeStep, InvStep
<1> QED
  BY InitInv, <1>1, PTL DEF Spec

\* IInv holds in every reachable state of the handshake in storage_impl.h.
THEOREM Invariant == Spec => []IInv
<1>1. TypeOK /\ IInv /\ [Next]_vars => (TypeOK /\ IInv)'
  BY TypeStep, InvStep
<1> QED
  BY InitInv, <1>1, PTL DEF Spec

\* What IInv says of a single state.
LEMMA SafetyFromInv ==
  TypeOK /\ IInv => NoUseAfterFree /\ AtMostOnce /\ NothingLost /\ NoDataRace /\ NothingLeaks
<1> SUFFICES ASSUME TypeOK, IInv
             PROVE  NoUseAfterFree /\ AtMostOnce /\ NothingLost /\ NoDataRace /\ NothingLeaks
  OBVIOUS
<1> USE OutcomesAreObjects DEF TypeOK, IInv, Counted, Lifetime, PromiseThread, FutureThread, OpDone
<1>1. NoUseAfterFree
  BY DEF NoUseAfterFree
<1>2. AtMostOnce
  BY DEF AtMostOnce, Handover
<1>3. NothingLost
  BY DEF NothingLost, Handover
<1>4. NoDataRace
  BY DEF NoDataRace, Handover, Bits
<1>5. NothingLeaks
  BY DEF NothingLeaks, Bits
<1> QED
  BY <1>1, <1>2, <1>3, <1>4, <1>5

\* No thread ever touches the storage after Storage_ptr::clear has destroyed it.
THEOREM MemorySafe == Spec => []NoUseAfterFree
  BY TypeCorrect, Invariant, SafetyFromInv, PTL

\* The handler runs at most once, with the promise's outcome.
THEOREM DeliversAtMostOnce == Spec => []AtMostOnce
  BY TypeCorrect, Invariant, SafetyFromInv, PTL

\* No interleaving of set_handler with fullfill / finish / fail loses the outcome.
THEOREM LosesNothing == Spec => []NothingLost
  BY TypeCorrect, Invariant, SafetyFromInv, PTL

\* finished_ is never accessed by both threads at once.
THEOREM RaceFree == Spec => []NoDataRace
  BY TypeCorrect, Invariant, SafetyFromInv, PTL

\* The storage, its handler and its finished_ are all destroyed in the end.
THEOREM LeaksNothing == Spec => []NothingLeaks
  BY TypeCorrect, Invariant, SafetyFromInv, PTL

\* Every step of the two threads is a step of OneShot or changes nothing of it.
LEMMA RefineStep == TypeOK /\ IInv /\ [Next]_vars => [Abstract!Next]_(Abstract!vars)
<1> SUFFICES ASSUME TypeOK, IInv, [Next]_vars
             PROVE  [Abstract!Next]_(Abstract!vars)
  OBVIOUS
<1> USE DEF Abstract!vars, Abstract!Next, Abstract!Resolve, Abstract!Attach, Abstract!Deliver
<1>1. CASE Direct
  BY OutcomesAreObjects, AppendEmpty, <1>1 DEF Direct, AfterOp, promise_vars, fvars, svars, TypeOK, IInv, Handover, PromiseThread, OpDone
<1>2. CASE Construct
  BY <1>2 DEF Construct, promise_vars, fvars
<1>3. CASE Publish
  BY <1>3 DEF Publish, AfterOp, promise_vars, fvars
<1>4. CASE LateProducer
  BY OutcomesAreObjects, AppendEmpty, <1>4 DEF LateProducer, AfterOp, promise_vars, fvars, TypeOK, IInv, Handover, PromiseThread, OpDone
<1>5. CASE Assigned
  BY <1>5 DEF Assigned, fvars, svars
<1>6. CASE ReleasePromise
  BY <1>6 DEF ReleasePromise, DropRef, fvars
<1>7. CASE DestroyByPromise
  BY <1>7 DEF DestroyByPromise, DestroyStorage, promise_vars, fvars
<1>8. CASE Attach
  BY <1>8 DEF Attach, pvars, TypeOK, IInv, FutureThread
<1>9. CASE LateConsumer
  BY OutcomesAreObjects, AppendEmpty, <1>9 DEF LateConsumer, pvars, TypeOK, IInv, Handover, PromiseThread, OpDone
<1>10. CASE ReleaseFuture
  BY <1>10 DEF ReleaseFuture, DropRef, pvars
<1>11. CASE DestroyByFuture
  BY <1>11 DEF DestroyByFuture, DestroyStorage, pvars
<1>12. CASE get_future
  BY <1>12 DEF get_future
<1>13. CASE DestroyPromise
  BY OutcomesAreObjects, <1>13 DEF DestroyPromise, StartOp, Outcomes, promise_vars, fvars, svars, TypeOK, IInv, PromiseThread
<1>14. CASE SetHandler
  BY <1>14 DEF SetHandler, pvars
<1>15. CASE DropFuture
  BY <1>15 DEF DropFuture, pvars, svars
<1>16. CASE \E o \in {"finish", "fail"}, r \in Values \cup Errors : Assign(o, r)
  BY OutcomesAreObjects, <1>16 DEF Assign, StartOp, Outcomes, promise_vars, fvars, svars, TypeOK, IInv, PromiseThread
<1>17. CASE UNCHANGED vars
  BY <1>17 DEF vars, pvars, fvars, svars
<1> QED
  BY <1>1, <1>2, <1>3, <1>4, <1>5, <1>6, <1>7, <1>8, <1>9, <1>10, <1>11,
     <1>12, <1>13, <1>14, <1>15, <1>16, <1>17, NextCases

\* The lock-free handshake implements the one-shot channel.
THEOREM Refinement == Spec => Refines
<1>1. Init => Abstract!Init
  BY DEF Init, Abstract!Init
<1> QED
  BY <1>1, TypeCorrect, Invariant, RefineStep, PTL DEF Spec, Refines, Abstract!Spec
=============================================================================
