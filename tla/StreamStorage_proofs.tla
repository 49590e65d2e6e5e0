------------------------ MODULE StreamStorage_proofs ------------------------
(***************************************************************************)
(* Stream_storage delivers what is pushed, in order and once, to one       *)
(* thread at a time, and is destroyed exactly once, for any set of values, *)
(* any errors and any number of pushes; and it implements StreamChannel.   *)
(***************************************************************************)
EXTENDS StreamStorage, SequenceTheorems, TLAPS

----------------------------------------------------------------------------
\* The inductive invariant.

\* ref_count_ is the number of Storage_ptr that have not been cleared.
Counted ==
  ref_count = (IF held THEN 1 ELSE 0)
              + (IF fpc \in {"destroy", "gone"} THEN 0 ELSE 1)

\* The storage lives until the thread that dropped the last reference has
\* destroyed it, and only one thread is that thread.
Lifetime ==
  /\ alive <=> (ref_count > 0 \/ ppc = "destroy" \/ fpc = "destroy")
  /\ ppc = "destroy" => ref_count = 0 /\ fpc = "gone"
  /\ fpc = "destroy" => ref_count = 0 /\ ppc # "destroy"

\* What the promise's program counter says of its other variables.
PromiseThread ==
  /\ ppc \in {"push", "direct", "end", "final", "release"} => held
  /\ ppc \in {"destroy", "gone"} => ~held
  /\ ppc \in {"push", "direct"} => arg \in Values
  /\ ending # None <=> (~held \/ ppc \in {"end", "final", "release"})

\* What the future's program counter says of the mutex and the callback.
FutureThread ==
  /\ mtx = "set_handler" <=> fpc \in {"drain", "unwind"}
  /\ fpc \in {"lock", "drain", "unwind", "final"} => callback = "handler"
  /\ IF alive THEN callback \in {"null", "garbage", "handler"}
              ELSE callback \in {"null", "destroyed", "wild"}

\* The ready bit follows the drain, and only a promise that has seen it runs
\* the callback; the other two bits follow the last push.
Bits ==
  /\ "ready" \in state => /\ fpc \in {"final", "release", "destroy", "gone"}
                          /\ fullfilled = <<>>
  /\ ppc \in {"direct", "final"} => "ready" \in state
  /\ state \cap {"complete", "fail"} # {}
       => ending # None /\ ppc \notin {"end", "final"}
  /\ fpc = "final" => "ready" \in state /\ state \cap {"complete", "fail"} # {}

\* The future of for_each is resolved once both sides have done their part.
Finalized ==
  final # None => /\ ending # None /\ ppc \notin {"end", "final"}
                  /\ fpc \notin {"idle", "lock", "drain", "unwind", "final"}

IInv == /\ Counted /\ Lifetime /\ PromiseThread /\ FutureThread /\ Bits
        /\ Finalized /\ NothingLost

----------------------------------------------------------------------------
\* What the steps do to received \o fullfilled \o (what push holds).

\* A push appends to what was sent exactly what it now holds.
LEMMA PushKeeps ==
  ASSUME NEW T, NEW r \in Seq(T), NEW f \in Seq(T), NEW x \in T
  PROVE  Append(r \o f \o <<>>, x) = r \o f \o <<x>>
<1>1. r \o f \in Seq(T)
  BY ConcatProperties
<1> QED
  BY <1>1, ConcatEmptySeq, AppendIsConcat

\* Buffering moves the value from the pushing thread to the buffer's end.
LEMMA BufferKeeps ==
  ASSUME NEW T, NEW r \in Seq(T), NEW f \in Seq(T), NEW x \in T
  PROVE  r \o f \o <<x>> = r \o Append(f, x) \o <<>>
<1>1. <<x>> \in Seq(T) /\ Append(f, x) = f \o <<x>>
  BY AppendIsConcat
<1>2. r \o f \o <<x>> = r \o (f \o <<x>>) /\ r \o (f \o <<x>>) \in Seq(T)
  BY <1>1, ConcatAssociative, ConcatProperties
<1> QED
  BY <1>1, <1>2, ConcatEmptySeq

\* A push that finds the ready bit hands its value over past an empty buffer.
LEMMA DirectKeeps ==
  ASSUME NEW T, NEW r \in Seq(T), NEW x \in T
  PROVE  r \o <<>> \o <<x>> = Append(r, x) \o <<>> \o <<>>
<1>1. Append(r, x) \in Seq(T) /\ Append(r, x) = r \o <<x>>
  BY AppendProperties, AppendIsConcat
<1> QED
  BY <1>1, ConcatEmptySeq

\* A turn of the drain moves the buffer's head to the end of what was received.
LEMMA DrainKeeps ==
  ASSUME NEW T, NEW r \in Seq(T), NEW f \in Seq(T), f # <<>>
  PROVE  r \o f = Append(r, Head(f)) \o Tail(f)
<1>1. Head(f) \in T /\ Tail(f) \in Seq(T)
  BY HeadTailProperties
<1>2. f = <<Head(f)>> \o Tail(f) /\ <<Head(f)>> \in Seq(T)
  BY <1>1, HeadTailProperties
<1>3. r \o f = (r \o <<Head(f)>>) \o Tail(f)
  BY <1>1, <1>2, ConcatAssociative
<1> QED
  BY <1>1, <1>3, AppendIsConcat

\* The first value not yet received is the buffer's head.
LEMMA NextIsHead ==
  ASSUME NEW T, NEW r \in Seq(T), NEW f \in Seq(T), NEW t \in Seq(T), f # <<>>
  PROVE  /\ Len(r) < Len(r \o f \o t)
         /\ (r \o f \o t)[Len(r) + 1] = Head(f)
<1>1. r \o f \in Seq(T) /\ Len(r \o f) = Len(r) + Len(f)
  BY ConcatProperties
<1>2. Len(f) \in Nat /\ Len(f) > 0 /\ Len(r) \in Nat /\ Len(t) \in Nat /\ Head(f) = f[1]
  BY HeadTailProperties, LenProperties, EmptySeq
<1>3. Len(r \o f \o t) = Len(r) + Len(f) + Len(t)
  BY <1>1, ConcatProperties
<1>4. (r \o f)[Len(r) + 1] = f[1]
  BY <1>2, ConcatProperties
<1>5. (r \o f \o t)[Len(r) + 1] = (r \o f)[Len(r) + 1]
  BY <1>1, <1>2, ConcatProperties
<1> QED
  BY <1>2, <1>3, <1>4, <1>5

----------------------------------------------------------------------------
\* Each disjunct of Next, for the case distinctions below.
LEMMA NextCases ==
  ASSUME [Next]_vars
  PROVE  \/ PushLocked \/ PushDirect \/ EndLocked \/ FinalizeByPromise
         \/ ReleasePromise \/ DestroyByPromise
         \/ LockForDrain \/ Drain \/ Unwind \/ Ready \/ FinalizeByFuture
         \/ ReleaseFuture \/ DestroyByFuture
         \/ DestroyPromise \/ SetHandler \/ DropFuture
         \/ \E v \in Values : Push(v)
         \/ \E e \in Errors \cup {Complete} : EndStream(e)
         \/ UNCHANGED vars
  BY DEF Next, PromiseStep, FutureStep, PromiseCall, FutureCall, Done

\* Initially the types and the invariant hold.
LEMMA InitInv == Init => TypeOK /\ IInv
<1> SUFFICES ASSUME Init PROVE TypeOK /\ IInv
  OBVIOUS
<1> USE DEF Init
<1>1. <<>> \in Seq(Values) /\ <<>> \o <<>> \o <<>> = <<>>
  OBVIOUS
<1>2. ref_count \in 0..2
  OBVIOUS
<1>3. TypeOK
  BY <1>1, <1>2, Zenon DEF TypeOK
<1>4. Counted /\ Lifetime /\ PromiseThread
  BY DEF Counted, Lifetime, PromiseThread
<1>5. FutureThread /\ Bits /\ Finalized
  BY DEF FutureThread, Bits, Finalized
<1>6. NothingLost
  BY <1>1 DEF NothingLost
<1> QED
  BY <1>3, <1>4, <1>5, <1>6 DEF IInv

\* Every step keeps the types; the count stays in range because of IInv.
LEMMA TypeStep == TypeOK /\ IInv /\ [Next]_vars => TypeOK'
<1> SUFFICES ASSUME TypeOK, IInv, [Next]_vars PROVE TypeOK'
  OBVIOUS
<1> USE DEF TypeOK
<1>1. CASE PushLocked
  BY <1>1 DEF PushLocked, pvars, svars, hvars, IInv, Counted, PromiseThread
<1>2. CASE PushDirect
  <2>1. received' \in Seq(Values)
    BY <1>2, AppendProperties DEF PushDirect, RunCallback, IInv, PromiseThread
  <2>2. threw' \in BOOLEAN /\ ppc' = "idle"
    BY <1>2 DEF PushDirect, RunCallback
  <2>3. UNCHANGED <<held, arg, dying, sent, ending, fpc, svars, final>>
    BY <1>2 DEF PushDirect, RunCallback
  <2> QED
    BY <2>1, <2>2, <2>3 DEF svars
<1>3. CASE EndLocked
  <2>1. state' \in SUBSET {"ready", "complete", "fail"} /\ ppc' \in {"final", "release"}
    BY <1>3 DEF EndLocked, EndBit
  <2>2. UNCHANGED <<held, arg, dying, sent, ending, fpc, alive, mtx, fullfilled, callback, ref_count, hvars>>
    BY <1>3 DEF EndLocked
  <2> QED
    BY <2>1, <2>2 DEF hvars
<1>4. CASE FinalizeByPromise
  <2>1. final' = ending /\ ppc' = "release"
    BY <1>4 DEF FinalizeByPromise
  <2>2. UNCHANGED <<held, arg, dying, sent, ending, fpc, svars, received, threw>>
    BY <1>4 DEF FinalizeByPromise
  <2> QED
    BY <2>1, <2>2 DEF svars
<1>5. CASE ReleasePromise
  <2>1. ref_count' \in 0..2
    BY <1>5 DEF ReleasePromise, DropRef, IInv, Counted, PromiseThread
  <2>2. ppc' \in {"idle", "destroy", "gone"} /\ held' \in BOOLEAN
    BY <1>5 DEF ReleasePromise, AfterRelease
  <2>3. UNCHANGED <<alive, state, mtx, fullfilled, callback, arg, dying, sent, ending, fpc, hvars>>
    BY <1>5 DEF ReleasePromise, DropRef
  <2> QED
    BY <2>1, <2>2, <2>3 DEF hvars
<1>6. CASE DestroyByPromise
  <2>1. callback' \in {"null", "destroyed", "wild"}
    BY <1>6 DEF DestroyByPromise, DestroyStorage, IInv, Lifetime, FutureThread
  <2>2. ppc' \in {"idle", "gone"}
    BY <1>6 DEF DestroyByPromise, AfterRelease
  <2>3. fullfilled' \in Seq(Values)
    BY <1>6 DEF DestroyByPromise, DestroyStorage
  <2>4. alive' \in BOOLEAN /\ UNCHANGED <<state, mtx, ref_count, held, arg, dying, sent, ending, fpc, hvars>>
    BY <1>6, Zenon DEF DestroyByPromise, DestroyStorage
  <2> QED
    BY <2>1, <2>2, <2>3, <2>4 DEF hvars
<1>7. CASE LockForDrain
  BY <1>7 DEF LockForDrain, pvars, svars, hvars
<1>8. CASE Drain
  <2>1. received' \in Seq(Values) /\ fullfilled' \in Seq(Values)
    BY <1>8, AppendProperties, HeadTailProperties DEF Drain, RunCallback
  <2>2. threw' \in BOOLEAN /\ fpc' \in {"drain", "unwind"}
    BY <1>8 DEF Drain, RunCallback
  <2>3. UNCHANGED <<pvars, alive, state, mtx, callback, ref_count, final>>
    BY <1>8 DEF Drain, RunCallback
  <2> QED
    BY <2>1, <2>2, <2>3 DEF pvars
<1>9. CASE Unwind
  BY <1>9 DEF Unwind, pvars, svars, hvars
<1>10. CASE Ready
  BY <1>10 DEF Ready, pvars, svars, hvars
<1>11. CASE FinalizeByFuture
  BY <1>11 DEF FinalizeByFuture, pvars, svars, hvars
<1>12. CASE ReleaseFuture
  BY <1>12 DEF ReleaseFuture, DropRef, IsLast, pvars, svars, hvars, IInv, Counted, PromiseThread
<1>13. CASE DestroyByFuture
  <2>1. callback' \in {"null", "destroyed", "wild"}
    BY <1>13 DEF DestroyByFuture, DestroyStorage, IInv, Lifetime, FutureThread
  <2>2. fullfilled' \in Seq(Values)
    BY <1>13 DEF DestroyByFuture, DestroyStorage
  <2>3. alive' = FALSE /\ fpc' = "gone" /\ UNCHANGED <<pvars, state, mtx, ref_count, hvars>>
    BY <1>13, Zenon DEF DestroyByFuture, DestroyStorage
  <2> QED
    BY <2>1, <2>2, <2>3 DEF pvars, hvars
<1>14. CASE DestroyPromise
  BY <1>14 DEF DestroyPromise, Endings, pvars, svars, hvars
<1>15. CASE SetHandler
  BY <1>15 DEF SetHandler, pvars, svars, hvars
<1>16. CASE DropFuture
  BY <1>16 DEF DropFuture, pvars, svars, hvars
<1>17. CASE \E v \in Values : Push(v)
  BY <1>17 DEF Push, pvars, svars, hvars
<1>18. CASE \E e \in Errors \cup {Complete} : EndStream(e)
  BY <1>18 DEF EndStream, Endings, pvars, svars, hvars
<1>19. CASE UNCHANGED vars
  BY <1>19 DEF vars, pvars, svars, hvars
<1> QED
  BY <1>1, <1>2, <1>3, <1>4, <1>5, <1>6, <1>7, <1>8, <1>9, <1>10,
     <1>11, <1>12, <1>13, <1>14, <1>15, <1>16, <1>17, <1>18, <1>19, NextCases

\* What a push that waits for the mutex holds, it may buffer.
LEMMA PushLockedKeeps ==
  TypeOK /\ IInv /\ ppc = "push"
    => received \o fullfilled \o <<arg>> = received \o Append(fullfilled, arg) \o <<>>
<1>1. TypeOK => received \in Seq(Values) /\ fullfilled \in Seq(Values)
  BY DEF TypeOK
<1>2. IInv /\ ppc = "push" => arg \in Values
  BY DEF IInv, PromiseThread
<1> QED
  BY <1>1, <1>2, BufferKeeps

\* Every step keeps each part of IInv.
LEMMA InvStep == TypeOK /\ IInv /\ [Next]_vars => IInv'
<1> SUFFICES ASSUME TypeOK, IInv, [Next]_vars PROVE IInv'
  OBVIOUS
<1> USE DEF IInv, Counted, Lifetime, PromiseThread, FutureThread, Bits
<1>1. CASE PushLocked
  <2>1. received \o fullfilled \o <<arg>> = received \o Append(fullfilled, arg) \o <<>>
    BY <1>1, PushLockedKeeps, Zenon DEF PushLocked
  <2> USE <1>1, EndingsAreNotNone DEF TypeOK, Finalized, PushLocked, pvars, svars, hvars
  <2>2. Counted' /\ Lifetime'
    OBVIOUS
  <2>3. PromiseThread' /\ FutureThread'
    OBVIOUS
  <2>4. Bits'
    OBVIOUS
  <2>5. Finalized'
    OBVIOUS
  <2>6. NothingLost'
    <3>1. CASE "ready" \in state
      BY <3>1 DEF NothingLost
    <3>2. CASE "ready" \notin state
      BY <2>1, <3>2 DEF NothingLost
    <3> QED
      BY <3>1, <3>2
  <2> QED
    BY <2>2, <2>3, <2>4, <2>5, <2>6
<1>2. CASE PushDirect
  <2> USE <1>2, EndingsAreNotNone DEF TypeOK, Finalized, PushDirect, RunCallback, pvars, svars, hvars
  <2>1. Counted' /\ Lifetime'
    OBVIOUS
  <2>2. PromiseThread' /\ FutureThread'
    OBVIOUS
  <2>3. Bits'
    OBVIOUS
  <2>4. Finalized'
    OBVIOUS
  <2>5. NothingLost'
    BY DirectKeeps DEF NothingLost
  <2> QED
    BY <2>1, <2>2, <2>3, <2>4, <2>5
<1>3. CASE EndLocked
  <2> USE <1>3, EndingsAreNotNone DEF TypeOK, Finalized, EndLocked, EndBit, pvars, svars, hvars
  <2>1. Counted' /\ Lifetime'
    OBVIOUS
  <2>2. PromiseThread' /\ FutureThread'
    OBVIOUS
  <2>3. Bits'
    OBVIOUS
  <2>4. Finalized'
    OBVIOUS
  <2>5. NothingLost'
    BY DEF NothingLost
  <2> QED
    BY <2>1, <2>2, <2>3, <2>4, <2>5
<1>4. CASE FinalizeByPromise
  <2> USE <1>4, EndingsAreNotNone DEF TypeOK, Finalized, FinalizeByPromise, pvars, svars, hvars
  <2>1. Counted' /\ Lifetime'
    OBVIOUS
  <2>2. PromiseThread' /\ FutureThread'
    OBVIOUS
  <2>3. Bits'
    OBVIOUS
  <2>4. Finalized'
    OBVIOUS
  <2>5. NothingLost'
    BY DEF NothingLost
  <2> QED
    BY <2>1, <2>2, <2>3, <2>4, <2>5
<1>5. CASE ReleasePromise
  <2> USE <1>5, EndingsAreNotNone DEF TypeOK, Finalized, ReleasePromise, DropRef, IsLast, AfterRelease, pvars, svars, hvars
  <2>1. Counted' /\ Lifetime'
    OBVIOUS
  <2>2. PromiseThread' /\ FutureThread'
    OBVIOUS
  <2>3. Bits'
    OBVIOUS
  <2>4. Finalized'
    OBVIOUS
  <2>5. NothingLost'
    BY DEF NothingLost
  <2> QED
    BY <2>1, <2>2, <2>3, <2>4, <2>5
<1>6. CASE DestroyByPromise
  <2> USE <1>6, EndingsAreNotNone DEF TypeOK, Finalized, DestroyByPromise, DestroyStorage, AfterRelease, pvars, svars, hvars
  <2>1. Counted' /\ Lifetime'
    OBVIOUS
  <2>2. PromiseThread' /\ FutureThread'
    OBVIOUS
  <2>3. Bits'
    OBVIOUS
  <2>4. Finalized'
    OBVIOUS
  <2>5. NothingLost'
    BY DEF NothingLost
  <2> QED
    BY <2>1, <2>2, <2>3, <2>4, <2>5
<1>7. CASE LockForDrain
  <2> USE <1>7, EndingsAreNotNone DEF TypeOK, Finalized, LockForDrain, pvars, svars, hvars
  <2>1. Counted' /\ Lifetime'
    OBVIOUS
  <2>2. PromiseThread' /\ FutureThread'
    OBVIOUS
  <2>3. Bits'
    OBVIOUS
  <2>4. Finalized'
    OBVIOUS
  <2>5. NothingLost'
    BY DEF NothingLost
  <2> QED
    BY <2>1, <2>2, <2>3, <2>4, <2>5
<1>8. CASE Drain
  <2> USE <1>8, EndingsAreNotNone DEF TypeOK, Finalized, Drain, RunCallback, pvars, svars, hvars
  <2>1. Counted' /\ Lifetime'
    OBVIOUS
  <2>2. PromiseThread' /\ FutureThread'
    OBVIOUS
  <2>3. Bits'
    OBVIOUS
  <2>4. Finalized'
    OBVIOUS
  <2>5. NothingLost'
    BY DrainKeeps DEF NothingLost
  <2> QED
    BY <2>1, <2>2, <2>3, <2>4, <2>5
<1>9. CASE Unwind
  <2> USE <1>9, EndingsAreNotNone DEF TypeOK, Finalized, Unwind, pvars, svars, hvars
  <2>1. Counted' /\ Lifetime'
    OBVIOUS
  <2>2. PromiseThread' /\ FutureThread'
    OBVIOUS
  <2>3. Bits'
    OBVIOUS
  <2>4. Finalized'
    OBVIOUS
  <2>5. NothingLost'
    BY DEF NothingLost
  <2> QED
    BY <2>1, <2>2, <2>3, <2>4, <2>5
<1>10. CASE Ready
  <2> USE <1>10, EndingsAreNotNone DEF TypeOK, Finalized, Ready, pvars, svars, hvars
  <2>1. Counted' /\ Lifetime'
    OBVIOUS
  <2>2. PromiseThread' /\ FutureThread'
    OBVIOUS
  <2>3. Bits'
    OBVIOUS
  <2>4. Finalized'
    OBVIOUS
  <2>5. NothingLost'
    BY DEF NothingLost
  <2> QED
    BY <2>1, <2>2, <2>3, <2>4, <2>5
<1>11. CASE FinalizeByFuture
  <2> USE <1>11, EndingsAreNotNone DEF TypeOK, Finalized, FinalizeByFuture, pvars, svars, hvars
  <2>1. Counted' /\ Lifetime'
    OBVIOUS
  <2>2. PromiseThread' /\ FutureThread'
    OBVIOUS
  <2>3. Bits'
    OBVIOUS
  <2>4. Finalized'
    OBVIOUS
  <2>5. NothingLost'
    BY DEF NothingLost
  <2> QED
    BY <2>1, <2>2, <2>3, <2>4, <2>5
<1>12. CASE ReleaseFuture
  <2> USE <1>12, EndingsAreNotNone DEF TypeOK, Finalized, ReleaseFuture, DropRef, IsLast, pvars, svars, hvars
  <2>1. Counted' /\ Lifetime'
    OBVIOUS
  <2>2. PromiseThread' /\ FutureThread'
    OBVIOUS
  <2>3. Bits'
    OBVIOUS
  <2>4. Finalized'
    OBVIOUS
  <2>5. NothingLost'
    BY DEF NothingLost
  <2> QED
    BY <2>1, <2>2, <2>3, <2>4, <2>5
<1>13. CASE DestroyByFuture
  <2> USE <1>13, EndingsAreNotNone DEF TypeOK, Finalized, DestroyByFuture, DestroyStorage, pvars, svars, hvars
  <2>1. Counted' /\ Lifetime'
    OBVIOUS
  <2>2. PromiseThread' /\ FutureThread'
    OBVIOUS
  <2>3. Bits'
    OBVIOUS
  <2>4. Finalized'
    OBVIOUS
  <2>5. NothingLost'
    BY DEF NothingLost
  <2> QED
    BY <2>1, <2>2, <2>3, <2>4, <2>5
<1>14. CASE DestroyPromise
  <2> USE <1>14, EndingsAreNotNone DEF TypeOK, Finalized, DestroyPromise, Endings, pvars, svars, hvars
  <2>1. Counted' /\ Lifetime'
    OBVIOUS
  <2>2. PromiseThread' /\ FutureThread'
    OBVIOUS
  <2>3. Bits'
    OBVIOUS
  <2>4. Finalized'
    OBVIOUS
  <2>5. NothingLost'
    BY DEF NothingLost
  <2> QED
    BY <2>1, <2>2, <2>3, <2>4, <2>5
<1>15. CASE SetHandler
  <2> USE <1>15, EndingsAreNotNone DEF TypeOK, Finalized, SetHandler, pvars, svars, hvars
  <2>1. Counted' /\ Lifetime'
    OBVIOUS
  <2>2. PromiseThread' /\ FutureThread'
    OBVIOUS
  <2>3. Bits'
    OBVIOUS
  <2>4. Finalized'
    OBVIOUS
  <2>5. NothingLost'
    BY DEF NothingLost
  <2> QED
    BY <2>1, <2>2, <2>3, <2>4, <2>5
<1>16. CASE DropFuture
  <2> USE <1>16, EndingsAreNotNone DEF TypeOK, Finalized, DropFuture, pvars, svars, hvars
  <2>1. Counted' /\ Lifetime'
    OBVIOUS
  <2>2. PromiseThread' /\ FutureThread'
    OBVIOUS
  <2>3. Bits'
    OBVIOUS
  <2>4. Finalized'
    OBVIOUS
  <2>5. NothingLost'
    BY DEF NothingLost
  <2> QED
    BY <2>1, <2>2, <2>3, <2>4, <2>5
<1>17. CASE \E v \in Values : Push(v)
  <2> USE <1>17, EndingsAreNotNone DEF TypeOK, Finalized, Push, pvars, svars, hvars
  <2>1. Counted' /\ Lifetime'
    OBVIOUS
  <2>2. PromiseThread' /\ FutureThread'
    OBVIOUS
  <2>3. Bits'
    OBVIOUS
  <2>4. Finalized'
    OBVIOUS
  <2>5. NothingLost'
    BY PushKeeps DEF NothingLost
  <2> QED
    BY <2>1, <2>2, <2>3, <2>4, <2>5
<1>18. CASE \E e \in Errors \cup {Complete} : EndStream(e)
  <2> USE <1>18, EndingsAreNotNone DEF TypeOK, Finalized, EndStream, Endings, pvars, svars, hvars
  <2>1. Counted' /\ Lifetime'
    OBVIOUS
  <2>2. PromiseThread' /\ FutureThread'
    OBVIOUS
  <2>3. Bits'
    OBVIOUS
  <2>4. Finalized'
    OBVIOUS
  <2>5. NothingLost'
    BY DEF NothingLost
  <2> QED
    BY <2>1, <2>2, <2>3, <2>4, <2>5
<1>19. CASE UNCHANGED vars
  <2> USE <1>19, EndingsAreNotNone DEF TypeOK, Finalized, vars, pvars, svars, hvars
  <2>1. Counted' /\ Lifetime'
    OBVIOUS
  <2>2. PromiseThread' /\ FutureThread'
    OBVIOUS
  <2>3. Bits'
    OBVIOUS
  <2>4. Finalized'
    OBVIOUS
  <2>5. NothingLost'
    BY DEF NothingLost
  <2> QED
    BY <2>1, <2>2, <2>3, <2>4, <2>5
<1> QED
  BY <1>1, <1>2, <1>3, <1>4, <1>5, <1>6, <1>7, <1>8, <1>9, <1>10,
     <1>11, <1>12, <1>13, <1>14, <1>15, <1>16, <1>17, <1>18, <1>19, NextCases

----------------------------------------------------------------------------
\* Type correctness, for any values, errors and number of pushes.
THEOREM TypeCorrect == Spec => []TypeOK
<1>1. TypeOK /\ IInv /\ [Next]_vars => (TypeOK /\ IInv)'
  BY TypeStep, InvStep
<1> QED
  BY InitInv, <1>1, PTL DEF Spec

\* IInv holds in every reachable state of the storage in stream_storage_impl.h.
THEOREM Invariant == Spec => []IInv
<1>1. TypeOK /\ IInv /\ [Next]_vars => (TypeOK /\ IInv)'
  BY TypeStep, InvStep
<1> QED
  BY InitInv, <1>1, PTL DEF Spec

\* What IInv says of a single state.
LEMMA SafetyFromInv ==
  TypeOK /\ IInv => NoUseAfterFree /\ OneThreadDelivers /\ NothingLost /\ NothingLeaks
<1> SUFFICES ASSUME TypeOK, IInv
             PROVE  NoUseAfterFree /\ OneThreadDelivers /\ NothingLost /\ NothingLeaks
  OBVIOUS
<1> USE DEF TypeOK, IInv, Counted, Lifetime, PromiseThread, FutureThread
<1>1. NoUseAfterFree
  BY DEF NoUseAfterFree
<1>2. OneThreadDelivers
  BY DEF OneThreadDelivers, Bits
<1>3. NothingLeaks
  BY DEF NothingLeaks
<1> QED
  BY <1>1, <1>2, <1>3

\* Neither thread touches the storage after the other has destroyed it.
THEOREM MemorySafe == Spec => []NoUseAfterFree
  BY TypeCorrect, Invariant, SafetyFromInv, PTL

\* The unlocked fast path of push never runs the callback, and the stream is
\* never finalized, while the other thread still delivers.
THEOREM DeliveredByOneThread == Spec => []OneThreadDelivers
  BY TypeCorrect, Invariant, SafetyFromInv, PTL

\* No interleaving of push with set_handler's drain loses, duplicates or
\* reorders a value.
THEOREM LosesNothing == Spec => []NothingLost
  BY TypeCorrect, Invariant, SafetyFromInv, PTL

\* The storage and its callback are destroyed once both sides are gone.
THEOREM LeaksNothing == Spec => []NothingLeaks
  BY TypeCorrect, Invariant, SafetyFromInv, PTL

\* Every step of the two threads is a step of StreamChannel or stutters there.
LEMMA RefineStep == TypeOK /\ IInv /\ [Next]_vars => [Channel!Next]_(Channel!vars)
<1> SUFFICES ASSUME TypeOK, IInv, [Next]_vars
             PROVE  [Channel!Next]_(Channel!vars)
  OBVIOUS
<1> USE DEF Channel!vars, Channel!Next, Channel!Push, Channel!End, Channel!Deliver, Channel!Finalize
<1>1. CASE PushLocked
  BY <1>1 DEF PushLocked, pvars, svars, hvars
<1>2. CASE PushDirect
  <2>1. /\ arg \in Values /\ fullfilled = <<>> /\ alive
        /\ sent = received \o <<>> \o <<arg>>
    BY <1>2 DEF PushDirect, TypeOK, IInv, Counted, Lifetime, PromiseThread, Bits, NothingLost
  <2>2. sent = Append(received, arg)
    BY <2>1, AppendIsConcat, ConcatEmptySeq DEF TypeOK
  <2>3. Len(received) < Len(sent) /\ sent[Len(received) + 1] = arg
    BY <2>1, <2>2, AppendProperties DEF TypeOK
  <2> QED
    BY <1>2, <2>3 DEF PushDirect, RunCallback
<1>3. CASE EndLocked
  BY <1>3 DEF EndLocked, EndBit, pvars, svars, hvars
<1>4. CASE FinalizeByPromise
  <2>1. final = None /\ ending # None /\ alive /\ fullfilled = <<>>
    BY <1>4 DEF FinalizeByPromise, TypeOK, IInv, Counted, Lifetime, PromiseThread, Bits, Finalized
  <2>2. received = sent
    BY <1>4, <2>1, ConcatEmptySeq DEF FinalizeByPromise, TypeOK, IInv, NothingLost
  <2> QED
    BY <1>4, <2>1, <2>2 DEF FinalizeByPromise
<1>5. CASE ReleasePromise
  BY <1>5 DEF ReleasePromise, DropRef, IsLast, AfterRelease, pvars, svars, hvars
<1>6. CASE DestroyByPromise
  BY <1>6 DEF DestroyByPromise, DestroyStorage, AfterRelease, pvars, svars, hvars
<1>7. CASE LockForDrain
  BY <1>7 DEF LockForDrain, pvars, svars, hvars
<1>8. CASE Drain
  <2>1. alive /\ fullfilled # <<>> /\ received' = Append(received, Head(fullfilled))
    BY <1>8 DEF Drain, RunCallback, TypeOK, IInv, Counted, Lifetime
  <2> DEFINE t == IF ppc \in {"push", "direct"} THEN <<arg>> ELSE <<>>
  <2>2. t \in Seq(Values)
    BY DEF TypeOK, IInv, PromiseThread
  <2>3. sent = received \o fullfilled \o t
    BY <2>1 DEF IInv, NothingLost
  <2> HIDE DEF t
  <2>4. Len(received) < Len(sent) /\ sent[Len(received) + 1] = Head(fullfilled)
    BY <2>1, <2>2, <2>3, NextIsHead DEF TypeOK
  <2> QED
    BY <1>8, <2>1, <2>4 DEF Drain, RunCallback, pvars
<1>9. CASE Unwind
  BY <1>9 DEF Unwind, pvars, svars, hvars
<1>10. CASE Ready
  BY <1>10 DEF Ready, pvars, svars, hvars
<1>11. CASE FinalizeByFuture
  <2>1. /\ final = None /\ ending # None /\ alive /\ fullfilled = <<>>
        /\ ppc \notin {"push", "direct"}
    BY <1>11 DEF FinalizeByFuture, TypeOK, IInv, Counted, Lifetime, PromiseThread, Bits, Finalized
  <2>2. received = sent
    BY <2>1, ConcatEmptySeq DEF TypeOK, IInv, NothingLost
  <2> QED
    BY <1>11, <2>1, <2>2 DEF FinalizeByFuture, pvars
<1>12. CASE ReleaseFuture
  BY <1>12 DEF ReleaseFuture, DropRef, IsLast, pvars, svars, hvars
<1>13. CASE DestroyByFuture
  BY <1>13 DEF DestroyByFuture, DestroyStorage, pvars, svars, hvars
<1>14. CASE DestroyPromise
  BY <1>14 DEF DestroyPromise, Endings, pvars, svars, hvars, TypeOK, IInv, PromiseThread
<1>15. CASE SetHandler
  BY <1>15 DEF SetHandler, pvars, svars, hvars
<1>16. CASE DropFuture
  BY <1>16 DEF DropFuture, pvars, svars, hvars
<1>17. CASE \E v \in Values : Push(v)
  BY <1>17 DEF Push, pvars, svars, hvars, TypeOK, IInv, PromiseThread
<1>18. CASE \E e \in Errors \cup {Complete} : EndStream(e)
  BY <1>18 DEF EndStream, Endings, pvars, svars, hvars, TypeOK, IInv, PromiseThread
<1>19. CASE UNCHANGED vars
  BY <1>19 DEF vars, pvars, svars, hvars
<1> QED
  BY <1>1, <1>2, <1>3, <1>4, <1>5, <1>6, <1>7, <1>8, <1>9, <1>10,
     <1>11, <1>12, <1>13, <1>14, <1>15, <1>16, <1>17, <1>18, <1>19, NextCases

\* The storage shared by two threads implements StreamChannel.
THEOREM Refinement == Spec => Refines
<1>1. Init => Channel!Init
  BY DEF Init, Channel!Init
<1> QED
  BY <1>1, TypeCorrect, Invariant, RefineStep, PTL DEF Spec, Refines, Channel!Spec
=============================================================================
