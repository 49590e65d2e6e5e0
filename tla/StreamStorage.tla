--------------------------- MODULE StreamStorage ---------------------------
(***************************************************************************)
(* One Stream_storage shared by a Basic_stream_promise and a               *)
(* Basic_stream_future that live on two threads                            *)
(* (var_future/impl/stream/{stream_storage_impl,stream_storage_decl,       *)
(* stream_promise,stream_future,foreach_handler}.h).                       *)
(*                                                                         *)
(* push looks at state_ without the mutex first and runs the callback      *)
(* itself when the ready bit is there; otherwise it takes the mutex and    *)
(* buffers.  set_handler drains the buffer and sets the ready bit under    *)
(* the mutex.  A critical section no other thread can look into is one     *)
(* step; the drain is one step per value, because the unlocked load of     *)
(* push can come between any two of them.                                  *)
(***************************************************************************)
EXTENDS Naturals, Sequences

CONSTANTS Values,         \* what push can be given
          Errors,         \* what set_exception can be given
          Complete,       \* the ending complete() gives a stream
          Unfullfilled,   \* the error a dying promise gives it
          None,
          MaxPush         \* bound on the number of pushes

Endings == Errors \cup {Complete, Unfullfilled}

ASSUME EndingsAreNotNone == None \notin Endings
ASSUME MaxPushAssumption == MaxPush \in Nat
ASSUME CompleteIsNoError == Complete \notin Errors \cup {Unfullfilled}

VARIABLES
  alive,      \* the storage is constructed and not destroyed
  state,      \* state_, as the set of its bits
  mtx,        \* mtx_: held by set_handler, or free
  fullfilled, \* fullfilled_: what is buffered and not drained yet
  callback,   \* cb_data_.callback_, see Init
  ref_count,  \* ref_count_
  held,       \* Basic_stream_promise::storage_ is not null
  ppc,        \* where the promise's thread is
  arg,        \* the value its push was given
  dying,      \* it is in ~Basic_stream_promise
  fpc,        \* where the future's thread is
  sent,       \* history: the values push was called with
  ending,     \* how the producer ended the stream; error_ where it is an error
  received,   \* history: the values the callback was called with
  final,      \* the outcome final_promise_ was given
  threw       \* the callback has thrown

pvars == <<held, ppc, arg, dying, sent, ending>>
svars == <<alive, state, mtx, fullfilled, callback, ref_count>>
hvars == <<received, final, threw>>
vars  == <<pvars, fpc, svars, hvars>>

----------------------------------------------------------------------------
\* Basic_stream_promise::get_future has allocated the storage and counted
\* its own and the future's Storage_ptr.  Stream_storage's constructor does
\* not initialise callback_: it holds whatever the memory held.
Init ==
  /\ alive = TRUE /\ state = {} /\ mtx = "free" /\ fullfilled = <<>>
  /\ callback \in {"null", "garbage"}
  /\ ref_count = 2
  /\ held = TRUE /\ ppc = "idle" /\ arg = None /\ dying = FALSE
  /\ fpc = "idle"
  /\ sent = <<>> /\ ending = None
  /\ received = <<>> /\ final = None /\ threw = FALSE

\* ~Stream_storage: whatever callback_ points to is destroyed.
DestroyStorage ==
  /\ alive' = FALSE
  /\ callback' = CASE callback = "null"    -> "null"
                   [] callback = "handler" -> "destroyed"
                   [] callback = "garbage" -> "wild"
  /\ fullfilled' = <<>>
  /\ UNCHANGED <<state, mtx, ref_count>>

\* The fetch_sub of Storage_ptr::clear.
DropRef == /\ ref_count' = ref_count - 1
           /\ UNCHANGED <<alive, state, mtx, fullfilled, callback>>

\* A bug: fetch_sub is taken to return the new count.
IsLast_mutant == ref_count = 0

IsLast == ref_count = 1

\* The callback is run on v; it may throw instead of returning.
RunCallback(v, after, afterThrow, pc) ==
  /\ received' = Append(received, v)
  /\ \/ pc' = after /\ UNCHANGED threw
     \/ pc' = afterThrow /\ threw' = TRUE
  /\ UNCHANGED final

----------------------------------------------------------------------------
\* The promise's thread.

\* A bug: the unlocked check mistakes a handler that is still draining for
\* one that is ready.
Push_mutant(v) ==
  /\ ppc = "idle" /\ held /\ Len(sent) < MaxPush
  /\ sent' = Append(sent, v) /\ arg' = v
  /\ ppc' = IF callback = "handler" THEN "direct" ELSE "push"
  /\ UNCHANGED <<held, dying, ending, fpc, svars, hvars>>

\* push up to the unlocked load of state_.
Push(v) ==
  /\ ppc = "idle" /\ held /\ Len(sent) < MaxPush
  /\ sent' = Append(sent, v) /\ arg' = v
  /\ ppc' = IF "ready" \in state THEN "direct" ELSE "push"
  /\ UNCHANGED <<held, dying, ending, fpc, svars, hvars>>

\* A bug: under the lock, the ready bit is not looked at again.
PushLocked_mutant ==
  /\ ppc = "push" /\ mtx = "free"
  /\ fullfilled' = Append(fullfilled, arg)
  /\ ppc' = "idle"
  /\ UNCHANGED <<held, arg, dying, sent, ending, fpc, alive, state, mtx, callback, ref_count, hvars>>

\* The rest of push under the lock: look again, run the callback or buffer.
PushLocked ==
  /\ ppc = "push" /\ mtx = "free"
  /\ IF "ready" \in state
       THEN ppc' = "direct" /\ UNCHANGED fullfilled
       ELSE ppc' = "idle" /\ fullfilled' = Append(fullfilled, arg)
  /\ UNCHANGED <<held, arg, dying, sent, ending, fpc, alive, state, mtx, callback, ref_count, hvars>>

\* callback_->push with the lock released.  An exception leaves push and
\* reaches its caller.
PushDirect ==
  /\ ppc = "direct"
  /\ RunCallback(arg, "idle", "idle", ppc)
  /\ UNCHANGED <<held, arg, dying, sent, ending, fpc, svars>>

\* Basic_stream_promise::complete, set_exception.
EndStream(e) ==
  /\ ppc = "idle" /\ held
  /\ ending' = e /\ ppc' = "end"
  /\ UNCHANGED <<held, arg, dying, sent, fpc, svars, hvars>>

\* ~Basic_stream_promise.
DestroyPromise ==
  /\ ppc = "idle"
  /\ dying' = TRUE
  /\ IF held THEN ending' = Unfullfilled /\ ppc' = "end"
             ELSE ppc' = "gone" /\ UNCHANGED ending
  /\ UNCHANGED <<held, arg, sent, fpc, svars, hvars>>

EndBit == IF ending = Complete THEN "complete" ELSE "fail"

\* A bug: the lock is not taken, so that a drain in progress is not waited for
\* and the ready bit can be set between the load and the fetch_or.
EndLocked_mutant ==
  /\ ppc = "end"
  /\ IF callback = "handler"
       THEN ppc' = "final" /\ UNCHANGED state
       ELSE ppc' = "release" /\ state' = state \cup {EndBit}
  /\ UNCHANGED <<held, arg, dying, sent, ending, fpc, alive, mtx, fullfilled, callback, ref_count, hvars>>

\* Stream_storage::complete and fail under the lock.
EndLocked ==
  /\ ppc = "end" /\ mtx = "free"
  /\ IF "ready" \in state
       THEN ppc' = "final" /\ UNCHANGED state
       ELSE ppc' = "release" /\ state' = state \cup {EndBit}
  /\ UNCHANGED <<held, arg, dying, sent, ending, fpc, alive, mtx, fullfilled, callback, ref_count, hvars>>

\* callback_->complete / fail: Future_stream_foreach_handler moves its
\* finalizer_ and resolves it.
FinalizeByPromise ==
  /\ ppc = "final"
  /\ final' = ending
  /\ ppc' = "release"
  /\ UNCHANGED <<held, arg, dying, sent, ending, fpc, svars, received, threw>>

AfterRelease == IF dying THEN "gone" ELSE "idle"

\* A bug: reset() lets go of the storage but keeps the pointer.
ReleasePromise_mutant ==
  /\ ppc = "release"
  /\ DropRef
  /\ ppc' = IF IsLast THEN "destroy" ELSE AfterRelease
  /\ UNCHANGED <<held, arg, dying, sent, ending, fpc, hvars>>

ReleasePromise ==
  /\ ppc = "release"
  /\ DropRef
  /\ held' = FALSE
  /\ ppc' = IF IsLast THEN "destroy" ELSE AfterRelease
  /\ UNCHANGED <<arg, dying, sent, ending, fpc, hvars>>

DestroyByPromise ==
  /\ ppc = "destroy"
  /\ DestroyStorage
  /\ ppc' = AfterRelease
  /\ UNCHANGED <<held, arg, dying, sent, ending, fpc, hvars>>

----------------------------------------------------------------------------
\* The future's thread.

\* for_each: get_final_future, then set_handler up to the lock.
SetHandler ==
  /\ fpc = "idle"
  /\ callback' = "handler"
  /\ fpc' = "lock"
  /\ UNCHANGED <<pvars, alive, state, mtx, fullfilled, ref_count, hvars>>

LockForDrain ==
  /\ fpc = "lock" /\ mtx = "free"
  /\ mtx' = "set_handler"
  /\ fpc' = "drain"
  /\ UNCHANGED <<pvars, alive, state, fullfilled, callback, ref_count, hvars>>

\* One turn of the loop over fullfilled_, with the mutex held.  An exception
\* unwinds through set_handler and for_each and releases the mutex.
Drain ==
  /\ fpc = "drain" /\ fullfilled # <<>>
  /\ RunCallback(Head(fullfilled), "drain", "unwind", fpc)
  /\ fullfilled' = Tail(fullfilled)
  /\ UNCHANGED <<pvars, alive, state, mtx, callback, ref_count>>

Unwind ==
  /\ fpc = "unwind"
  /\ mtx' = "free"
  /\ fpc' = "release"
  /\ UNCHANGED <<pvars, alive, state, fullfilled, callback, ref_count, hvars>>

\* A bug: a stream that ended before for_each is not noticed.
Ready_mutant ==
  /\ fpc = "drain" /\ fullfilled = <<>>
  /\ state' = state \cup {"ready"}
  /\ mtx' = "free"
  /\ fpc' = "release"
  /\ UNCHANGED <<pvars, alive, fullfilled, callback, ref_count, hvars>>

\* fetch_or of the ready bit, unlock, and the look at the other two bits.
Ready ==
  /\ fpc = "drain" /\ fullfilled = <<>>
  /\ state' = state \cup {"ready"}
  /\ mtx' = "free"
  /\ fpc' = IF state \cap {"complete", "fail"} # {} THEN "final" ELSE "release"
  /\ UNCHANGED <<pvars, alive, fullfilled, callback, ref_count, hvars>>

FinalizeByFuture ==
  /\ fpc = "final"
  /\ final' = ending
  /\ fpc' = "release"
  /\ UNCHANGED <<pvars, svars, received, threw>>

\* ~Basic_stream_future of a stream nobody reads.
DropFuture ==
  /\ fpc = "idle"
  /\ fpc' = "release"
  /\ UNCHANGED <<pvars, svars, hvars>>

ReleaseFuture ==
  /\ fpc = "release"
  /\ DropRef
  /\ fpc' = IF IsLast THEN "destroy" ELSE "gone"
  /\ UNCHANGED <<pvars, hvars>>

DestroyByFuture ==
  /\ fpc = "destroy"
  /\ DestroyStorage
  /\ fpc' = "gone"
  /\ UNCHANGED <<pvars, hvars>>

----------------------------------------------------------------------------
PromiseStep == \/ PushLocked \/ PushDirect \/ EndLocked \/ FinalizeByPromise
               \/ ReleasePromise \/ DestroyByPromise
FutureStep  == \/ LockForDrain \/ Drain \/ Unwind \/ Ready \/ FinalizeByFuture
               \/ ReleaseFuture \/ DestroyByFuture
PromiseCall == \/ \E v \in Values : Push(v)
               \/ \E e \in Errors \cup {Complete} : EndStream(e)
               \/ DestroyPromise
FutureCall  == SetHandler \/ DropFuture

Done == ppc = "gone" /\ fpc = "gone" /\ UNCHANGED vars

Next == PromiseStep \/ FutureStep \/ PromiseCall \/ FutureCall \/ Done

Spec == Init /\ [][Next]_vars

\* A thread inside a call into the library keeps running.  Weak fairness is
\* enough for the mutex too: the only section that holds it across steps, the
\* drain, is entered once.
FairSpec == Spec /\ WF_vars(PromiseStep) /\ WF_vars(FutureStep)

----------------------------------------------------------------------------
\* Properties.

TypeOK ==
  /\ alive \in BOOLEAN
  /\ state \in SUBSET {"ready", "complete", "fail"}
  /\ mtx \in {"free", "set_handler"}
  /\ fullfilled \in Seq(Values)
  /\ callback \in {"null", "garbage", "handler", "destroyed", "wild"}
  /\ ref_count \in 0..2
  /\ held \in BOOLEAN
  /\ ppc \in {"idle", "push", "direct", "end", "final", "release", "destroy", "gone"}
  /\ arg \in Values \cup {None}
  /\ dying \in BOOLEAN
  /\ fpc \in {"idle", "lock", "drain", "unwind", "final", "release", "destroy", "gone"}
  /\ sent \in Seq(Values)
  /\ ending \in Endings \cup {None}
  /\ received \in Seq(Values)
  /\ final \in Endings \cup {None}
  /\ threw \in BOOLEAN

\* Neither side destroys the storage while the other still uses it.
NoUseAfterFree ==
  /\ (held \/ ppc \in {"push", "direct", "end", "final", "release", "destroy"}) => alive
  /\ fpc # "gone" => alive

\* The callback is never run by both threads at once, and the stream is never
\* finalized by one while the other still delivers: the fast path of push needs
\* no lock because the ready bit is set after the drain.
OneThreadDelivers ==
  /\ fpc \in {"lock", "drain"} => ppc \notin {"direct", "final"}
  /\ fpc = "final" => ppc \notin {"direct", "push", "end", "final"}

\* What has been pushed and not yet delivered is in the buffer, or in the hands
\* of a push that has not returned; nothing is lost, duplicated or overtaken.
NothingLost ==
  alive => sent = received \o fullfilled
                   \o (IF ppc \in {"push", "direct"} THEN <<arg>> ELSE <<>>)

\* The storage is destroyed when, and only when, both sides have let go of it.
NothingLeaks == (ppc = "gone" /\ fpc = "gone") => ~alive /\ callback # "handler"

\* The two threads together implement the channel.
Channel == INSTANCE StreamChannel
Refines == Channel!Spec

\* A stream that is read and has ended resolves the future of for_each,
\* unless the callback throws.
EventuallyFinal ==
  (callback = "handler" /\ ending # None) ~> (final # None \/ threw)
=============================================================================
