--------------------------- MODULE FutureStorage ---------------------------
(***************************************************************************)
(* One Future_storage shared by a Basic_promise and a Basic_future that    *)
(* live on two threads (var_future/impl/{storage_impl,storage_decl,        *)
(* promise,future,then_finally_expect}.h).                                 *)
(*                                                                         *)
(* The two sides meet without a lock, in the atomic state_: the promise    *)
(* publishes finished_ and then sets the finished bit, the future writes   *)
(* callback_ and then sets the ready bit, and whoever sets the second bit  *)
(* runs the handler.  Every access to an atomic is a step of its own, as   *)
(* is every run of plain accesses between two of them.  The storage is     *)
(* counted by ref_count_ and destroyed by whoever drops the last           *)
(* Storage_ptr.                                                            *)
(***************************************************************************)
EXTENDS Naturals, Sequences

CONSTANTS Values,        \* what set_value / finish can assign
          Errors,        \* what set_exception / finish can assign
          Unfullfilled,  \* the Unfullfilled_promise a dying promise assigns
          None,          \* no object: nothing constructed, nothing assigned
          Moved          \* an object that has been moved from

Outcomes == Values \cup Errors \cup {Unfullfilled}

ASSUME OutcomesAreObjects == None \notin Outcomes /\ Moved \notin Outcomes
                             /\ None # Moved

VARIABLES
  alive,      \* the storage is constructed and not destroyed
  state,      \* state_, as the set of its bits
  ref_count,  \* ref_count_
  callback,   \* cb_data_.callback_: "null", "handler" or "destroyed"
  finished,   \* the union member finished_
  held,       \* Basic_promise::storage_ is not null
  future_created, value_assigned,   \* Basic_promise's flags
  future,     \* Basic_future: "none" (not created), "held" or "released"
  ppc,        \* where the promise's thread is
  op,         \* the storage operation it is in: "finish" (and fullfill), "fail"
  outcome,    \* the operation's argument
  dying,      \* that thread is in ~Basic_promise
  fpc,        \* where the future's thread is
  delivered   \* the arguments the handler has been called with

promise_vars == <<held, future_created, value_assigned>>
pvars == <<promise_vars, ppc, op, outcome, dying>>
fvars == <<future, fpc>>
svars == <<alive, state, ref_count, callback, finished>>
vars  == <<pvars, fvars, svars, delivered>>

----------------------------------------------------------------------------
\* Basic_promise::Basic_promise: Storage_ptr::allocate counts the promise.
Init ==
  /\ alive = TRUE /\ state = {} /\ ref_count = 1
  /\ callback = "null" /\ finished = None
  /\ held = TRUE /\ future_created = FALSE /\ value_assigned = FALSE
  /\ future = "none"
  /\ ppc = "idle" /\ op = "finish" /\ outcome = None /\ dying = FALSE
  /\ fpc = "idle"
  /\ delivered = <<>>

\* ~Future_storage followed by the deallocation in Storage_ptr::clear.
DestroyStorage ==
  /\ alive' = FALSE
  /\ callback' = IF "ready" \in state THEN "destroyed" ELSE callback
  /\ finished' = IF "finished" \in state THEN None ELSE finished
  /\ UNCHANGED <<state, ref_count>>

\* The fetch_sub of Storage_ptr::clear; the last owner goes on to destroy.
DropRef == /\ ref_count' = ref_count - 1
           /\ UNCHANGED <<alive, state, callback, finished>>

\* A bug: fetch_sub is taken to return the new count.
IsLast_mutant == ref_count = 0

IsLast == ref_count = 1

----------------------------------------------------------------------------
\* The promise's thread.

\* A bug: a second future can be taken from the same promise.
get_future_twice ==
  /\ ppc = "idle" /\ held
  /\ future_created' = TRUE
  /\ future' = "held"
  /\ ref_count' = ref_count + 1
  /\ UNCHANGED <<held, value_assigned, ppc, op, outcome, dying, fpc, alive, state, callback, finished, delivered>>

\* A bug: the future's copy of storage_ is not counted.
get_future_uncounted ==
  /\ ppc = "idle" /\ held /\ ~future_created
  /\ future_created' = TRUE
  /\ future' = "held"
  /\ UNCHANGED <<held, value_assigned, ppc, op, outcome, dying, fpc, svars, delivered>>

get_future ==
  /\ ppc = "idle" /\ held /\ ~future_created
  /\ future_created' = TRUE
  /\ future' = "held"
  /\ ref_count' = ref_count + 1
  /\ UNCHANGED <<held, value_assigned, ppc, op, outcome, dying, fpc, alive, state, callback, finished, delivered>>

\* Future_storage::finish / fullfill / fail up to the first load of state_.
StartOp(o, r) ==
  /\ op' = o /\ outcome' = r
  /\ ppc' = IF "ready" \in state THEN "direct" ELSE "construct"

\* Basic_promise::finish, set_value and set_exception: the assertion
\* storage_ && !value_assigned_ is the caller's obligation.
Assign(o, r) ==
  /\ ppc = "idle" /\ held /\ ~value_assigned
  /\ StartOp(o, r)
  /\ UNCHANGED <<promise_vars, dying, fvars, svars, delivered>>

\* ~Basic_promise, then ~Storage_ptr of its storage_.
DestroyPromise ==
  /\ ppc = "idle"
  /\ dying' = TRUE
  /\ IF held /\ ~value_assigned
       THEN StartOp("fail", Unfullfilled)
       ELSE /\ ppc' = IF held THEN "release" ELSE "gone"
            /\ UNCHANGED <<op, outcome>>
  /\ UNCHANGED <<promise_vars, fvars, svars, delivered>>

\* Where the thread goes once the storage operation has returned.
AfterOp == IF dying THEN "release" ELSE "assigned"

\* A bug: having run the handler, fall through to the branch that publishes.
Direct_mutant ==
  /\ ppc = "direct"
  /\ delivered' = Append(delivered, outcome)
  /\ ppc' = "construct"
  /\ UNCHANGED <<promise_vars, op, outcome, dying, fvars, svars>>

\* The handler was there at the first load: run it with the argument.
Direct ==
  /\ ppc = "direct"
  /\ delivered' = Append(delivered, outcome)
  /\ ppc' = AfterOp
  /\ UNCHANGED <<promise_vars, op, outcome, dying, fvars, svars>>

\* A bug: the finished bit is set before finished_ is constructed.
Construct_mutant ==
  /\ ppc = "construct"
  /\ state' = state \cup {"finished"}
  /\ ppc' = "publish"
  /\ UNCHANGED <<promise_vars, op, outcome, dying, fvars, alive, finished, ref_count, callback, delivered>>

\* No handler at the first load: construct finished_ in place.
Construct ==
  /\ ppc = "construct"
  /\ finished' = outcome
  /\ ppc' = "publish"
  /\ UNCHANGED <<promise_vars, op, outcome, dying, fvars, alive, state, ref_count, callback, delivered>>

\* A bug: the handler that came "just in time" is overlooked, because the
\* value of the first load is used instead of the one fetch_or returns.
Publish_mutant ==
  /\ ppc = "publish"
  /\ state' = state \cup {"finished"}
  /\ ppc' = AfterOp
  /\ UNCHANGED <<promise_vars, op, outcome, dying, fvars, alive, ref_count, callback, finished, delivered>>

\* fetch_or of the finished bit.
Publish ==
  /\ ppc = "publish"
  /\ state' = state \cup {"finished"}
  /\ ppc' = IF "ready" \in state THEN "late" ELSE AfterOp
  /\ UNCHANGED <<promise_vars, op, outcome, dying, fvars, alive, ref_count, callback, finished, delivered>>

\* The handler was added between the load and the fetch_or.  finish and
\* fullfill move finished_ into it, fail builds its argument anew.
LateProducer ==
  /\ ppc = "late"
  /\ IF op = "fail"
       THEN delivered' = Append(delivered, outcome) /\ UNCHANGED finished
       ELSE delivered' = Append(delivered, finished) /\ finished' = Moved
  /\ ppc' = AfterOp
  /\ UNCHANGED <<promise_vars, op, outcome, dying, fvars, alive, state, ref_count, callback>>

\* The rest of finish / set_value / set_exception after the storage call.
Assigned ==
  /\ ppc = "assigned"
  /\ value_assigned' = TRUE
  /\ ppc' = IF future_created THEN "release" ELSE "idle"
  /\ UNCHANGED <<held, future_created, op, outcome, dying, fvars, svars, delivered>>

AfterRelease == IF dying THEN "gone" ELSE "idle"

ReleasePromise ==
  /\ ppc = "release"
  /\ DropRef
  /\ held' = FALSE
  /\ ppc' = IF IsLast THEN "destroy" ELSE AfterRelease
  /\ UNCHANGED <<future_created, value_assigned, op, outcome, dying, fvars, delivered>>

DestroyByPromise ==
  /\ ppc = "destroy"
  /\ DestroyStorage
  /\ ppc' = AfterRelease
  /\ UNCHANGED <<promise_vars, op, outcome, dying, fvars, delivered>>

----------------------------------------------------------------------------
\* The future's thread.

\* Basic_future::finally, then, then_expect: set_handler up to the fetch_or.
SetHandler ==
  /\ fpc = "idle" /\ future = "held"
  /\ callback' = "handler"
  /\ fpc' = "attach"
  /\ UNCHANGED <<pvars, future, alive, state, ref_count, finished, delivered>>

\* A bug: the ready bit is looked up and set in the wrong order, so that an
\* outcome published before the handler is never handed to it.
Attach_mutant ==
  /\ fpc = "attach"
  /\ state' = state \cup {"ready"}
  /\ fpc' = "release"
  /\ UNCHANGED <<pvars, future, alive, ref_count, callback, finished, delivered>>

\* fetch_or of the ready bit.
Attach ==
  /\ fpc = "attach"
  /\ state' = state \cup {"ready"}
  /\ fpc' = IF "finished" \in state THEN "late" ELSE "release"
  /\ UNCHANGED <<pvars, future, alive, ref_count, callback, finished, delivered>>

LateConsumer ==
  /\ fpc = "late"
  /\ delivered' = Append(delivered, finished)
  /\ finished' = Moved
  /\ fpc' = "release"
  /\ UNCHANGED <<pvars, future, alive, state, ref_count, callback>>

\* ~Basic_future of a future nobody attached a handler to.
DropFuture ==
  /\ fpc = "idle" /\ future = "held"
  /\ fpc' = "release"
  /\ UNCHANGED <<pvars, future, svars, delivered>>

\* storage_.reset() at the end of finally / then / then_expect.
ReleaseFuture ==
  /\ fpc = "release"
  /\ DropRef
  /\ future' = "released"
  /\ fpc' = IF IsLast THEN "destroy" ELSE "gone"
  /\ UNCHANGED <<pvars, delivered>>

DestroyByFuture ==
  /\ fpc = "destroy"
  /\ DestroyStorage
  /\ fpc' = "gone"
  /\ UNCHANGED <<pvars, future, delivered>>

----------------------------------------------------------------------------
\* Steps the library takes by itself once a call into it has started.
PromiseStep == \/ Direct \/ Construct \/ Publish \/ LateProducer
               \/ Assigned \/ ReleasePromise \/ DestroyByPromise
FutureStep  == \/ Attach \/ LateConsumer \/ ReleaseFuture \/ DestroyByFuture

\* Calls the program makes.
PromiseCall == \/ get_future
               \/ \E r \in Values : Assign("finish", r)
               \/ \E r \in Errors : \E o \in {"finish", "fail"} : Assign(o, r)
               \/ DestroyPromise
FutureCall == SetHandler \/ DropFuture

\* Everything is over: neither side will call again.
Done == /\ ppc = "gone" /\ fpc \in {"idle", "gone"} /\ future # "held"
        /\ UNCHANGED vars

Next == PromiseStep \/ FutureStep \/ PromiseCall \/ FutureCall \/ Done

Spec == Init /\ [][Next]_vars

\* A thread inside a call into the library keeps running.
FairSpec == Spec /\ WF_vars(PromiseStep) /\ WF_vars(FutureStep)

----------------------------------------------------------------------------
\* Properties.

TypeOK ==
  /\ alive \in BOOLEAN
  /\ state \in SUBSET {"ready", "finished"}
  /\ ref_count \in 0..2
  /\ callback \in {"null", "handler", "destroyed"}
  /\ finished \in Outcomes \cup {None, Moved}
  /\ held \in BOOLEAN /\ future_created \in BOOLEAN /\ value_assigned \in BOOLEAN
  /\ future \in {"none", "held", "released"}
  /\ ppc \in {"idle", "direct", "construct", "publish", "late", "assigned",
              "release", "destroy", "gone"}
  /\ op \in {"finish", "fail"}
  /\ outcome \in Outcomes \cup {None}
  /\ dying \in BOOLEAN
  /\ fpc \in {"idle", "attach", "late", "release", "destroy", "gone"}
  /\ delivered \in Seq(Outcomes \cup {None, Moved})

\* The inductive invariant behind the safety properties, in named parts.

\* ref_count_ counts the promise's and the future's Storage_ptr.
Counted == ref_count = (IF held THEN 1 ELSE 0) + (IF future = "held" THEN 1 ELSE 0)

\* The storage lives while it is counted, and until its last owner, of which
\* there is one, has destroyed it.
Lifetime ==
  /\ alive <=> (ref_count > 0 \/ ppc = "destroy" \/ fpc = "destroy")
  /\ ~(ppc = "destroy" /\ fpc = "destroy")
  /\ (ppc = "destroy" \/ fpc = "destroy") => ref_count = 0

\* Where each thread can be, given what it holds and what it was asked to do.
PromiseThread ==
  /\ ppc \in {"direct", "construct", "publish", "late", "assigned", "release"} => held
  /\ ppc \in {"destroy", "gone"} => ~held
  /\ ppc = "gone" => dying
  /\ ppc = "idle" => ~dying /\ (held \/ value_assigned)
  /\ ppc = "assigned" => ~dying
  /\ ppc \in {"release", "destroy"} => dying \/ value_assigned
  /\ ppc \in {"direct", "construct", "publish", "late", "assigned"}
       => outcome \in Outcomes /\ ~value_assigned
  /\ ppc \in {"release", "destroy", "gone"} => outcome \in Outcomes
  /\ ppc = "idle" => (value_assigned <=> outcome # None)
  /\ ~future_created <=> future = "none"

FutureThread ==
  /\ future = "none" => fpc = "idle"
  /\ fpc \in {"attach", "late", "release"} => future = "held"
  /\ fpc \in {"destroy", "gone"} <=> future = "released"
  /\ fpc \in {"idle", "attach"} => "ready" \notin state
  /\ fpc = "idle" => callback = "null"
  /\ fpc = "attach" => callback = "handler"

\* What the bits of state_ say of finished_ and callback_.
Bits ==
  /\ ("finished" \notin state /\ ppc # "publish") => finished = None
  /\ ppc = "publish" => finished = outcome
  /\ ppc \in {"idle", "direct", "construct", "publish"} /\ ~value_assigned
       => "finished" \notin state
  /\ (alive /\ fpc \notin {"idle", "attach"}) => ("ready" \in state <=> callback = "handler")
  /\ ~alive => (finished = None /\ callback # "handler")

\* The promise's thread is past its storage operation.
OpDone == ppc \in {"assigned", "release", "destroy", "gone"} \/ value_assigned

\* Exactly one thread has run the handler or is about to.
Handover ==
  /\ ~OpDone => delivered = <<>>
  /\ ppc \in {"direct", "late"} => "ready" \in state /\ fpc # "late"
  /\ ppc = "late" => "finished" \in state /\ finished = outcome
  /\ fpc = "late" => /\ OpDone
                     /\ {"ready", "finished"} \subseteq state
                     /\ finished = outcome
                     /\ delivered = <<>>
  /\ OpDone => \/ delivered = <<outcome>> /\ "ready" \in state
               \/ /\ delivered = <<>>
                  /\ "finished" \in state
                  /\ "ready" \in state => fpc = "late"
                  /\ alive => finished = outcome

IInv == Counted /\ Lifetime /\ PromiseThread /\ FutureThread /\ Bits /\ Handover

\* A thread about to touch the storage finds it alive: the reference counts
\* never let one side destroy it under the other.
NoUseAfterFree ==
  /\ (ppc \in {"direct", "construct", "publish", "late", "release", "destroy"}
      \/ held) => alive
  /\ (fpc \in {"attach", "late", "release", "destroy"} \/ future = "held") => alive

\* The handler runs at most once, with the outcome the promise was given
\* (never with a moved-from or unconstructed finished_).
AtMostOnce == /\ delivered \in {<<>>, <<outcome>>}
              /\ (outcome = None) => (delivered = <<>>)

\* Once the promise is done and the handler's owner has returned, the handler
\* has run: neither order of the two fetch_or loses the outcome.
NothingLost ==
  (ppc = "gone" /\ fpc \in {"release", "destroy", "gone"} /\ "ready" \in state)
    => delivered = <<outcome>>

\* While finished_ is written by the promise the future does not touch it, and
\* never do both threads move from it.
NoDataRace ==
  /\ ppc \in {"construct", "publish"} => fpc # "late" /\ "finished" \notin state
  /\ ~(ppc \in {"late", "direct"} /\ fpc = "late")

\* When both sides are gone the storage has been destroyed once, and so has
\* everything that was constructed in it.
NothingLeaks ==
  (ppc = "gone" /\ (fpc = "gone" \/ future = "none"))
    => ~alive /\ ref_count = 0 /\ callback # "handler" /\ finished = None

\* The two threads together implement the one-shot channel.
Abstract == INSTANCE OneShot WITH attached <- ("ready" \in state)
Refines  == Abstract!Spec

\* An attached handler is run once the promise has been given its outcome.
EventuallyDelivered ==
  (outcome # None /\ "ready" \in state) ~> (delivered = <<outcome>>)
=============================================================================
