------------------------------ MODULE OneShot ------------------------------
(***************************************************************************)
(* What a Basic_promise / Basic_future pair promises, with nothing of how  *)
(* the two threads meet: one outcome is chosen, the future side attaches a *)
(* handler or is dropped, and an attached handler is handed the outcome    *)
(* once.                                                                   *)
(***************************************************************************)
EXTENDS Sequences

CONSTANTS Outcomes,   \* the values and errors a promise can be resolved with
          None        \* no outcome yet

VARIABLES outcome,    \* what the promise was resolved with
          attached,   \* the future has a handler
          delivered   \* what the handler was given

vars == <<outcome, attached, delivered>>

Init == outcome = None /\ attached = FALSE /\ delivered = <<>>

Resolve == /\ outcome = None
           /\ outcome' \in Outcomes
           /\ UNCHANGED <<attached, delivered>>

Attach == /\ ~attached
          /\ attached' = TRUE
          /\ UNCHANGED <<outcome, delivered>>

Deliver == /\ attached /\ outcome # None /\ delivered = <<>>
           /\ delivered' = <<outcome>>
           /\ UNCHANGED <<outcome, attached>>

Next == Resolve \/ Attach \/ Deliver

Spec == Init /\ [][Next]_vars
=============================================================================
