--------------------------- MODULE StreamChannel ---------------------------
(***************************************************************************)
(* What a Basic_stream_promise / Basic_stream_future pair promises: the    *)
(* for_each callback is given the pushed values, in order and once each,   *)
(* and the future for_each returned is resolved with the way the stream    *)
(* ended, after the last of them.                                          *)
(***************************************************************************)
EXTENDS Naturals, Sequences

CONSTANTS Values,    \* what can be pushed
          Endings,   \* completion and the errors
          None

VARIABLES sent,      \* the values pushed so far
          ending,    \* how the producer ended the stream
          received,  \* the values the callback was given
          final      \* how the future of for_each was resolved

vars == <<sent, ending, received, final>>

Init == sent = <<>> /\ ending = None /\ received = <<>> /\ final = None

Push == /\ ending = None
        /\ \E v \in Values : sent' = Append(sent, v)
        /\ UNCHANGED <<ending, received, final>>

End == /\ ending = None
       /\ ending' \in Endings
       /\ UNCHANGED <<sent, received, final>>

Deliver == /\ Len(received) < Len(sent)
           /\ received' = Append(received, sent[Len(received) + 1])
           /\ UNCHANGED <<sent, ending, final>>

Finalize == /\ ending # None /\ received = sent /\ final = None
            /\ final' = ending
            /\ UNCHANGED <<sent, ending, received>>

Next == Push \/ End \/ Deliver \/ Finalize

Spec == Init /\ [][Next]_vars
=============================================================================
