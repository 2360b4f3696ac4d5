---------------------------- MODULE ClickLedger ----------------------------
(***************************************************************************)
(* What the click pipeline promises, without streams, writers or snapshots: *)
(* published clicks are counted exactly once, in the bucket of their link  *)
(* and in the bucket over all links, and what is saved was counted before  *)
(* and is taken back only with its link, never over all links.             *)
(***************************************************************************)
EXTENDS Integers, Sequences

CONSTANTS Codes, Global, Malformed, MaxDay

Days == 1 .. MaxDay
Buckets == (Codes \cup {Global}) \X Days
Events == [code : Codes \cup {Malformed}, at : Days]

VARIABLES
    published,  \* the events, in order; an event's id is its position
    pending,    \* ids of the events not handled yet
    counted,    \* clicks counted per bucket
    saved       \* clicks per bucket that survive a loss of the counters

vars == <<published, pending, counted, saved>>

Init ==
    /\ published = <<>> /\ pending = {}
    /\ counted = [b \in Buckets |-> 0] /\ saved = [b \in Buckets |-> 0]

Publish ==
    /\ \E event \in Events : published' = Append(published, event)
    /\ pending' = pending \cup {Len(published) + 1}
    /\ UNCHANGED <<counted, saved>>

Counts(e, b) ==
    published[e].code # Malformed /\ b[1] \in {Global, published[e].code} /\ b[2] = published[e].at

Handle(e) ==
    /\ pending' = pending \ {e}
    /\ counted' = [b \in Buckets |-> IF Counts(e, b) THEN counted[b] + 1 ELSE counted[b]]
    /\ UNCHANGED <<published, saved>>

Save ==
    /\ saved' \in [Buckets -> Nat]
    /\ \A b \in Buckets : saved[b] <= saved'[b] /\ saved'[b] <= counted[b]
    /\ UNCHANGED <<published, pending, counted>>

Forget(c) ==
    /\ saved' = [b \in Buckets |-> IF b[1] = c THEN 0 ELSE saved[b]]
    /\ UNCHANGED <<published, pending, counted>>

Next == Publish \/ (\E e \in pending : Handle(e)) \/ Save \/ (\E c \in Codes : Forget(c))

Spec == Init /\ [][Next]_vars

=============================================================================
