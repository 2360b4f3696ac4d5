---------------------------- MODULE SharedCalls ----------------------------
(***************************************************************************)
(* What CoreClient promises, without its map, its semaphore and its watch  *)
(* channels: requests for a code come together in rounds, each of them one *)
(* call to core.  A round of a code starts when no other one has its       *)
(* answer still to come; nobody joins a round that is over, whose answer   *)
(* would be from the past; and no more than MaxInFlight calls run at once. *)
(***************************************************************************)
EXTENDS Integers, FiniteSets

CONSTANTS Callers, Codes, Rounds, NoRound, NoCode, MaxInFlight

VARIABLES
    stage,      \* "queued", "calling", "answered", "over" or "failed"
    topic,      \* the code a round is about
    round       \* the round each request takes part in

vars == <<stage, topic, round>>

Init ==
    /\ stage = [r \in Rounds |-> "over"] /\ topic = [r \in Rounds |-> NoCode]
    /\ round = [p \in Callers |-> NoRound]

Undecided(r) == stage[r] \in {"queued", "calling"}

Begin(p, r, c) ==
    /\ \A q \in Rounds : Undecided(q) => topic[q] # c
    /\ stage[r] \in {"over", "failed"} /\ \A q \in Callers : round[q] # r
    /\ stage' = [stage EXCEPT ![r] = "queued"] /\ topic' = [topic EXCEPT ![r] = c]
    /\ round' = [round EXCEPT ![p] = r]

Join(p, r) ==
    /\ stage[r] # "over" /\ topic[r] \in Codes
    /\ round' = [round EXCEPT ![p] = r]
    /\ UNCHANGED <<stage, topic>>

Ask(p) == round[p] = NoRound /\ \E r \in Rounds : Join(p, r) \/ \E c \in Codes : Begin(p, r, c)

Move(r, from, to) == stage[r] \in from /\ stage' = [stage EXCEPT ![r] = to] /\ UNCHANGED <<topic, round>>

Call(r) == Cardinality({q \in Rounds : stage[q] = "calling"}) < MaxInFlight /\ Move(r, {"queued"}, "calling")
Publish(r) == Move(r, {"calling"}, "answered")
End(r) == Move(r, {"answered"}, "over")
Fail(r) == Move(r, {"queued", "calling"}, "failed")

(* With the answer, with an error, or because the client went away.        *)
Leave(p) ==
    /\ round[p] # NoRound
    /\ round' = [round EXCEPT ![p] = NoRound]
    /\ UNCHANGED <<stage, topic>>

Next ==
    \/ \E p \in Callers : Ask(p) \/ Leave(p)
    \/ \E r \in Rounds : Call(r) \/ Publish(r) \/ End(r) \/ Fail(r)

Spec == Init /\ [][Next]_vars

=============================================================================
