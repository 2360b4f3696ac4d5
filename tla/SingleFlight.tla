---------------------------- MODULE SingleFlight ----------------------------
(***************************************************************************)
(* The gateway's CoreClient: all requests for a code that arrive while one *)
(* call to core for it is running share its answer.  The first request     *)
(* starts a task (a flight) that waits for one of the permits, makes the   *)
(* call (which a timeout ends at the latest), publishes the answer on a    *)
(* watch channel and takes its entry out of the map.  Requests can be      *)
(* cancelled while they wait; the task goes on without them.               *)
(***************************************************************************)
EXTENDS Integers, FiniteSets

CONSTANTS
    Callers,        \* requests to get_link at a time
    Codes,
    Flights,        \* watch channels with their tasks
    NoFlight, NoCode,
    MaxInFlight,    \* permits of the semaphore
    MaxFaults       \* bound: stopped tasks

ASSUME ConstantsAssumption ==
    /\ NoFlight \notin Flights /\ NoCode \notin Codes
    /\ MaxInFlight \in Nat \ {0} /\ MaxFaults \in Nat

VARIABLES
    inFlight,       \* the map from codes to channels
    flights,        \* progress of each task, and whether its answer is out
    waits,          \* the channel each request waits on
    permits,
    faults

vars == <<inFlight, flights, waits, permits, faults>>

Unused == [pc |-> "ended", code |-> NoCode, sent |-> FALSE]

Init ==
    /\ inFlight = [c \in Codes |-> NoFlight]
    /\ flights = [f \in Flights |-> Unused]
    /\ waits = [p \in Callers |-> NoFlight]
    /\ permits = MaxInFlight /\ faults = 0

-----------------------------------------------------------------------------
Fault == faults < MaxFaults /\ faults' = faults + 1

(* A channel nobody refers to any more may be any new channel.             *)
Fresh(f) ==
    /\ flights[f].pc \in {"ended", "stopped"}
    /\ \A c \in Codes : inFlight[c] # f
    /\ \A p \in Callers : waits[p] # f

(* The entry of the map is locked while a request looks at it.             *)
Join(p, c) ==
    /\ inFlight[c] # NoFlight
    /\ waits' = [waits EXCEPT ![p] = inFlight[c]]
    /\ UNCHANGED <<inFlight, flights>>

Start(p, c) ==
    /\ inFlight[c] = NoFlight
    /\ \E f \in Flights :
        /\ Fresh(f)
        /\ flights' = [flights EXCEPT ![f] = [pc |-> "queued", code |-> c, sent |-> FALSE]]
        /\ inFlight' = [inFlight EXCEPT ![c] = f]
        /\ waits' = [waits EXCEPT ![p] = f]

GetLink(p) ==
    /\ waits[p] = NoFlight
    /\ \E c \in Codes : Join(p, c) \/ Start(p, c)
    /\ UNCHANGED <<permits, faults>>

Acquire(f) ==
    /\ flights[f].pc = "queued" /\ permits > 0
    /\ flights' = [flights EXCEPT ![f].pc = "calling"]
    /\ permits' = permits - 1
    /\ UNCHANGED <<inFlight, waits, faults>>

(* core_get_link returned or timed out: drop(permit), send_replace.        *)
Answer_KeepsPermit(f) ==
    /\ flights[f].pc = "calling"
    /\ flights' = [flights EXCEPT ![f].pc = "answered", ![f].sent = TRUE]
    /\ UNCHANGED <<inFlight, waits, permits, faults>>

Answer(f) ==
    /\ flights[f].pc = "calling"
    /\ flights' = [flights EXCEPT ![f].pc = "answered", ![f].sent = TRUE]
    /\ permits' = permits + 1
    /\ UNCHANGED <<inFlight, waits, faults>>

(* in_flight.remove_if(code, same_channel)                                 *)
RemoveIf_AnyChannel(f) == inFlight' = [inFlight EXCEPT ![flights[f].code] = NoFlight]
RemoveIf_Never(f) == UNCHANGED inFlight
RemoveIf(f) == inFlight' = [c \in Codes |-> IF c = flights[f].code /\ inFlight[c] = f THEN NoFlight ELSE inFlight[c]]

Remove(f) ==
    /\ flights[f].pc = "answered"
    /\ flights' = [flights EXCEPT ![f].pc = "ended"]
    /\ RemoveIf(f)
    /\ UNCHANGED <<waits, permits, faults>>

(* The task is aborted or panics where it waits: its permit and its        *)
(* channel are dropped.  Nothing is awaited after the call.                *)
Stop(f) ==
    /\ flights[f].pc \in {"queued", "calling"} /\ Fault
    /\ flights' = [flights EXCEPT ![f].pc = "stopped"]
    /\ permits' = IF flights[f].pc = "calling" THEN permits + 1 ELSE permits
    /\ UNCHANGED <<inFlight, waits>>

(* rx.wait_for(Option::is_some): the answer, or Err once the channel is    *)
(* closed without one, as the task held its only sender.                   *)
Closed_Never(f) == FALSE
Closed(f) == flights[f].pc = "stopped" /\ ~flights[f].sent

Answered(p) ==
    /\ waits[p] # NoFlight /\ flights[waits[p]].sent
    /\ waits' = [waits EXCEPT ![p] = NoFlight]
    /\ UNCHANGED <<inFlight, flights, permits, faults>>

Unavailable(p) ==
    LET f == waits[p] IN
    /\ f # NoFlight /\ Closed(f)
    /\ RemoveIf(f)
    /\ waits' = [waits EXCEPT ![p] = NoFlight]
    /\ UNCHANGED <<flights, permits, faults>>

Cancel(p) ==
    /\ waits[p] # NoFlight
    /\ waits' = [waits EXCEPT ![p] = NoFlight]
    /\ UNCHANGED <<inFlight, flights, permits, faults>>

Progress(f) == Acquire(f) \/ Answer(f) \/ Remove(f) \/ Stop(f)
Return(p) == Answered(p) \/ Unavailable(p)

Next ==
    \/ \E f \in Flights : Progress(f)
    \/ \E p \in Callers : GetLink(p) \/ Return(p) \/ Cancel(p)

Spec == Init /\ [][Next]_vars

(* Tasks are polled, a call ends by its timeout at the latest, the         *)
(* semaphore serves its queue in order, and not every request to a stopped *)
(* task is cancelled in the instant before it notices.                     *)
Fairness ==
    /\ \A f \in Flights : SF_vars(Acquire(f)) /\ WF_vars(Answer(f)) /\ WF_vars(Remove(f))
    /\ \A p \in Callers : WF_vars(Return(p))
    /\ SF_vars(\E p \in Callers : Unavailable(p))

FairSpec == Spec /\ Fairness

-----------------------------------------------------------------------------
Calling == {f \in Flights : flights[f].pc = "calling"}

(* Every variable has its type; a permit is either free or with the task   *)
(* of a running call, however that task ends.                              *)
TypeOK ==
    /\ inFlight \in [Codes -> Flights \cup {NoFlight}]
    /\ flights \in [Flights -> [pc : {"queued", "calling", "answered", "ended", "stopped"},
                                code : Codes \cup {NoCode}, sent : BOOLEAN]]
    /\ waits \in [Callers -> Flights \cup {NoFlight}]
    /\ permits \in 0 .. MaxInFlight /\ permits = MaxInFlight - Cardinality(Calling)
    /\ faults \in Nat

(* There is never more than one task for a code that waits for its permit  *)
(* or calls core: requests share calls, and a request that learns late     *)
(* that its task was stopped does not take a newer task out of the map.    *)
OneCallPerCode ==
    \A f, g \in Flights :
        /\ flights[f].pc \in {"queued", "calling"} /\ flights[g].pc \in {"queued", "calling"}
        /\ flights[f].code = flights[g].code
        => f = g

(* CoreClient implements the rounds of SharedCalls: the map leads to the   *)
(* undecided round of a code whenever there is one, and never to one whose *)
(* task has ended, however its entry is shared, replaced or cleaned up.    *)
Stage(f) ==
    CASE flights[f].pc = "ended" -> "over"
      [] flights[f].pc = "stopped" -> "failed"
      [] OTHER -> flights[f].pc

Rounds == INSTANCE SharedCalls WITH
    Rounds <- Flights, NoRound <- NoFlight, round <- waits,
    stage <- [f \in Flights |-> Stage(f)], topic <- [f \in Flights |-> flights[f].code]
ImplementsSharedCalls == Rounds!Spec

(* Every request is answered, whatever happens to the request that started *)
(* the task, or to the task.                                               *)
CallersAnswered == \A p \in Callers : waits[p] # NoFlight ~> waits[p] = NoFlight

(* A stopped task does not block its code: as long as somebody asks, its   *)
(* entry does not stay.                                                    *)
CodesRecover ==
    \A c \in Codes, f \in Flights :
        <>[](inFlight[c] = f /\ flights[f].pc = "stopped") => <>[](\A p \in Callers : waits[p] # f)

=============================================================================
