------------------------- MODULE SingleFlightProofs -------------------------
(***************************************************************************)
(* What the run flights checks of SingleFlight, proved for any number of   *)
(* requests, codes, channels and permits.                                  *)
(***************************************************************************)
EXTENDS SingleFlight, FiniteSetTheorems, TLAPS

USE ConstantsAssumption

Active(f) == flights[f].pc \in {"queued", "calling"}

(* The inductive invariant: permits add up over finitely many calls, and   *)
(* the map leads to every task that has its answer still to come.          *)
Shapes ==
    /\ inFlight \in [Codes -> Flights \cup {NoFlight}]
    /\ flights \in [Flights -> [pc : {"queued", "calling", "answered", "ended", "stopped"},
                                code : Codes \cup {NoCode}, sent : BOOLEAN]]
    /\ waits \in [Callers -> Flights \cup {NoFlight}]
    /\ faults \in Nat
PermitsAddUp ==
    /\ IsFiniteSet(Calling)
    /\ permits \in 0 .. MaxInFlight /\ permits = MaxInFlight - Cardinality(Calling)
Reachable == \A f \in Flights : Active(f) => flights[f].code \in Codes /\ inFlight[flights[f].code] = f

(* Every step keeps the shape of the variables.                            *)
LEMMA ShapesStep == Shapes /\ [Next]_vars => Shapes'
<1> SUFFICES ASSUME Shapes, [Next]_vars PROVE Shapes'
  OBVIOUS
<1> USE DEF Shapes
<1> DEFINE Tasks == [pc : {"queued", "calling", "answered", "ended", "stopped"}, code : Codes \cup {NoCode}, sent : BOOLEAN]
<1>0. Fault => faults' \in Nat
  BY DEF Fault
<1>1. ASSUME NEW f \in Flights, Progress(f) PROVE Shapes'
  <2>1. flights[f] \in Tasks
    OBVIOUS
  <2>2. \A pc \in {"calling", "ended", "stopped"} : [flights[f] EXCEPT !.pc = pc] \in Tasks
    BY ONLY <2>1
  <2>3. [flights[f] EXCEPT !.pc = "answered", !.sent = TRUE] \in Tasks
    BY ONLY <2>1
  <2>4. \A r \in Tasks : [flights EXCEPT ![f] = r] \in [Flights -> Tasks]
    OBVIOUS
  <2> HIDE DEF Tasks
  <2>5. CASE Acquire(f)
    <3>1. flights' = [flights EXCEPT ![f] = [flights[f] EXCEPT !.pc = "calling"]]
      BY <2>5 DEF Acquire
    <3> QED BY <2>2, <2>4, <2>5, <3>1 DEF Acquire
  <2>6. CASE Answer(f)
    <3>1. flights' = [flights EXCEPT ![f] = [flights[f] EXCEPT !.pc = "answered", !.sent = TRUE]]
      BY <2>6 DEF Answer
    <3> QED BY <2>3, <2>4, <2>6, <3>1 DEF Answer
  <2>7. CASE Remove(f)
    <3>1. flights' = [flights EXCEPT ![f] = [flights[f] EXCEPT !.pc = "ended"]]
      BY <2>7 DEF Remove
    <3> QED BY <2>2, <2>4, <2>7, <3>1 DEF Remove, RemoveIf
  <2>8. CASE Stop(f)
    <3>1. flights' = [flights EXCEPT ![f] = [flights[f] EXCEPT !.pc = "stopped"]]
      BY <2>8 DEF Stop
    <3> QED BY <1>0, <2>2, <2>4, <2>8, <3>1 DEF Stop
  <2> QED BY <1>1, <2>5, <2>6, <2>7, <2>8 DEF Progress
<1>2. ASSUME NEW p \in Callers, GetLink(p) PROVE Shapes'
  <2>1. PICK c \in Codes : Join(p, c) \/ Start(p, c)
    BY <1>2 DEF GetLink
  <2>2. CASE Join(p, c) BY <1>2, <2>2 DEF GetLink, Join
  <2>3. CASE Start(p, c) BY <1>2, <2>3 DEF GetLink, Start
  <2> QED BY <2>1, <2>2, <2>3
<1>3. ASSUME NEW p \in Callers, Return(p) \/ Cancel(p) PROVE Shapes'
  BY <1>3 DEF Return, Answered, Unavailable, RemoveIf, Cancel
<1>4. CASE UNCHANGED vars BY <1>4 DEF vars
<1> QED BY <1>1, <1>2, <1>3, <1>4 DEF Next

(* Which tasks hold a permit, step by step.                                *)
LEMMA CallingStep ==
  ASSUME Shapes, [Next]_vars
  PROVE  \/ \E f \in Flights : f \notin Calling /\ Calling' = Calling \cup {f} /\ permits > 0 /\ permits' = permits - 1
         \/ \E f \in Flights : f \in Calling /\ Calling' = Calling \ {f} /\ permits' = permits + 1
         \/ Calling' = Calling /\ permits' = permits
<1> USE DEF Shapes, Calling
<1>1. ASSUME NEW f \in Flights, Acquire(f)
      PROVE  f \notin Calling /\ Calling' = Calling \cup {f} /\ permits > 0 /\ permits' = permits - 1
  BY <1>1 DEF Acquire
<1>2. ASSUME NEW f \in Flights, Answer(f)
      PROVE  f \in Calling /\ Calling' = Calling \ {f} /\ permits' = permits + 1
  BY <1>2 DEF Answer
<1>3. ASSUME NEW f \in Flights, Remove(f) PROVE Calling' = Calling /\ permits' = permits
  BY <1>3 DEF Remove
<1>4. ASSUME NEW f \in Flights, Stop(f), flights[f].pc = "calling"
      PROVE  f \in Calling /\ Calling' = Calling \ {f} /\ permits' = permits + 1
  BY <1>4 DEF Stop
<1>5. ASSUME NEW f \in Flights, Stop(f), flights[f].pc # "calling" PROVE Calling' = Calling /\ permits' = permits
  BY <1>5 DEF Stop
<1>6. ASSUME NEW p \in Callers, GetLink(p) PROVE Calling' = Calling /\ permits' = permits
  BY <1>6 DEF GetLink, Join, Start, Fresh
<1>7. ASSUME NEW p \in Callers, Return(p) \/ Cancel(p) PROVE Calling' = Calling /\ permits' = permits
  BY <1>7 DEF Return, Answered, Unavailable, Cancel
<1>8. CASE UNCHANGED vars BY <1>8 DEF vars
<1> QED BY <1>1, <1>2, <1>3, <1>4, <1>5, <1>6, <1>7, <1>8 DEF Next, Progress

(* No step loses a permit or returns one twice.                            *)
LEMMA PermitsStep == Shapes /\ PermitsAddUp /\ [Next]_vars => PermitsAddUp'
<1> SUFFICES ASSUME Shapes, PermitsAddUp, [Next]_vars PROVE PermitsAddUp'
  OBVIOUS
<1>0. IsFiniteSet(Calling) /\ Cardinality(Calling) \in Nat
  BY FS_CardinalityType DEF PermitsAddUp
<1>1. ASSUME NEW f, f \notin Calling, Calling' = Calling \cup {f}, permits > 0, permits' = permits - 1
      PROVE  PermitsAddUp'
  <2>1. IsFiniteSet(Calling') /\ Cardinality(Calling') = Cardinality(Calling) + 1
    BY <1>0, <1>1, FS_AddElement
  <2> QED BY <1>0, <1>1, <2>1 DEF PermitsAddUp
<1>2. ASSUME NEW f, f \in Calling, Calling' = Calling \ {f}, permits' = permits + 1
      PROVE  PermitsAddUp'
  <2>1. IsFiniteSet(Calling') /\ Cardinality(Calling') = Cardinality(Calling) - 1 /\ Cardinality(Calling') \in Nat
    BY <1>0, <1>2, FS_RemoveElement, FS_CardinalityType
  <2> QED BY <1>0, <1>2, <2>1 DEF PermitsAddUp
<1>3. CASE Calling' = Calling /\ permits' = permits
  BY <1>3 DEF PermitsAddUp
<1> QED BY <1>1, <1>2, <1>3, CallingStep

(* Whatever is taken out of the map, it is no task still at work.          *)
LEMMA ReachableStep == Shapes /\ Reachable /\ [Next]_vars => Reachable'
<1> SUFFICES ASSUME Shapes, Reachable, [Next]_vars, NEW g \in Flights, Active(g)'
             PROVE  flights'[g].code \in Codes /\ inFlight'[flights'[g].code] = g
  BY DEF Reachable
<1> USE DEF Shapes, Active
<1>1. ASSUME NEW f \in Flights, Acquire(f) \/ Answer(f) \/ Stop(f) PROVE Active(g) /\ flights'[g].code = flights[g].code /\ inFlight' = inFlight
  BY <1>1 DEF Acquire, Answer, Stop
<1>2. ASSUME NEW f \in Flights, ~Active(f), RemoveIf(f), flights'[g].pc = flights[g].pc, flights'[g].code = flights[g].code
      PROVE  flights'[g].code \in Codes /\ inFlight'[flights'[g].code] = g
  <2>1. Active(g) /\ flights[g].code \in Codes /\ inFlight[flights[g].code] = g /\ g # f
    BY <1>2 DEF Reachable
  <2> QED BY <1>2, <2>1 DEF RemoveIf
<1>3. ASSUME NEW f \in Flights, Remove(f) PROVE flights'[g].code \in Codes /\ inFlight'[flights'[g].code] = g
  <2>1. ~Active(f) /\ RemoveIf(f) /\ flights'[g].pc = flights[g].pc /\ flights'[g].code = flights[g].code
    BY <1>3 DEF Remove
  <2> QED BY <1>2, <2>1
<1>4. ASSUME NEW p \in Callers, GetLink(p) PROVE flights'[g].code \in Codes /\ inFlight'[flights'[g].code] = g
  <2>1. PICK c \in Codes : Join(p, c) \/ Start(p, c)
    BY <1>4 DEF GetLink
  <2>2. CASE Join(p, c) BY <2>2 DEF Join, Reachable
  <2>3. CASE Start(p, c)
    <3>1. PICK f \in Flights : /\ Fresh(f) /\ inFlight[c] = NoFlight
                               /\ flights' = [flights EXCEPT ![f] = [pc |-> "queued", code |-> c, sent |-> FALSE]]
                               /\ inFlight' = [inFlight EXCEPT ![c] = f]
      BY <2>3 DEF Start
    <3>2. CASE g = f BY <3>1, <3>2
    <3>3. CASE g # f
      <4>1. Active(g) /\ flights'[g].code = flights[g].code /\ flights[g].code \in Codes /\ inFlight[flights[g].code] = g
        BY <3>1, <3>3 DEF Reachable
      <4>2. flights[g].code # c
        BY <3>1, <4>1
      <4> QED BY <3>1, <4>1, <4>2
    <3> QED BY <3>2, <3>3
  <2> QED BY <2>1, <2>2, <2>3
<1>5. ASSUME NEW p \in Callers, Unavailable(p) PROVE flights'[g].code \in Codes /\ inFlight'[flights'[g].code] = g
  <2>1. waits[p] \in Flights /\ ~Active(waits[p]) /\ RemoveIf(waits[p]) /\ flights' = flights
    BY <1>5 DEF Unavailable, Closed
  <2> QED BY <1>2, <2>1
<1>6. ASSUME NEW p \in Callers, Answered(p) \/ Cancel(p) PROVE flights' = flights /\ inFlight' = inFlight
  BY <1>6 DEF Answered, Cancel
<1>7. CASE UNCHANGED vars BY <1>7 DEF vars, Reachable
<1> QED BY <1>1, <1>3, <1>4, <1>5, <1>6, <1>7 DEF Next, Progress, Return, Reachable

(* The three parts hold together from the start.                           *)
LEMMA Inductive == Spec => []Shapes /\ []PermitsAddUp /\ []Reachable
<1>1. Init => Shapes /\ PermitsAddUp /\ Reachable
  <2> SUFFICES ASSUME Init PROVE Shapes /\ PermitsAddUp /\ Reachable
    OBVIOUS
  <2>1. Calling = {}
    BY DEF Init, Unused, Calling
  <2>2. PermitsAddUp
    BY <2>1, FS_EmptySet DEF Init, PermitsAddUp
  <2> QED BY <2>2 DEF Init, Unused, Shapes, Reachable, Active
<1> QED BY <1>1, ShapesStep, PermitsStep, ReachableStep, PTL DEF Spec

(* Every variable keeps its type, and each permit is free or with the task *)
(* of a running call, whichever way tasks and requests end.                *)
THEOREM PermitsKept == Spec => []TypeOK
<1>1. Shapes /\ PermitsAddUp => TypeOK
  BY DEF Shapes, PermitsAddUp, TypeOK
<1> QED BY <1>1, Inductive, PTL

(* One task at most waits or calls core for a code: stopped tasks and late *)
(* clean-ups of requests never open the door to a second one.              *)
THEOREM CallsShared == Spec => []OneCallPerCode
<1>1. Reachable => OneCallPerCode
  BY DEF Reachable, Active, OneCallPerCode
<1> QED BY <1>1, Inductive, PTL

-----------------------------------------------------------------------------
(* The map leads to a task of its code that has not ended.                 *)
Listed ==
    \A c \in Codes : inFlight[c] # NoFlight => flights[inFlight[c]].code = c /\ flights[inFlight[c]].pc # "ended"

(* No step leaves an entry behind that leads to an ended task.             *)
LEMMA ListedStep == Shapes /\ Listed /\ [Next]_vars => Listed'
<1> SUFFICES ASSUME Shapes, Listed, [Next]_vars PROVE Listed'
  OBVIOUS
<1> USE DEF Shapes
<1>1. ASSUME NEW f \in Flights, Acquire(f) \/ Answer(f) \/ Stop(f) PROVE Listed'
  <2>1. \A g \in Flights : /\ flights'[g].code = flights[g].code
                           /\ flights'[g].pc = "ended" => flights[g].pc = "ended"
    BY <1>1 DEF Acquire, Answer, Stop
  <2>2. UNCHANGED inFlight
    BY <1>1 DEF Acquire, Answer, Stop
  <2> QED BY <2>1, <2>2 DEF Listed
<1>2. ASSUME NEW f \in Flights, Remove(f) PROVE Listed'
  <2>1. ASSUME NEW c \in Codes, inFlight'[c] # NoFlight
        PROVE  inFlight'[c] = inFlight[c] /\ inFlight[c] # NoFlight /\ inFlight[c] # f
    BY <1>2, <2>1 DEF Remove, RemoveIf, Listed
  <2> QED BY <1>2, <2>1 DEF Remove, Listed
<1>3. ASSUME NEW p \in Callers, GetLink(p) PROVE Listed'
  <2>1. PICK c \in Codes : Join(p, c) \/ Start(p, c)
    BY <1>3 DEF GetLink
  <2>2. CASE Join(p, c) BY <2>2 DEF Join, Listed
  <2>3. CASE Start(p, c)
    <3>1. PICK f \in Flights : /\ Fresh(f)
                               /\ flights' = [flights EXCEPT ![f] = [pc |-> "queued", code |-> c, sent |-> FALSE]]
                               /\ inFlight' = [inFlight EXCEPT ![c] = f]
      BY <2>3 DEF Start
    <3> QED BY <3>1 DEF Fresh, Listed
  <2> QED BY <2>1, <2>2, <2>3
<1>4. ASSUME NEW p \in Callers, Return(p) \/ Cancel(p) PROVE Listed'
  BY <1>4 DEF Return, Answered, Unavailable, RemoveIf, Cancel, Listed
<1>5. CASE UNCHANGED vars BY <1>5 DEF vars, Listed
<1> QED BY <1>1, <1>2, <1>3, <1>4, <1>5 DEF Next, Progress

(* What SharedCalls sees of a task.                                        *)
Stages == [f \in Flights |-> Stage(f)]
Topics == [f \in Flights |-> flights[f].code]

(* A task takes another state or another code, all others stay.            *)
MovesTo(f, pc, c) ==
    \A g \in Flights : /\ flights'[g].pc = IF g = f THEN pc ELSE flights[g].pc
                       /\ flights'[g].code = IF g = f THEN c ELSE flights[g].code

(* Then SharedCalls sees that task move, and nothing else.                 *)
LEMMA StageMoves ==
  ASSUME NEW f \in Flights, NEW pc, NEW c, MovesTo(f, pc, c)
  PROVE  /\ Topics' = [Topics EXCEPT ![f] = c]
         /\ pc = "ended" => Stages' = [Stages EXCEPT ![f] = "over"]
         /\ pc = "stopped" => Stages' = [Stages EXCEPT ![f] = "failed"]
         /\ pc \in {"queued", "calling", "answered"} => Stages' = [Stages EXCEPT ![f] = pc]
<1>1. Topics' = [Topics EXCEPT ![f] = c]
  BY DEF MovesTo, Topics
<1>2. \A g \in Flights : g # f => Stage(g)' = Stage(g)
  BY DEF MovesTo, Stage
<1>3. flights'[f].pc = pc
  BY DEF MovesTo
<1>4. /\ pc = "ended" => Stage(f)' = "over"
      /\ pc = "stopped" => Stage(f)' = "failed"
      /\ pc \in {"queued", "calling", "answered"} => Stage(f)' = pc
  BY <1>3 DEF Stage
<1>5. Stages' = [Stages EXCEPT ![f] = Stage(f)']
  BY <1>2 DEF Stages
<1> QED BY <1>1, <1>4, <1>5

(* States of tasks and stages of rounds correspond.                        *)
LEMMA StageIs ==
  ASSUME Shapes, NEW f \in Flights
  PROVE  /\ Stages[f] = Stage(f) /\ Topics[f] = flights[f].code
         /\ \A pc \in {"queued", "calling", "answered"} : Stage(f) = pc <=> flights[f].pc = pc
         /\ Stage(f) = "over" <=> flights[f].pc = "ended"
         /\ Stage(f) = "failed" <=> flights[f].pc = "stopped"
  BY DEF Shapes, Stages, Topics, Stage

(* A free permit is a call less than MaxInFlight, as SharedCalls counts.   *)
LEMMA PermitsAllow ==
  ASSUME Shapes, PermitsAddUp, permits > 0
  PROVE  Rounds!Cardinality({q \in Flights : Stages[q] = "calling"}) < MaxInFlight
<1>1. {q \in Flights : Stages[q] = "calling"} = Calling
  BY StageIs DEF Calling
<1>2. Rounds!Cardinality(Calling) = Cardinality(Calling)
  BY DEF Rounds!Cardinality, Cardinality
<1>3. Cardinality(Calling) \in Nat /\ permits = MaxInFlight - Cardinality(Calling)
  BY FS_CardinalityType DEF PermitsAddUp
<1> QED BY <1>1, <1>2, <1>3

(* Which state each step of a task takes it to; its code stays.            *)
LEMMA TaskMoves ==
  ASSUME Shapes, NEW f \in Flights
  PROVE  /\ Acquire(f) => MovesTo(f, "calling", flights[f].code)
         /\ Answer(f) => MovesTo(f, "answered", flights[f].code)
         /\ Remove(f) => MovesTo(f, "ended", flights[f].code)
         /\ Stop(f) => MovesTo(f, "stopped", flights[f].code)
<1> USE DEF Shapes, MovesTo
<1>1. Acquire(f) => MovesTo(f, "calling", flights[f].code)
  BY DEF Acquire
<1>2. Answer(f) => MovesTo(f, "answered", flights[f].code)
  BY DEF Answer
<1>3. Remove(f) => MovesTo(f, "ended", flights[f].code)
  BY DEF Remove
<1>4. Stop(f) => MovesTo(f, "stopped", flights[f].code)
  BY DEF Stop
<1> QED BY <1>1, <1>2, <1>3, <1>4

(* Every step of a task is one of SharedCalls.                             *)
LEMMA TaskSteps ==
  ASSUME Shapes, PermitsAddUp, NEW f \in Flights, Progress(f)
  PROVE  Rounds!Next
<1>1. ASSUME NEW pc, MovesTo(f, pc, flights[f].code)
      PROVE  /\ UNCHANGED Topics
             /\ pc = "ended" => Stages' = [Stages EXCEPT ![f] = "over"]
             /\ pc = "stopped" => Stages' = [Stages EXCEPT ![f] = "failed"]
             /\ pc \in {"calling", "answered"} => Stages' = [Stages EXCEPT ![f] = pc]
  <2>1. UNCHANGED Topics
    BY <1>1 DEF MovesTo, Topics
  <2> QED BY <1>1, <2>1, StageMoves
<1>2. UNCHANGED waits
  BY DEF Progress, Acquire, Answer, Remove, Stop
<1>3. CASE Acquire(f)
  <2>1. Stages[f] = "queued" /\ Stages' = [Stages EXCEPT ![f] = "calling"] /\ UNCHANGED Topics
    BY <1>1, <1>3, TaskMoves, StageIs DEF Acquire
  <2>2. Rounds!Cardinality({q \in Flights : Stages[q] = "calling"}) < MaxInFlight
    BY <1>3, PermitsAllow DEF Acquire
  <2>3. Rounds!Call(f)
    BY <1>2, <2>1, <2>2 DEF Rounds!Call, Rounds!Move, Stages, Topics
  <2> QED BY <2>3 DEF Rounds!Next
<1>4. CASE Answer(f)
  <2>1. Stages[f] = "calling" /\ Stages' = [Stages EXCEPT ![f] = "answered"] /\ UNCHANGED Topics
    BY <1>1, <1>4, TaskMoves, StageIs DEF Answer
  <2>2. Rounds!Publish(f)
    BY <1>2, <2>1 DEF Rounds!Publish, Rounds!Move, Stages, Topics
  <2> QED BY <2>2 DEF Rounds!Next
<1>5. CASE Remove(f)
  <2>1. Stages[f] = "answered" /\ Stages' = [Stages EXCEPT ![f] = "over"] /\ UNCHANGED Topics
    BY <1>1, <1>5, TaskMoves, StageIs DEF Remove
  <2>2. Rounds!End(f)
    BY <1>2, <2>1 DEF Rounds!End, Rounds!Move, Stages, Topics
  <2> QED BY <2>2 DEF Rounds!Next
<1>6. CASE Stop(f)
  <2>1. Stages[f] \in {"queued", "calling"} /\ Stages' = [Stages EXCEPT ![f] = "failed"] /\ UNCHANGED Topics
    BY <1>1, <1>6, TaskMoves, StageIs DEF Stop
  <2>2. Rounds!Fail(f)
    BY <1>2, <2>1 DEF Rounds!Fail, Rounds!Move, Stages, Topics
  <2> QED BY <2>2 DEF Rounds!Next
<1> QED BY <1>3, <1>4, <1>5, <1>6 DEF Progress

(* And so is every step of a request.                                      *)
LEMMA RequestSteps ==
  ASSUME Shapes, Reachable, Listed, NEW p \in Callers, GetLink(p) \/ Return(p) \/ Cancel(p)
  PROVE  Rounds!Next
<1>1. CASE GetLink(p)
  <2>1. PICK c \in Codes : Join(p, c) \/ Start(p, c)
    BY <1>1 DEF GetLink
  <2>2. CASE Join(p, c)
    <3> DEFINE f == inFlight[c]
    <3>0. f \in Flights
      BY <2>2 DEF Join, Shapes
    <3>1. flights[f].code = c /\ flights[f].pc # "ended" /\ waits' = [waits EXCEPT ![p] = f] /\ UNCHANGED flights
      BY <2>2 DEF Join, Listed
    <3> HIDE DEF f
    <3>2. Stages[f] # "over" /\ Topics[f] \in Codes /\ UNCHANGED <<Stages, Topics>>
      BY <3>0, <3>1, StageIs DEF Stages, Topics, Stage
    <3>3. Rounds!Join(p, f)
      BY <3>1, <3>2 DEF Rounds!Join, Stages, Topics
    <3> QED BY <1>1, <3>0, <3>3 DEF GetLink, Rounds!Ask, Rounds!Next
  <2>3. CASE Start(p, c)
    <3>1. PICK f \in Flights : /\ inFlight[c] = NoFlight /\ Fresh(f)
                               /\ flights' = [flights EXCEPT ![f] = [pc |-> "queued", code |-> c, sent |-> FALSE]]
                               /\ waits' = [waits EXCEPT ![p] = f]
      BY <2>3 DEF Start
    <3>2. Stages' = [Stages EXCEPT ![f] = "queued"] /\ Topics' = [Topics EXCEPT ![f] = c]
      <4>1. MovesTo(f, "queued", c)
        BY <3>1 DEF MovesTo, Shapes
      <4> QED BY <4>1, StageMoves
    <3>3. Stages[f] \in {"over", "failed"} /\ \A q \in Callers : waits[q] # f
      BY <3>1, StageIs DEF Fresh
    <3>4. \A q \in Flights : Stages[q] \in {"queued", "calling"} => Topics[q] # c
      BY <3>1, StageIs DEF Reachable, Active
    <3>5. Rounds!Begin(p, f, c)
      BY <3>1, <3>2, <3>3, <3>4 DEF Rounds!Begin, Rounds!Undecided, Stages, Topics
    <3> QED BY <1>1, <3>5 DEF GetLink, Rounds!Ask, Rounds!Next
  <2> QED BY <2>1, <2>2, <2>3
<1>2. CASE Return(p) \/ Cancel(p)
  <2>1. waits[p] # NoFlight /\ waits' = [waits EXCEPT ![p] = NoFlight] /\ UNCHANGED flights
    BY <1>2 DEF Return, Answered, Unavailable, Cancel
  <2>2. Rounds!Leave(p)
    BY <2>1 DEF Rounds!Leave, Stage
  <2> QED BY <2>2 DEF Rounds!Next
<1> QED BY <1>1, <1>2

(* CoreClient's map, semaphore and channels implement rounds: a request    *)
(* without an undecided round of its code starts one, any other joins one  *)
(* that is not over, and the calls at a time are bounded; for any number   *)
(* of requests, codes, permits and stopped tasks.                          *)
THEOREM ClientImplementsRounds == Spec => ImplementsSharedCalls
<1>1. Init => Listed /\ Rounds!Init
  BY DEF Init, Unused, Listed, Stage, Rounds!Init
<1>2. ASSUME Shapes, PermitsAddUp, Reachable, Listed, [Next]_vars
      PROVE  [Rounds!Next]_(Rounds!vars)
  <2>1. CASE UNCHANGED vars
    BY <2>1 DEF vars, Rounds!vars, Stage
  <2> QED BY <1>2, <2>1, TaskSteps, RequestSteps DEF Next
<1>3. Spec => Rounds!Spec
  BY <1>1, <1>2, Inductive, ListedStep, PTL DEF Spec, Rounds!Spec
<1> QED BY <1>3 DEF ImplementsSharedCalls

=============================================================================
