------------------------ MODULE EventConsumerProofs ------------------------
(***************************************************************************)
(* What the runs of EventConsumer check on small instances, proved for     *)
(* every value of its constants.                                           *)
(***************************************************************************)
EXTENDS EventConsumer, FiniteSetTheorems, TLAPS

(* The capture reads one hash.                                             *)
LEMMA CaptureReadsHash ==
  ASSUME NEW i, CaptureDailyCounts(i)
  PROVE  \E k \in NextHash(i) :
           Become(i, [w[i] EXCEPT !.unread = @ \ {k},
                                  !.snap = [b \in Buckets |-> IF b[1] = k THEN counts[b] ELSE w[i].snap[b]]])
  BY Zenon DEF CaptureDailyCounts

USE ConstantsAssumption DEF AllFaultKinds

(* The locals of an idle instance are well typed.                          *)
LEMMA IdleType == Idle \in Locals /\ Idle.batch = {}
  BY DEF Idle, Locals, Zeros, NoTimes, PCs, Times, Absent, Epoch, Buckets, Calls

(* An instance given well-typed locals leaves those of the others alone.   *)
LEMMA BecomeType ==
  ASSUME WorkersOK, NEW i \in Instances, NEW r \in Locals, Become(i, r),
         r.batch \subseteq DOMAIN log, DOMAIN log \subseteq DOMAIN log'
  PROVE  WorkersOK'
  BY DEF Become, WorkersOK

(* The ways an instance moves on that keep the types.                      *)
LEMMA MoveType ==
  ASSUME WorkersOK, NEW i \in Instances, UNCHANGED log
  PROVE  /\ \A l \in PCs : Goto(i, l) => WorkersOK'
         /\ \A l \in PCs : Return(i, l) => WorkersOK'
         /\ BackToDrain(i) => WorkersOK'
         /\ \A f \in {"tick", "final"} : FlushStart(i, f) => WorkersOK'
         /\ AfterFlush(i) => WorkersOK'
         /\ DrainDone(i) => WorkersOK'
         /\ DrainFailed(i) => WorkersOK'
<1>0. w[i] \in Locals /\ w[i].batch \subseteq DOMAIN log
  BY DEF WorkersOK
<1>l. w[i] \in Locals
  BY <1>0
<1>1. ASSUME NEW l \in PCs, Goto(i, l) PROVE WorkersOK'
  <2>1. [w[i] EXCEPT !.pc = l] \in Locals /\ [w[i] EXCEPT !.pc = l].batch = w[i].batch
    BY <1>0 DEF Locals
  <2> QED BY <1>0, <1>1, <2>1, BecomeType DEF Goto
<1>2. ASSUME NEW l \in PCs, Return(i, l) PROVE WorkersOK'
  <2> DEFINE r == [Idle EXCEPT !.pc = l, !.shut = w[i].shut]
  <2>1. r \in Locals /\ r.batch = {}
    BY <1>0, IdleType DEF Locals
  <2> HIDE DEF r
  <2> QED BY <1>2, <2>1, BecomeType DEF Return, r
<1>3. ASSUME BackToDrain(i) PROVE WorkersOK'
  <2> DEFINE r == [Idle EXCEPT !.pc = "drain", !.phase = w[i].phase, !.shut = w[i].shut]
  <2>1. r \in Locals /\ r.batch = {}
    BY <1>0, IdleType DEF Locals, PCs
  <2> HIDE DEF r
  <2> QED BY <1>3, <2>1, BecomeType DEF BackToDrain, r
<1>4. ASSUME NEW f \in {"tick", "final"}, FlushStart(i, f) PROVE WorkersOK'
  <2> DEFINE calls == {<<"cad", b>> : b \in StaleBuckets}
             r == [w[i] EXCEPT !.pc = "capture", !.phase = f, !.conn = TRUE, !.unread = Keys, !.snap = Zeros,
                               !.snapLast = NoTimes, !.batch = {}, !.todo = calls]
  <2>1. calls \in SUBSET Calls
    BY DEF Calls, StaleBuckets
  <2>2. Zeros \in [Buckets -> Nat] /\ NoTimes \in [Codes -> Times]
    BY DEF Zeros, NoTimes, Times
  <2> HIDE DEF calls
  <2>3. r \in Locals /\ r.batch = {}
    BY <1>l, <2>1, <2>2 DEF Locals, PCs
  <2> HIDE DEF r
  <2> QED BY <1>4, <2>3, BecomeType DEF FlushStart, r, calls
<1> QED BY <1>1, <1>2, <1>3, <1>4 DEF AfterFlush, DrainDone, DrainFailed, PCs

(* The values a rehydration or a merge works with are counts.              *)
LEMMA RowsType ==
  ASSUME daily \in [Buckets -> Nat], NEW s \in [Buckets -> Nat]
  PROVE  /\ RehydrationRows \in [Buckets -> Nat]
         /\ Committed(s) \in [Buckets -> Nat]
         /\ [b \in Buckets |-> IF s[b] > 0 THEN Max2(daily[b], s[b]) ELSE 0] \in [Buckets -> Nat]
         /\ HmaxCalls(s) \subseteq Calls
  BY DEF RehydrationRows, Committed, Max2, HmaxCalls, Calls

(* What COUNT n returns is a part of what it reads from.                   *)
LEMMA OldestSubset == \A S, n : Oldest(S, n) \subseteq S
  BY DEF Oldest

(* Every step keeps every variable in its type.                            *)
LEMMA TypeStep == TypeOK /\ [Next]_vars => TypeOK'
<1> SUFFICES ASSUME TypeOK, [Next]_vars PROVE TypeOK'
  OBVIOUS
<1>0. /\ WorkersOK
      /\ \A i \in Instances : w[i] \in Locals /\ w[i].batch \subseteq DOMAIN log
      /\ \A i \in Instances : w[i].snap \in [Buckets -> Nat] /\ w[i].snapLast \in [Codes -> Times]
  BY DEF TypeOK, WorkersOK, Locals
<1>f. ASSUME NEW k, Fault(k) PROVE faults' \in Nat
  BY <1>f DEF Fault, TypeOK
<1> USE DEF NoFault, streamVars, statsVars, dbVars, linkVars, envVars
<1>1. ASSUME NEW i \in Instances, Acquire(i) PROVE TypeOK'
  <2>1. WorkersOK'
    BY <1>0, <1>1, MoveType DEF Acquire, PCs
  <2> QED BY <1>1, <1>f, <2>1 DEF Acquire, TryAcquire, TypeOK
<1>2. ASSUME NEW i \in Instances, Release(i) PROVE TypeOK'
  <2>1. WorkersOK'
    BY <1>0, <1>2, MoveType DEF Release, PCs
  <2> QED BY <1>2, <2>1 DEF Release, TypeOK
<1>3. ASSUME NEW i \in Instances, Pause(i) PROVE TypeOK'
  <2>1. WorkersOK'
    BY <1>0, <1>3, MoveType DEF Pause, PCs
  <2> QED BY <1>3, <2>1 DEF Pause, TypeOK
<1>4. ASSUME NEW i \in Instances, EnsureConsumerGroup(i) PROVE TypeOK'
  <2>1. WorkersOK'
    BY <1>0, <1>4, MoveType DEF EnsureConsumerGroup, PCs
  <2>2. lastId' \in Nat /\ group' \in BOOLEAN /\ faults' \in Nat
    <3>1. CASE NoFault /\ group' = TRUE /\ lastId' = IF group THEN lastId ELSE GroupStart
      BY <3>1 DEF GroupStart, TypeOK
    <3>2. CASE Fault("redis_err") /\ UNCHANGED <<group, lastId>>
      BY <3>2, <1>f DEF TypeOK
    <3> QED BY <1>4, <3>1, <3>2 DEF EnsureConsumerGroup
  <2> QED BY <1>4, <2>1, <2>2 DEF EnsureConsumerGroup, TypeOK
<1>5. ASSUME NEW i \in Instances, LoadDailyClicks(i) PROVE TypeOK'
  <2>1. WorkersOK'
    <3> DEFINE r == [w[i] EXCEPT !.pc = "hmax", !.conn = TRUE, !.snap = RehydrationRows,
                                 !.todo = HmaxCalls(RehydrationRows)]
    <3>1. RehydrationRows \in [Buckets -> Nat] /\ HmaxCalls(RehydrationRows) \in SUBSET Calls
      BY RowsType DEF TypeOK
    <3>w. w[i] \in Locals
      BY <1>0
    <3>2. r \in Locals /\ r.batch = w[i].batch
      BY <3>w, <3>1 DEF Locals, PCs
    <3>3. r.batch \subseteq DOMAIN log /\ DOMAIN log' = DOMAIN log
      BY <1>0, <1>5, <3>2 DEF LoadDailyClicks
    <3>4. Become(i, r) => WorkersOK'
      <4> HIDE DEF r
      <4> QED BY <1>0, <3>2, <3>3, BecomeType
    <3> QED BY <1>0, <1>5, <3>4, MoveType DEF LoadDailyClicks, PCs
  <2> QED BY <1>5, <1>f, <2>1 DEF LoadDailyClicks, TypeOK
<1>6. ASSUME NEW i \in Instances, ConnectForBatch(i) PROVE TypeOK'
  <2>1. WorkersOK'
    <3> DEFINE r == [w[i] EXCEPT !.pc = "process", !.conn = TRUE]
    <3>w. w[i] \in Locals
      BY <1>0
    <3>1. r \in Locals /\ r.batch = w[i].batch
      BY <3>w DEF Locals, PCs
    <3>2. r.batch \subseteq DOMAIN log /\ DOMAIN log' = DOMAIN log
      BY <1>0, <1>6, <3>1 DEF ConnectForBatch
    <3>3. Become(i, r) => WorkersOK'
      <4> HIDE DEF r
      <4> QED BY <1>0, <3>1, <3>2, BecomeType
    <3> QED BY <1>0, <1>6, <3>3, MoveType DEF ConnectForBatch, PCs
  <2> QED BY <1>6, <1>f, <2>1 DEF ConnectForBatch, TypeOK
<1>7. ASSUME NEW i \in Instances, ProcessEntry(i) PROVE TypeOK'
  <2>1. PICK e \in Oldest(w[i].batch, 1) :
          /\ Become(i, [w[i] EXCEPT !.batch = @ \ {e}])
          /\ \/ /\ NoFault
                /\ IF log[e].code = Malformed THEN DropClickEvent(e) ELSE RecordClickEvent(e)
             \/ /\ NoFault \/ Fault("redis_err")
                /\ UNCHANGED <<pel, stream, statsVars, processed>>
    BY <1>7 DEF ProcessEntry
  <2>2. e \in DOMAIN log /\ e \in w[i].batch
    BY <1>0, OldestSubset
  <2>3. WorkersOK'
    <3> DEFINE r == [w[i] EXCEPT !.batch = @ \ {e}]
    <3>1. r \in Locals /\ r.batch = w[i].batch \ {e}
      BY <1>0 DEF Locals
    <3>2. r.batch \subseteq DOMAIN log /\ DOMAIN log' = DOMAIN log
      BY <1>0, <1>7, <3>1 DEF ProcessEntry
    <3> HIDE DEF r
    <3> QED BY <1>0, <2>1, <3>1, <3>2, BecomeType DEF r
  <2>4. faults' \in Nat
    BY <2>1, <1>f DEF TypeOK
  <2>5. /\ pel' \subseteq stream' /\ stream' \subseteq DOMAIN log /\ processed' \in Nat
        /\ counts' \in [Buckets -> Nat] /\ lastAt' \in [Codes -> Times]
    <3>1. CASE UNCHANGED <<pel, stream, statsVars, processed>>
      BY <3>1 DEF TypeOK
    <3>2. CASE DropClickEvent(e)
      BY <3>2 DEF DropClickEvent, TypeOK
    <3>3. CASE RecordClickEvent(e) /\ log[e].code # Malformed
      <4>0. log[e] \in Events
        BY <2>2 DEF TypeOK
      <4>1. log[e].code \in Codes /\ log[e].at \in Days
        BY <3>3, <4>0 DEF Events
      <4>2. Max2(lastAt[log[e].code], log[e].at) \in Times
        BY <4>1 DEF TypeOK, Max2, Times
      <4>3. CASE CountClick(e) /\ UNCHANGED processed
        <5>1. counts' \in [Buckets -> Nat]
          BY <4>3 DEF CountClick, TypeOK
        <5>2. lastAt' \in [Codes -> Times]
          BY <4>1, <4>2, <4>3 DEF CountClick, TypeOK
        <5> QED BY <4>3, <5>1, <5>2 DEF CountClick, TypeOK
      <4>4. CASE processed' = processed + 1 /\ UNCHANGED <<pel, stream, statsVars>>
        BY <4>4 DEF TypeOK
      <4> QED BY <3>3, <4>3, <4>4 DEF RecordClickEvent, RECORD_CLICK
    <3> QED BY <2>1, <3>1, <3>2, <3>3
  <2> QED BY <1>7, <2>3, <2>4, <2>5 DEF ProcessEntry, TypeOK
<1>8. ASSUME NEW i \in Instances, BatchDone(i) PROVE TypeOK'
  <2>1. WorkersOK'
    BY <1>0, <1>8, MoveType DEF BatchDone, PCs
  <2> QED BY <1>8, <2>1 DEF BatchDone, TypeOK
<1>9. ASSUME NEW i \in Instances, DrainPendingBatch(i) PROVE TypeOK'
  <2>1. WorkersOK'
    <3> DEFINE batch == Oldest(pel, BatchSize)
               r == [w[i] EXCEPT !.pc = "process", !.conn = TRUE, !.batch = batch]
    <3>1. batch \subseteq DOMAIN log /\ batch \in SUBSET Nat
      BY OldestSubset DEF TypeOK
    <3> HIDE DEF batch
    <3>w. w[i] \in Locals
      BY <1>0
    <3>2. r \in Locals /\ r.batch = batch
      BY <3>w, <3>1 DEF Locals, PCs
    <3>3. r.batch \subseteq DOMAIN log /\ DOMAIN log' = DOMAIN log
      BY <1>9, <3>1, <3>2 DEF DrainPendingBatch
    <3>4. Become(i, r) => WorkersOK'
      <4> HIDE DEF r
      <4> QED BY <1>0, <3>2, <3>3, BecomeType
    <3> QED BY <1>0, <1>9, <3>4, MoveType DEF DrainPendingBatch, batch
  <2> QED BY <1>9, <1>f, <2>1 DEF DrainPendingBatch, TypeOK
<1>10. ASSUME NEW i \in Instances, StopLoop(i) PROVE TypeOK'
  <2>1. WorkersOK'
    BY <1>0, <1>10, MoveType DEF StopLoop
  <2> QED BY <1>10, <2>1 DEF StopLoop, AbandonRead, TypeOK
<1>11. ASSUME NEW i \in Instances, Tick(i) PROVE TypeOK'
  <2>1. WorkersOK'
    <3> DEFINE r == [w[i] EXCEPT !.pc = "drain", !.phase = "tick"]
    <3>w. w[i] \in Locals
      BY <1>0
    <3>1. r \in Locals /\ r.batch = w[i].batch
      BY <3>w DEF Locals, PCs
    <3>2. r.batch \subseteq DOMAIN log /\ DOMAIN log' = DOMAIN log
      BY <1>0, <1>11, <3>1 DEF Tick
    <3> HIDE DEF r
    <3> QED BY <1>0, <1>11, <3>1, <3>2, BecomeType DEF Tick, r
  <2> QED BY <1>11, <2>1 DEF Tick, AbandonRead, TypeOK
<1>12. ASSUME Deliver PROVE /\ pel' \subseteq stream /\ lastId' \in Nat /\ UNCHANGED <<log, stream, group>>
                            /\ Oldest(NewEntries, BatchSize) \subseteq DOMAIN log
                            /\ Oldest(NewEntries, BatchSize) \in SUBSET Nat
  BY <1>12, OldestSubset DEF Deliver, Pending, NewEntries, TypeOK
<1>13. ASSUME NEW i \in Instances, ReadStream(i) PROVE TypeOK'
  <2>1. WorkersOK'
    <3> DEFINE batch == Oldest(NewEntries, BatchSize)
               r == [w[i] EXCEPT !.pc = "connect", !.phase = "read", !.batch = batch]
    <3>1. batch \subseteq DOMAIN log /\ batch \in SUBSET Nat /\ UNCHANGED log
      BY <1>12, <1>13 DEF ReadStream
    <3> HIDE DEF batch
    <3>w. w[i] \in Locals
      BY <1>0
    <3>2. r \in Locals /\ r.batch = batch
      BY <3>w, <3>1 DEF Locals, PCs
    <3> HIDE DEF r
    <3> QED BY <1>0, <1>13, <3>1, <3>2, BecomeType DEF ReadStream, r, batch
  <2> QED BY <1>12, <1>13, <2>1 DEF ReadStream, TypeOK
<1>14. ASSUME OrphanedRead PROVE TypeOK'
  BY <1>12, <1>14 DEF OrphanedRead, TypeOK, WorkersOK
<1>15. ASSUME NEW i \in Instances, CaptureDailyCounts(i) PROVE TypeOK'
  <2>1. WorkersOK'
    <3>1. PICK k \in NextHash(i) :
            Become(i, [w[i] EXCEPT !.unread = @ \ {k},
                                   !.snap = [b \in Buckets |-> IF b[1] = k THEN counts[b] ELSE w[i].snap[b]]])
      BY <1>15, CaptureReadsHash
    <3> DEFINE s == [b \in Buckets |-> IF b[1] = k THEN counts[b] ELSE w[i].snap[b]]
               r == [w[i] EXCEPT !.unread = @ \ {k}, !.snap = s]
    <3>2. s \in [Buckets -> Nat]
      BY <1>0 DEF TypeOK
    <3> HIDE DEF s
    <3>w. w[i] \in Locals
      BY <1>0
    <3>3. r \in Locals /\ r.batch = w[i].batch
      BY <3>w, <3>2 DEF Locals
    <3>4. r.batch \subseteq DOMAIN log /\ DOMAIN log' = DOMAIN log
      BY <1>0, <1>15, <3>3 DEF CaptureDailyCounts
    <3> HIDE DEF r
    <3> QED BY <1>0, <3>1, <3>3, <3>4, BecomeType DEF r, s
  <2> QED BY <1>15, <2>1 DEF CaptureDailyCounts, TypeOK
<1>16. ASSUME NEW i \in Instances, LastClickedAtBatch(i) PROVE TypeOK'
  <2>1. WorkersOK'
    <3> DEFINE hasBucket(c) == \E d \in Days : w[i].snap[<<c, d>>] > 0
               last == [c \in Codes |-> IF hasBucket(c) THEN lastAt[c] ELSE Absent]
               r == [w[i] EXCEPT !.pc = "merge", !.snapLast = last]
    <3>1. last \in [Codes -> Times]
      BY DEF TypeOK, Times
    <3>2. (IF w[i].snap = Zeros THEN AfterFlush(i) ELSE Become(i, r)) /\ UNCHANGED log
      BY <1>16 DEF LastClickedAtBatch
    <3> HIDE DEF last
    <3>w. w[i] \in Locals
      BY <1>0
    <3>3. r \in Locals /\ r.batch = w[i].batch
      BY <3>w, <3>1 DEF Locals, PCs
    <3> HIDE DEF r
    <3> QED BY <1>0, <3>2, <3>3, BecomeType, MoveType
  <2> QED BY <1>16, <2>1 DEF LastClickedAtBatch, TypeOK
<1>17. ASSUME NEW i \in Instances, CaptureFailed(i) PROVE TypeOK'
  <2>1. WorkersOK'
    BY <1>0, <1>17, MoveType DEF CaptureFailed
  <2> QED BY <1>17, <1>f, <2>1 DEF CaptureFailed, TypeOK
<1>18. ASSUME NEW i \in Instances, MergeSnapshot(i) PROVE TypeOK'
  <2> DEFINE s == w[i].snap
             present == {<<"cad", b>> : b \in {x \in Buckets : s[x] > 0}}
             values == [b \in Buckets |-> IF s[b] > 0 THEN Max2(daily[b], s[b]) ELSE 0]
             calls == HmaxCalls(s) \cup (w[i].todo \cap present)
             r == [w[i] EXCEPT !.pc = "hmax", !.conn = TRUE, !.snap = values, !.snapLast = NoTimes, !.todo = calls]
  <2>1. /\ \/ Become(i, r) /\ NoFault
           \/ (Fault("redis_err") \/ Fault("db_err")) /\ AfterFlush(i)
        /\ CommitMerge(s, w[i].snapLast) \/ UNCHANGED <<daily, lastClick>>
        /\ UNCHANGED <<streamVars, statsVars, lock, linkVars, envVars>>
    BY <1>18, Zenon DEF MergeSnapshot
  <2>2. WorkersOK'
    <3>1. /\ values \in [Buckets -> Nat] /\ calls \in SUBSET Calls
          /\ NoTimes \in [Codes -> Times]
      BY <1>0, RowsType DEF TypeOK, Locals, NoTimes, Times
    <3> HIDE DEF values, calls
    <3>w. w[i] \in Locals
      BY <1>0
    <3>2. r \in Locals /\ r.batch = w[i].batch
      BY <3>w, <3>1 DEF Locals, PCs
    <3> HIDE DEF r
    <3> QED BY <1>0, <2>1, <3>2, BecomeType, MoveType
  <2>3. daily' \in [Buckets -> Nat]
    BY <1>0, <2>1, RowsType DEF CommitMerge, TypeOK
  <2>4. lastClick' \in [Codes -> Times]
    <3>1. \A c \in Codes : LastClickUpdate(s, w[i].snapLast, c) \in Times
      BY <1>0 DEF LastClickUpdate, Max2, Times, Absent, Epoch, Days, TypeOK
    <3> QED BY <2>1, <3>1 DEF CommitMerge, TypeOK
  <2> QED BY <2>1, <1>f, <2>2, <2>3, <2>4 DEF TypeOK
<1>19. ASSUME NEW i \in Instances, Hmax(i) PROVE TypeOK'
  <2>1. PICK call \in Upcoming(i) :
          /\ \/ /\ HMAX_SCRIPT(call[2], w[i].snap[call[2]]) /\ NoFault
                /\ Become(i, [w[i] EXCEPT !.todo = @ \ {call}])
             \/ /\ NoFault \/ Fault("redis_err")
                /\ Become(i, [w[i] EXCEPT !.todo = @ \ {call, <<"cad", call[2]>>}])
                /\ UNCHANGED counts
    BY <1>19 DEF Hmax
  <2>2. call[2] \in Buckets
    BY <1>0 DEF Upcoming, Locals, Calls
  <2>3. counts' \in [Buckets -> Nat]
    <3>1. w[i].snap[call[2]] \in Nat /\ counts \in [Buckets -> Nat]
      BY <1>0, <2>2 DEF TypeOK
    <3>2. HMAX_SCRIPT(call[2], w[i].snap[call[2]]) \/ UNCHANGED counts
      BY <2>1
    <3> QED BY <2>2, <3>1, <3>2 DEF HMAX_SCRIPT, Max2
  <2>4. WorkersOK'
    <3>1. ASSUME NEW T, Become(i, [w[i] EXCEPT !.todo = @ \ T]) PROVE WorkersOK'
      <4> DEFINE r == [w[i] EXCEPT !.todo = @ \ T]
      <4>1. r \in Locals /\ r.batch = w[i].batch
        BY <1>0 DEF Locals
      <4>2. UNCHANGED log
        BY <1>19 DEF Hmax
      <4> HIDE DEF r
      <4> QED BY <1>0, <3>1, <4>1, <4>2, BecomeType DEF r
    <3> QED BY <2>1, <3>1
  <2> QED BY <1>19, <1>f, <2>1, <2>3, <2>4 DEF Hmax, TypeOK
<1>20. ASSUME NEW i \in Instances, CompareAndDelete(i) PROVE TypeOK'
  <2>1. WorkersOK'
    <3>1. PICK call \in Upcoming(i) : Become(i, [w[i] EXCEPT !.todo = @ \ {call}])
      BY <1>20 DEF CompareAndDelete
    <3> DEFINE r == [w[i] EXCEPT !.todo = @ \ {call}]
    <3>2. r \in Locals /\ r.batch = w[i].batch
      BY <1>0 DEF Locals
    <3>3. UNCHANGED log
      BY <1>20 DEF CompareAndDelete
    <3> HIDE DEF r
    <3> QED BY <1>0, <3>1, <3>2, <3>3, BecomeType DEF r
  <2> QED BY <1>20, <2>1 DEF CompareAndDelete, COMPARE_AND_DELETE_SCRIPT, TypeOK
<1>21. ASSUME NEW i \in Instances, HmaxDone(i) PROVE TypeOK'
  <2>1. WorkersOK'
    BY <1>0, <1>21, MoveType DEF HmaxDone
  <2> QED BY <1>21, <2>1 DEF HmaxDone, TypeOK
<1>22. ASSUME SendClickEvent PROVE TypeOK'
  <2>1. PICK event \in Events : log' = Append(log, event)
    BY <1>22 DEF SendClickEvent, Events, TypeOK
  <2>2. /\ log' \in Seq(Events) /\ DOMAIN log \subseteq DOMAIN log' /\ Len(log) + 1 \in DOMAIN log'
    BY <2>1 DEF TypeOK
  <2>3. WorkersOK'
    BY <1>0, <1>22, <2>2 DEF SendClickEvent, WorkersOK
  <2> QED BY <1>22, <2>2, <2>3 DEF SendClickEvent, TypeOK
<1>23. ASSUME NextDay PROVE TypeOK'
  BY <1>23 DEF NextDay, TypeOK, WorkersOK, Days
<1>24. ASSUME NEW i \in Instances, Shutdown(i) PROVE TypeOK'
  <2>1. WorkersOK'
    <3> DEFINE r == [w[i] EXCEPT !.shut = TRUE]
    <3>w. w[i] \in Locals
      BY <1>0
    <3>1. r \in Locals /\ r.batch = w[i].batch
      BY <3>w DEF Locals
    <3>2. UNCHANGED log
      BY <1>24 DEF Shutdown
    <3> HIDE DEF r
    <3> QED BY <1>0, <1>24, <3>1, <3>2, BecomeType DEF Shutdown, r
  <2> QED BY <1>24, <1>f, <2>1 DEF Shutdown, TypeOK
<1>25. ASSUME NEW i \in Instances, Crash(i) \/ Restart(i) PROVE TypeOK'
  <2>1. WorkersOK'
    <3>1. [Idle EXCEPT !.pc = "down"] \in Locals /\ [Idle EXCEPT !.pc = "down"].batch = {}
      BY IdleType DEF Locals, PCs
    <3>2. UNCHANGED log
      BY <1>25 DEF Crash, Restart
    <3> QED BY <1>0, <1>25, <3>1, <3>2, IdleType, BecomeType DEF Crash, Restart
  <2> QED BY <1>25, <1>f, <2>1 DEF Crash, Restart, TypeOK
<1>26. ASSUME LoseLock PROVE TypeOK'
  BY <1>26, <1>f DEF LoseLock, TypeOK, WorkersOK
<1>27. ASSUME RedisCrash PROVE TypeOK'
  <2>1. WorkersOK'
    <3>1. ASSUME NEW i \in Instances
          PROVE  [w[i] EXCEPT !.conn = FALSE] \in Locals /\ [w[i] EXCEPT !.conn = FALSE].batch = w[i].batch
      <4>1. w[i] \in Locals
        BY <1>0
      <4> QED BY <4>1 DEF Locals
    <3> QED BY <1>0, <1>27, <3>1 DEF RedisCrash, WorkersOK
  <2> QED BY <1>27, <1>f, <2>1 DEF RedisCrash, TypeOK, Zeros, NoTimes, Times
<1>28. ASSUME UNCHANGED vars PROVE TypeOK'
  BY <1>28 DEF vars, TypeOK, WorkersOK
<1>29. ASSUME NEW c \in Codes, DeleteLink(c) \/ CreateLink(c) PROVE TypeOK'
  <2>1. CASE DeleteLink(c)
    <3>1. [b \in Buckets |-> IF b[1] = c THEN 0 ELSE daily[b]] \in [Buckets -> Nat]
      BY DEF TypeOK
    <3>2. [lastClick EXCEPT ![c] = Absent] \in [Codes -> Times]
      BY DEF TypeOK, Times
    <3> QED BY <2>1, <3>1, <3>2, <1>f DEF DeleteLink, TypeOK, WorkersOK
  <2>2. CASE CreateLink(c)
    BY <2>2 DEF CreateLink, TypeOK, WorkersOK
  <2> QED BY <1>29, <2>1, <2>2
<1> QED
  BY <1>1, <1>2, <1>3, <1>4, <1>5, <1>6, <1>7, <1>8, <1>9, <1>10, <1>11, <1>13, <1>14, <1>15, <1>16, <1>17,
     <1>18, <1>19, <1>20, <1>21, <1>22, <1>23, <1>24, <1>25, <1>26, <1>27, <1>28, <1>29
     DEF Next, Advance

(* No step of the pipeline, faults included, leaves a variable outside its *)
(* type, or an entry pending that is not in the stream.                    *)
THEOREM TypeCorrect == Spec => []TypeOK
<1>1. Init => TypeOK
  <2> SUFFICES ASSUME Init PROVE TypeOK
    OBVIOUS
  <2>1. WorkersOK
    BY IdleType DEF Init, WorkersOK
  <2>2. Zeros \in [Buckets -> Nat] /\ NoTimes \in [Codes -> Times] /\ 1 \in Days
    BY DEF Zeros, NoTimes, Times, Days
  <2>3. <<>> \in Seq(Events)
    OBVIOUS
  <2> QED BY <2>1, <2>2, <2>3 DEF Init, TypeOK
<1> QED BY <1>1, TypeStep, PTL DEF Spec

-----------------------------------------------------------------------------
(* Six kinds of steps are all the counters and the stream ever see.        *)

Below(m) == \A b \in Buckets : /\ counts[b] <= m[b] /\ daily[b] <= m[b]
                               /\ \A i \in Instances : w[i].snap[b] <= m[b]

Copying ==
    /\ UNCHANGED <<log, stream>>
    /\ \A b \in Buckets : counts[b] <= counts'[b] /\ daily[b] <= daily'[b]
    /\ counts' = counts \/ daily' = daily
    /\ \A m \in [Buckets -> Nat] : Below(m) => Below(m)'

Quiet == UNCHANGED <<counts, daily>> /\ \A j \in Instances : w'[j].snap = w[j].snap

Dropping(e) == UNCHANGED log /\ stream' = stream \ {e} /\ Quiet

Counting(e) ==
    /\ UNCHANGED <<log, daily>> /\ stream' = stream \ {e}
    /\ counts' = [b \in Buckets |-> counts[b] + IF b \in EventBuckets(e) THEN 1 ELSE 0]
    /\ \A j \in Instances : w'[j].snap = w[j].snap

Sending ==
    /\ \E event \in Events : log' = Append(log, event)
    /\ stream' = stream \cup {Len(log) + 1}
    /\ Quiet

Losing ==
    /\ UNCHANGED <<log, daily>> /\ stream' = {} /\ counts' = Zeros
    /\ \A j \in Instances : w'[j].snap = w[j].snap
    /\ "redis_crash" \in FaultKinds

Unlinking(c) ==
    /\ UNCHANGED <<log, stream, counts>>
    /\ daily' = [b \in Buckets |-> IF b[1] = c THEN 0 ELSE daily[b]]
    /\ \A j \in Instances : w'[j].snap = w[j].snap

Kind ==
    \/ Copying \/ Sending \/ Losing
    \/ \E c \in Codes : Unlinking(c)
    \/ \E e \in stream : log[e].code = Malformed /\ Dropping(e)
    \/ \E e \in stream : log[e].code # Malformed /\ Counting(e)

(* Snapshots only ever shrink to nothing when locals go out of scope.      *)
SnapsKept == \A j \in Instances : w'[j].snap = w[j].snap \/ w'[j].snap = Zeros

LEMMA BecomeSnaps ==
  ASSUME WorkersOK, NEW i \in Instances, NEW r, Become(i, r)
  PROVE  w'[i] = r /\ \A j \in Instances \ {i} : w'[j] = w[j]
  BY DEF Become, WorkersOK

LEMMA MoveSnaps ==
  ASSUME WorkersOK, NEW i \in Instances
  PROVE  /\ \A l \in PCs : Goto(i, l) \/ Return(i, l) => SnapsKept
         /\ BackToDrain(i) => SnapsKept
         /\ \A f \in {"tick", "final"} : FlushStart(i, f) => SnapsKept
         /\ AfterFlush(i) => SnapsKept
         /\ DrainDone(i) => SnapsKept
         /\ DrainFailed(i) => SnapsKept
<1>0. w[i] \in Locals
  BY DEF WorkersOK
<1>1. ASSUME NEW r, Become(i, r), r.snap = w[i].snap \/ r.snap = Zeros PROVE SnapsKept
  BY <1>1, BecomeSnaps DEF SnapsKept
<1>2. \A l : [w[i] EXCEPT !.pc = l].snap = w[i].snap
  BY <1>0 DEF Locals
<1>3. \A l : [Idle EXCEPT !.pc = l, !.shut = w[i].shut].snap = Zeros
  BY DEF Idle
<1>4. [Idle EXCEPT !.pc = "drain", !.phase = w[i].phase, !.shut = w[i].shut].snap = Zeros
  BY DEF Idle
<1>5. ASSUME NEW f \in {"tick", "final"}, FlushStart(i, f) PROVE SnapsKept
  <2> DEFINE calls == {<<"cad", b>> : b \in StaleBuckets}
             r == [w[i] EXCEPT !.pc = "capture", !.phase = f, !.conn = TRUE, !.unread = Keys, !.snap = Zeros,
                               !.snapLast = NoTimes, !.batch = {}, !.todo = calls]
  <2> HIDE DEF calls
  <2>1. r.snap = Zeros
    BY <1>0 DEF Locals
  <2> HIDE DEF r
  <2> QED BY <1>1, <1>5, <2>1 DEF FlushStart, r, calls
<1>6. \A l : Goto(i, l) => SnapsKept
  BY <1>1, <1>2 DEF Goto
<1>7. \A l : Return(i, l) => SnapsKept
  BY <1>1, <1>3 DEF Return
<1>8. BackToDrain(i) => SnapsKept
  BY <1>1, <1>4 DEF BackToDrain
<1> QED BY <1>5, <1>6, <1>7, <1>8 DEF AfterFlush, DrainDone, DrainFailed

LEMMA KeptIsCopying ==
  ASSUME TypeOK, SnapsKept, UNCHANGED <<log, stream, counts, daily>>
  PROVE  Copying
<1>1. \A b \in Buckets : counts[b] \in Nat /\ daily[b] \in Nat
  BY DEF TypeOK
<1>2. ASSUME NEW m \in [Buckets -> Nat], Below(m) PROVE Below(m)'
  <2>1. \A b \in Buckets : counts'[b] <= m[b] /\ daily'[b] <= m[b]
    BY <1>2 DEF Below
  <2>2. \A b \in Buckets, i \in Instances : w'[i].snap[b] <= m[b]
    BY <1>2 DEF Below, SnapsKept, Zeros
  <2> QED BY <2>1, <2>2 DEF Below
<1> QED BY <1>1, <1>2 DEF Copying

(* Copies of committed or captured values stay below any common bound.     *)
LEMMA RowsBelow ==
  ASSUME TypeOK, NEW m \in [Buckets -> Nat], Below(m), NEW i \in Instances
  PROVE  \A b \in Buckets :
           /\ RehydrationRows[b] <= m[b]
           /\ Committed(w[i].snap)[b] <= m[b] /\ daily[b] <= Committed(w[i].snap)[b]
           /\ (IF w[i].snap[b] > 0 THEN Max2(daily[b], w[i].snap[b]) ELSE 0) <= m[b]
  BY DEF TypeOK, WorkersOK, Locals, Below, RehydrationRows, Committed, Max2

(* Every step is of one of the six kinds.                                  *)
LEMMA StepKind == TypeOK /\ [Next]_vars => Kind
<1> SUFFICES ASSUME TypeOK, [Next]_vars PROVE Kind
  OBVIOUS
<1>0. /\ WorkersOK
      /\ \A i \in Instances : w[i] \in Locals /\ w[i].snap \in [Buckets -> Nat]
      /\ \A i \in Instances : w[i].batch \subseteq DOMAIN log
      /\ \A b \in Buckets : counts[b] \in Nat /\ daily[b] \in Nat
  BY DEF TypeOK, WorkersOK, Locals
<1> USE DEF NoFault, streamVars, statsVars, dbVars, linkVars, envVars
<1>k. ASSUME SnapsKept, UNCHANGED <<log, stream, counts, daily>> PROVE Kind
  BY <1>k, KeptIsCopying DEF Kind
<1>b. ASSUME NEW i \in Instances, NEW r, Become(i, r), r.snap = w[i].snap,
             UNCHANGED <<log, stream, counts, daily>>
      PROVE  Kind
  BY <1>0, <1>b, <1>k, BecomeSnaps DEF SnapsKept
<1>1. ASSUME NEW i \in Instances, Acquire(i) \/ Release(i) \/ Pause(i) PROVE Kind
  BY <1>0, <1>1, <1>k, MoveSnaps DEF Acquire, Release, Pause, PCs
<1>2. ASSUME NEW i \in Instances, EnsureConsumerGroup(i) PROVE Kind
  BY <1>0, <1>2, <1>k, MoveSnaps DEF EnsureConsumerGroup, PCs
<1>3. ASSUME NEW i \in Instances, LoadDailyClicks(i) PROVE Kind
  <2> DEFINE r == [w[i] EXCEPT !.pc = "hmax", !.conn = TRUE, !.snap = RehydrationRows,
                               !.todo = HmaxCalls(RehydrationRows)]
  <2>1. CASE Become(i, r)
    <3>1. r.snap = RehydrationRows
      BY <1>0 DEF Locals
    <3> HIDE DEF r
    <3>2. ASSUME NEW m \in [Buckets -> Nat], Below(m) PROVE Below(m)'
      <4>1. \A b \in Buckets : w'[i].snap[b] <= m[b]
        BY <1>0, <2>1, <3>1, <3>2, BecomeSnaps, RowsBelow
      <4> QED BY <1>0, <1>3, <2>1, <3>2, <4>1, BecomeSnaps DEF Below, LoadDailyClicks
    <3> QED BY <1>0, <1>3, <3>2 DEF Copying, Kind, LoadDailyClicks
  <2>2. CASE Goto(i, "release")
    BY <1>0, <1>3, <1>k, <2>2, MoveSnaps DEF LoadDailyClicks, PCs
  <2> QED BY <1>3, <2>1, <2>2 DEF LoadDailyClicks
<1>4. ASSUME NEW i \in Instances, ConnectForBatch(i) PROVE Kind
  <2> DEFINE r == [w[i] EXCEPT !.pc = "process", !.conn = TRUE]
  <2>1. r.snap = w[i].snap
    BY <1>0 DEF Locals
  <2>2. Become(i, r) \/ Return(i, "loop")
    BY <1>4 DEF ConnectForBatch
  <2> HIDE DEF r
  <2> QED BY <1>0, <1>4, <1>b, <1>k, <2>1, <2>2, MoveSnaps DEF ConnectForBatch, PCs
<1>5. ASSUME NEW i \in Instances, ProcessEntry(i) PROVE Kind
  <2>1. PICK e \in Oldest(w[i].batch, 1) :
          /\ Become(i, [w[i] EXCEPT !.batch = @ \ {e}])
          /\ \/ IF log[e].code = Malformed THEN DropClickEvent(e) ELSE RecordClickEvent(e)
             \/ UNCHANGED <<pel, stream, statsVars, processed>>
    BY <1>5 DEF ProcessEntry
  <2> DEFINE r == [w[i] EXCEPT !.batch = @ \ {e}]
  <2>2. r.snap = w[i].snap /\ Become(i, r)
    BY <1>0, <2>1 DEF Locals
  <2> HIDE DEF r
  <2>3. UNCHANGED <<log, daily>> /\ \A j \in Instances : w'[j].snap = w[j].snap
    BY <1>0, <1>5, <2>2, BecomeSnaps DEF ProcessEntry
  <2>4. CASE UNCHANGED <<stream, counts>>
    BY <1>b, <2>2, <2>3, <2>4
  <2>5. CASE log[e].code = Malformed /\ DropClickEvent(e) /\ e \in pel
    BY <2>3, <2>5 DEF DropClickEvent, Kind, Dropping, Quiet, TypeOK
  <2>6. CASE log[e].code # Malformed /\ RECORD_CLICK(e)
    BY <2>3, <2>6 DEF RECORD_CLICK, CountClick, Kind, Counting, TypeOK
  <2> QED BY <2>1, <2>4, <2>5, <2>6 DEF DropClickEvent, RecordClickEvent
<1>6. ASSUME NEW i \in Instances, BatchDone(i) PROVE Kind
  BY <1>0, <1>6, <1>k, MoveSnaps DEF BatchDone, PCs
<1>7. ASSUME NEW i \in Instances, DrainPendingBatch(i) PROVE Kind
  <2> DEFINE batch == Oldest(pel, BatchSize)
             r == [w[i] EXCEPT !.pc = "process", !.conn = TRUE, !.batch = batch]
  <2>1. Become(i, r) \/ DrainDone(i) \/ DrainFailed(i)
    BY <1>7 DEF DrainPendingBatch
  <2> HIDE DEF batch
  <2>2. r.snap = w[i].snap
    BY <1>0 DEF Locals
  <2> HIDE DEF r
  <2> QED BY <1>0, <1>7, <1>b, <1>k, <2>1, <2>2, MoveSnaps DEF DrainPendingBatch
<1>8. ASSUME NEW i \in Instances, StopLoop(i) PROVE Kind
  BY <1>0, <1>8, <1>k, MoveSnaps DEF StopLoop
<1>9. ASSUME NEW i \in Instances, Tick(i) PROVE Kind
  <2> DEFINE r == [w[i] EXCEPT !.pc = "drain", !.phase = "tick"]
  <2>1. r.snap = w[i].snap /\ Become(i, r)
    BY <1>0, <1>9 DEF Locals, Tick
  <2> HIDE DEF r
  <2> QED BY <1>9, <1>b, <2>1 DEF Tick
<1>10. ASSUME NEW i \in Instances, ReadStream(i) PROVE Kind
  <2> DEFINE batch == Oldest(NewEntries, BatchSize)
             r == [w[i] EXCEPT !.pc = "connect", !.phase = "read", !.batch = batch]
  <2>1. Become(i, r) /\ UNCHANGED <<log, stream, counts, daily>>
    BY <1>10 DEF ReadStream, Deliver
  <2> HIDE DEF batch
  <2>2. r.snap = w[i].snap
    BY <1>0 DEF Locals
  <2> HIDE DEF r
  <2> QED BY <1>b, <2>1, <2>2
<1>11. ASSUME OrphanedRead \/ NextDay \/ LoseLock \/ UNCHANGED vars PROVE Kind
  BY <1>11, <1>k DEF OrphanedRead, NextDay, LoseLock, vars, Deliver, SnapsKept
<1>23. ASSUME NEW c \in Codes, DeleteLink(c) \/ CreateLink(c) PROVE Kind
  BY <1>23, <1>k DEF DeleteLink, CreateLink, SnapsKept, Unlinking, Kind
<1>12. ASSUME NEW i \in Instances, CaptureDailyCounts(i) PROVE Kind
  <2>1. PICK k \in NextHash(i) :
          Become(i, [w[i] EXCEPT !.unread = @ \ {k},
                                 !.snap = [b \in Buckets |-> IF b[1] = k THEN counts[b] ELSE w[i].snap[b]]])
    BY <1>12, CaptureReadsHash
  <2> DEFINE s == [b \in Buckets |-> IF b[1] = k THEN counts[b] ELSE w[i].snap[b]]
             r == [w[i] EXCEPT !.unread = @ \ {k}, !.snap = s]
  <2>2. \A b \in Buckets : s[b] = counts[b] \/ s[b] = w[i].snap[b]
    OBVIOUS
  <2> HIDE DEF s
  <2>3. r.snap = s
    BY <1>0 DEF Locals
  <2> HIDE DEF r
  <2>4. w'[i].snap = s /\ \A j \in Instances \ {i} : w'[j] = w[j]
    BY <1>0, <2>1, <2>3, BecomeSnaps DEF r, s
  <2>5. ASSUME NEW m \in [Buckets -> Nat], Below(m) PROVE Below(m)'
    BY <1>12, <2>2, <2>4, <2>5 DEF Below, CaptureDailyCounts
  <2> QED BY <1>0, <1>12, <2>5 DEF Copying, Kind, CaptureDailyCounts
<1>13. ASSUME NEW i \in Instances, LastClickedAtBatch(i) PROVE Kind
  <2> DEFINE hasBucket(c) == \E d \in Days : w[i].snap[<<c, d>>] > 0
             last == [c \in Codes |-> IF hasBucket(c) THEN lastAt[c] ELSE Absent]
             r == [w[i] EXCEPT !.pc = "merge", !.snapLast = last]
  <2>1. (AfterFlush(i) \/ Become(i, r)) /\ UNCHANGED <<log, stream, counts, daily>>
    BY <1>13 DEF LastClickedAtBatch
  <2> HIDE DEF last
  <2>2. r.snap = w[i].snap
    BY <1>0 DEF Locals
  <2> HIDE DEF r
  <2> QED BY <1>0, <1>b, <1>k, <2>1, <2>2, MoveSnaps
<1>14. ASSUME NEW i \in Instances, CaptureFailed(i) PROVE Kind
  BY <1>0, <1>14, <1>k, MoveSnaps DEF CaptureFailed
<1>15. ASSUME NEW i \in Instances, MergeSnapshot(i) PROVE Kind
  <2> DEFINE s == w[i].snap
             present == {<<"cad", b>> : b \in {x \in Buckets : s[x] > 0}}
             values == [b \in Buckets |-> IF s[b] > 0 THEN Max2(daily[b], s[b]) ELSE 0]
             calls == HmaxCalls(s) \cup (w[i].todo \cap present)
             r == [w[i] EXCEPT !.pc = "hmax", !.conn = TRUE, !.snap = values, !.snapLast = NoTimes, !.todo = calls]
  <2>1. /\ Become(i, r) \/ AfterFlush(i)
        /\ daily' = Committed(s) \/ UNCHANGED daily
        /\ UNCHANGED <<log, stream, counts>>
    BY <1>15, Zenon DEF MergeSnapshot, CommitMerge
  <2>2. \A b \in Buckets : values[b] = IF s[b] > 0 THEN Max2(daily[b], s[b]) ELSE 0
    OBVIOUS
  <2> HIDE DEF values, calls
  <2>3. r.snap = values
    BY <1>0 DEF Locals
  <2> HIDE DEF r
  <2>4. \/ w'[i].snap = values /\ \A j \in Instances \ {i} : w'[j] = w[j]
        \/ SnapsKept
    BY <1>0, <2>1, <2>3, BecomeSnaps, MoveSnaps
  <2>5. ASSUME NEW m \in [Buckets -> Nat], Below(m) PROVE Below(m)'
    <3>1. \A b \in Buckets : counts'[b] <= m[b] /\ daily'[b] <= m[b]
      BY <2>1, <2>5, RowsBelow DEF Below
    <3>2. \A b \in Buckets, j \in Instances : w'[j].snap[b] <= m[b]
      <4>1. CASE SnapsKept
        BY <2>5, <4>1 DEF SnapsKept, Below, Zeros
      <4>2. CASE w'[i].snap = values /\ \A j \in Instances \ {i} : w'[j] = w[j]
        BY <2>2, <2>5, <4>2, RowsBelow DEF Below
      <4> QED BY <2>4, <4>1, <4>2
    <3> QED BY <3>1, <3>2 DEF Below
  <2>6. \A b \in Buckets : daily[b] <= daily'[b]
    BY <1>0, <2>1 DEF Committed, Max2
  <2> QED BY <1>0, <2>1, <2>5, <2>6 DEF Copying, Kind
<1>16. ASSUME NEW i \in Instances, Hmax(i) PROVE Kind
  <2>1. PICK call \in Upcoming(i) :
          /\ HMAX_SCRIPT(call[2], w[i].snap[call[2]]) \/ UNCHANGED counts
          /\ \E T : Become(i, [w[i] EXCEPT !.todo = @ \ T])
    BY <1>16, Zenon DEF Hmax
  <2>2. call[2] \in Buckets
    BY <1>0 DEF Upcoming, Locals, Calls
  <2>3. \A j \in Instances : w'[j].snap = w[j].snap
    <3>1. PICK T : Become(i, [w[i] EXCEPT !.todo = @ \ T])
      BY <2>1
    <3>2. [w[i] EXCEPT !.todo = @ \ T].snap = w[i].snap
      BY <1>0 DEF Locals
    <3> QED BY <1>0, <3>1, <3>2, BecomeSnaps
  <2>4. counts' = [counts EXCEPT ![call[2]] = Max2(counts[call[2]], w[i].snap[call[2]])] \/ UNCHANGED counts
    BY <2>1 DEF HMAX_SCRIPT
  <2>5. w[i].snap[call[2]] \in Nat /\ counts \in [Buckets -> Nat]
    BY <1>0, <2>2 DEF TypeOK
  <2>6. \A b \in Buckets : \/ counts'[b] = counts[b]
                           \/ counts'[b] = w[i].snap[b] /\ counts[b] <= counts'[b]
    BY <2>2, <2>4, <2>5 DEF Max2
  <2>7. ASSUME NEW m \in [Buckets -> Nat], Below(m) PROVE Below(m)'
    BY <1>16, <2>3, <2>6, <2>7 DEF Below, Hmax
  <2>8. \A b \in Buckets : counts[b] <= counts'[b]
    BY <1>0, <2>6
  <2> QED BY <1>0, <1>16, <2>7, <2>8 DEF Copying, Kind, Hmax
<1>17. ASSUME NEW i \in Instances, CompareAndDelete(i) PROVE Kind
  <2>1. PICK call \in Upcoming(i) : Become(i, [w[i] EXCEPT !.todo = @ \ {call}])
    BY <1>17 DEF CompareAndDelete
  <2> DEFINE r == [w[i] EXCEPT !.todo = @ \ {call}]
  <2>2. r.snap = w[i].snap /\ Become(i, r)
    BY <1>0, <2>1 DEF Locals
  <2> HIDE DEF r
  <2>3. UNCHANGED <<log, stream, counts, daily>>
    BY <1>17 DEF CompareAndDelete, COMPARE_AND_DELETE_SCRIPT
  <2> QED BY <1>b, <2>2, <2>3
<1>18. ASSUME NEW i \in Instances, HmaxDone(i) PROVE Kind
  BY <1>0, <1>18, <1>k, MoveSnaps DEF HmaxDone
<1>19. ASSUME SendClickEvent PROVE Kind
  <2>1. \E event \in Events : log' = Append(log, event)
    BY <1>19 DEF SendClickEvent, Events, TypeOK
  <2> QED BY <1>19, <2>1 DEF SendClickEvent, Kind, Sending, Quiet
<1>20. ASSUME NEW i \in Instances, Shutdown(i) PROVE Kind
  <2> DEFINE r == [w[i] EXCEPT !.shut = TRUE]
  <2>1. r.snap = w[i].snap /\ Become(i, r)
    BY <1>0, <1>20 DEF Locals, Shutdown
  <2> HIDE DEF r
  <2> QED BY <1>20, <1>b, <2>1 DEF Shutdown
<1>21. ASSUME NEW i \in Instances, Crash(i) \/ Restart(i) PROVE Kind
  <2>1. Idle.snap = Zeros /\ [Idle EXCEPT !.pc = "down"].snap = Zeros
    BY DEF Idle
  <2>2. SnapsKept
    BY <1>0, <1>21, <2>1, BecomeSnaps DEF Crash, Restart, SnapsKept
  <2> QED BY <1>21, <1>k, <2>2 DEF Crash, Restart
<1>22. ASSUME RedisCrash PROVE Kind
  <2>1. \A j \in Instances : w'[j].snap = w[j].snap
    <3>1. \A j \in Instances : [w[j] EXCEPT !.conn = FALSE].snap = w[j].snap
      BY <1>0 DEF Locals
    <3> QED BY <1>22, <3>1 DEF RedisCrash
  <2> QED BY <1>22, <2>1 DEF RedisCrash, Kind, Losing, Fault
<1> QED
  BY <1>1, <1>2, <1>3, <1>4, <1>5, <1>6, <1>7, <1>8, <1>9, <1>10, <1>11, <1>12, <1>13, <1>14, <1>15, <1>16,
     <1>17, <1>18, <1>19, <1>20, <1>21, <1>22, <1>23
     DEF Next, Advance

-----------------------------------------------------------------------------
(* How each kind of step changes the number of clicks that left the stream. *)

HandledOf == [b \in Buckets |-> Handled(b)]

LEMMA HandledType ==
  TypeOK => \A b \in Buckets : IsFiniteSet(Clicks(b) \ stream) /\ Handled(b) \in Nat
<1> SUFFICES ASSUME TypeOK, NEW b \in Buckets
             PROVE  IsFiniteSet(Clicks(b) \ stream) /\ Handled(b) \in Nat
  OBVIOUS
<1>0. Len(log) \in Nat /\ DOMAIN log = 1 .. Len(log)
  BY DEF TypeOK
<1>1. IsFiniteSet(1 .. Len(log)) /\ Clicks(b) \ stream \in SUBSET (1 .. Len(log))
  BY <1>0, FS_Interval DEF Clicks
<1>2. IsFiniteSet(Clicks(b) \ stream)
  BY <1>1, FS_Subset
<1> QED BY <1>2, FS_CardinalityType DEF Handled

LEMMA HandledTypeNext ==
  TypeOK' => (\A b \in Buckets : IsFiniteSet(Clicks(b) \ stream) /\ Handled(b) \in Nat)'
  BY HandledType, PTL

LEMMA HandledStep ==
  ASSUME TypeOK, TypeOK', NEW b \in Buckets
  PROVE  /\ UNCHANGED <<log, stream>> => UNCHANGED Handled(b)
         /\ \A e \in stream : log[e].code = Malformed /\ Dropping(e) => UNCHANGED Handled(b)
         /\ \A e \in stream : log[e].code # Malformed /\ Counting(e) =>
              Handled(b)' = Handled(b) + IF b \in EventBuckets(e) THEN 1 ELSE 0
         /\ Sending => UNCHANGED Handled(b)
         /\ Losing => Handled(b) <= Handled(b)'
<1>0. stream \subseteq DOMAIN log /\ DOMAIN log = 1 .. Len(log) /\ Len(log) \in Nat
  BY DEF TypeOK
<1>1. UNCHANGED <<log, stream>> => UNCHANGED Handled(b)
  BY DEF Handled, Clicks, EventBuckets
<1>2. ASSUME NEW e \in stream, log[e].code = Malformed, Dropping(e) PROVE UNCHANGED Handled(b)
  <2>1. (Clicks(b) \ stream)' = Clicks(b) \ stream
    BY <1>2 DEF Dropping, Clicks, EventBuckets
  <2> QED BY <2>1 DEF Handled
<1>3. ASSUME NEW e \in stream, log[e].code # Malformed, Counting(e)
      PROVE  Handled(b)' = Handled(b) + IF b \in EventBuckets(e) THEN 1 ELSE 0
  <2>1. IsFiniteSet(Clicks(b) \ stream) /\ e \notin Clicks(b) \ stream /\ Handled(b) \in Nat
    BY HandledType
  <2>2. CASE b \in EventBuckets(e)
    <3>1. (Clicks(b) \ stream)' = (Clicks(b) \ stream) \cup {e}
      BY <1>0, <1>3, <2>2 DEF Counting, Clicks, EventBuckets
    <3> QED BY <2>1, <2>2, <3>1, FS_AddElement DEF Handled
  <2>3. CASE b \notin EventBuckets(e)
    <3>1. (Clicks(b) \ stream)' = Clicks(b) \ stream
      BY <1>3, <2>3 DEF Counting, Clicks, EventBuckets
    <3>2. UNCHANGED Handled(b)
      BY <3>1 DEF Handled
    <3> QED BY <2>1, <2>3, <3>2
  <2> QED BY <2>2, <2>3
<1>4. ASSUME Sending PROVE UNCHANGED Handled(b)
  <2>1. PICK event \in Events : log' = Append(log, event)
    BY <1>4 DEF Sending
  <2>2. /\ DOMAIN log' = DOMAIN log \cup {Len(log) + 1} /\ Len(log) + 1 \notin DOMAIN log
        /\ \A e \in DOMAIN log : log'[e] = log[e]
    BY <1>0, <2>1 DEF TypeOK
  <2>3. stream' = stream \cup {Len(log) + 1}
    BY <1>4 DEF Sending
  <2>4. (Clicks(b) \ stream)' = Clicks(b) \ stream
    BY <2>2, <2>3 DEF Clicks, EventBuckets
  <2> QED BY <2>4 DEF Handled
<1>5. ASSUME Losing PROVE Handled(b) <= Handled(b)'
  <2>1. Clicks(b) \ stream \in SUBSET (Clicks(b) \ stream)'
    BY <1>5 DEF Losing, Clicks, EventBuckets
  <2>2. IsFiniteSet((Clicks(b) \ stream)')
    BY HandledTypeNext
  <2> QED BY <2>1, <2>2, FS_Subset DEF Handled
<1> QED BY <1>1, <1>2, <1>3, <1>4, <1>5

-----------------------------------------------------------------------------
(* Counters, tables and the rows in flight between them never exceed what  *)
(* was handled.  Rows in flight belong to the invariant: an instance may   *)
(* write a snapshot long after it was taken, in any order with the others. *)
Bounded == Below(HandledOf)

LEMMA BoundedStep == TypeOK /\ TypeOK' /\ Bounded /\ [Next]_vars => Bounded'
<1> SUFFICES ASSUME TypeOK, TypeOK', Bounded, [Next]_vars PROVE Bounded'
  OBVIOUS
<1>k. Kind
  BY StepKind
<1>t. HandledOf \in [Buckets -> Nat] /\ \A b \in Buckets : Handled(b) \in Nat
  BY HandledType DEF HandledOf
<1>0. /\ \A b \in Buckets : counts[b] \in Nat /\ daily[b] \in Nat
      /\ \A b \in Buckets : \A i \in Instances : w[i].snap[b] \in Nat
  BY DEF TypeOK, WorkersOK, Locals
<1>h. \A b \in Buckets : Handled(b)' \in Nat
  BY HandledTypeNext
<1>1. \A b \in Buckets : /\ counts[b] <= Handled(b) /\ daily[b] <= Handled(b)
                         /\ \A i \in Instances : w[i].snap[b] <= Handled(b)
  BY DEF Bounded, Below, HandledOf
<1>2. CASE Copying
  <2>1. PICK m \in [Buckets -> Nat] : m = HandledOf
    BY <1>t
  <2>2. Below(m)'
    BY <1>2, <2>1 DEF Copying, Bounded
  <2>3. \A b \in Buckets : m[b] = Handled(b)'
    BY <1>2, <2>1, HandledStep DEF Copying, HandledOf
  <2> QED BY <2>2, <2>3 DEF Bounded, Below, HandledOf
<1>3. CASE Sending
  BY <1>1, <1>3, HandledStep DEF Sending, Quiet, Bounded, Below, HandledOf
<1>4. CASE Losing
  <2>1. \A b \in Buckets : Handled(b) <= Handled(b)' /\ counts'[b] = 0
    BY <1>4, HandledStep DEF Losing, Zeros
  <2> QED BY <1>0, <1>t, <1>h, <1>1, <1>4, <2>1 DEF Losing, Bounded, Below, HandledOf
<1>5. ASSUME NEW e \in stream, log[e].code = Malformed, Dropping(e) PROVE Bounded'
  BY <1>1, <1>5, HandledStep DEF Dropping, Quiet, Bounded, Below, HandledOf
<1>7. ASSUME NEW c \in Codes, Unlinking(c) PROVE Bounded'
  <2>1. \A b \in Buckets : daily'[b] <= daily[b] /\ Handled(b)' = Handled(b)
    BY <1>0, <1>7, HandledStep DEF Unlinking
  <2>2. \A b \in Buckets : daily'[b] <= Handled(b)
    BY <1>0, <1>1, <1>7, <1>t DEF Unlinking
  <2> QED BY <1>1, <1>7, <2>1, <2>2 DEF Unlinking, Bounded, Below, HandledOf
<1>6. ASSUME NEW e \in stream, log[e].code # Malformed, Counting(e) PROVE Bounded'
  <2>1. \A b \in Buckets : /\ Handled(b)' = Handled(b) + IF b \in EventBuckets(e) THEN 1 ELSE 0
                           /\ counts'[b] = counts[b] + IF b \in EventBuckets(e) THEN 1 ELSE 0
    BY <1>6, HandledStep DEF Counting
  <2> QED BY <1>0, <1>t, <1>1, <1>6, <2>1 DEF Counting, Bounded, Below, HandledOf
<1> QED BY <1>k, <1>2, <1>3, <1>4, <1>5, <1>6, <1>7 DEF Kind

LEMMA InitBounded == Init => Bounded
<1> SUFFICES ASSUME Init PROVE Bounded
  OBVIOUS
<1>1. \A b : Clicks(b) \ stream = {}
  BY DEF Init, Clicks
<1>2. \A b : Handled(b) = 0
  BY <1>1, FS_EmptySet DEF Handled
<1> QED BY <1>2 DEF Init, Bounded, Below, HandledOf, Zeros, Idle

(* No click is counted twice in Redis or in Postgres, whatever fails,      *)
(* restarts or runs at the same time.                                      *)
THEOREM NeverOvercounted == Spec => []NoOvercount
<1>1. Bounded => NoOvercount
  BY DEF Bounded, Below, HandledOf, NoOvercount
<1> QED BY <1>1, InitBounded, BoundedStep, TypeCorrect, PTL DEF Spec

-----------------------------------------------------------------------------
(* Without Redis data loss nothing that was handled is missing either.     *)

NoRedisLoss == "redis_crash" \notin FaultKinds

LEMMA ExactStep ==
  ASSUME NoRedisLoss, TypeOK, TypeOK', Bounded, Bounded', ExactCount, [Next]_vars
  PROVE  ExactCount'
<1>0. Kind /\ ~Losing
  BY StepKind DEF NoRedisLoss, Losing
<1>1. \A b \in Buckets : counts[b] \in Nat /\ counts'[b] \in Nat /\ counts[b] = Handled(b)
  BY DEF TypeOK, ExactCount
<1>2. \A b \in Buckets : counts'[b] <= Handled(b)'
  BY DEF Bounded, Below, HandledOf
<1>t. \A b \in Buckets : Handled(b) \in Nat
  BY HandledType
<1>7. ASSUME NEW c \in Codes, Unlinking(c) PROVE ExactCount'
  BY <1>1, <1>7, HandledStep DEF Unlinking, ExactCount
<1>3. CASE Copying
  <2>1. \A b \in Buckets : Handled(b)' = Handled(b) /\ counts[b] <= counts'[b]
    BY <1>3, HandledStep DEF Copying
  <2> QED BY <1>1, <1>2, <2>1 DEF ExactCount
<1>4. CASE Sending
  BY <1>1, <1>4, HandledStep DEF Sending, Quiet, ExactCount
<1>5. ASSUME NEW e \in stream, log[e].code = Malformed, Dropping(e) PROVE ExactCount'
  BY <1>1, <1>5, HandledStep DEF Dropping, Quiet, ExactCount
<1>6. ASSUME NEW e \in stream, log[e].code # Malformed, Counting(e) PROVE ExactCount'
  <2>1. \A b \in Buckets : /\ Handled(b)' = Handled(b) + IF b \in EventBuckets(e) THEN 1 ELSE 0
                           /\ counts'[b] = counts[b] + IF b \in EventBuckets(e) THEN 1 ELSE 0
    BY <1>6, HandledStep DEF Counting
  <2> QED BY <1>1, <1>t, <2>1 DEF ExactCount
<1> QED BY <1>0, <1>3, <1>4, <1>5, <1>6, <1>7 DEF Kind

LEMMA InitExact == Init => ExactCount
<1> SUFFICES ASSUME Init PROVE ExactCount
  OBVIOUS
<1>1. \A b : Clicks(b) \ stream = {}
  BY DEF Init, Clicks
<1>2. \A b : Handled(b) = 0
  BY <1>1, FS_EmptySet DEF Handled
<1> QED BY <1>2 DEF Init, ExactCount, Zeros

(* As long as Redis keeps its data, the hashes hold exactly the clicks     *)
(* that left the stream, with any number of writers and any other fault.   *)
THEOREM CountedExactly == NoRedisLoss => (Spec => []ExactCount)
<1>1. Spec => [](TypeOK /\ Bounded)
  BY InitBounded, BoundedStep, TypeCorrect, PTL DEF Spec
<1>2. NoRedisLoss /\ TypeOK /\ TypeOK' /\ Bounded /\ Bounded' /\ ExactCount /\ [Next]_vars => ExactCount'
  BY ExactStep
<1> SUFFICES ASSUME NoRedisLoss PROVE Spec => []ExactCount
  OBVIOUS
<1>3. TypeOK /\ TypeOK' /\ Bounded /\ Bounded' /\ ExactCount /\ [Next]_vars => ExactCount'
  BY <1>2
<1> QED BY <1>1, <1>3, InitExact, PTL DEF Spec

(* A step of the pipeline is a step of the ledger or changes none of what  *)
(* the ledger speaks of.                                                   *)
LEMMA LedgerStep ==
  ASSUME NoRedisLoss, TypeOK, TypeOK', Bounded', ExactCount, ExactCount', [Next]_vars
  PROVE  [Ledger!Next]_(Ledger!vars)
<1>0. Kind /\ ~Losing
  BY StepKind DEF NoRedisLoss, Losing
<1>1. /\ Ledger!Buckets = Buckets /\ Ledger!Events = Events
      /\ counts \in [Buckets -> Nat] /\ counts' \in [Buckets -> Nat] /\ daily' \in [Buckets -> Nat]
  BY DEF TypeOK, Ledger!Buckets, Buckets, Keys, Ledger!Days, Days, Ledger!Events, Events
<1>2. \A b \in Buckets : daily'[b] <= counts'[b]
  BY DEF Bounded, Below, HandledOf, ExactCount
<1>3. CASE Copying
  <2>1. counts' = counts
    <3>1. \A b \in Buckets : counts'[b] = counts[b]
      BY <1>3, HandledStep DEF Copying, ExactCount
    <3> QED BY <1>1, <3>1
  <2>2. Ledger!Save
    BY <1>1, <1>2, <1>3, <2>1 DEF Copying, Ledger!Save
  <2> QED BY <2>2 DEF Ledger!Next
<1>4. CASE Sending
  <2>1. Ledger!Publish
    BY <1>1, <1>4 DEF Sending, Quiet, Ledger!Publish
  <2> QED BY <2>1 DEF Ledger!Next
<1>5. ASSUME NEW e \in stream, log[e].code = Malformed, Dropping(e) PROVE Ledger!Next
  <2>1. counts' = [b \in Buckets |-> IF Ledger!Counts(e, b) THEN counts[b] + 1 ELSE counts[b]]
    BY <1>1, <1>5 DEF Dropping, Quiet, Ledger!Counts
  <2> QED BY <1>1, <1>5, <2>1 DEF Dropping, Quiet, Ledger!Handle, Ledger!Next
<1>6. ASSUME NEW e \in stream, log[e].code # Malformed, Counting(e) PROVE Ledger!Next
  <2>1. \A b \in Buckets : Ledger!Counts(e, b) <=> b \in EventBuckets(e)
    BY <1>6 DEF Ledger!Counts, EventBuckets, Buckets
  <2>2. counts' = [b \in Buckets |-> IF Ledger!Counts(e, b) THEN counts[b] + 1 ELSE counts[b]]
    BY <1>1, <1>6, <2>1 DEF Counting
  <2> QED BY <1>1, <1>6, <2>2 DEF Counting, Ledger!Handle, Ledger!Next
<1>7. ASSUME NEW c \in Codes, Unlinking(c) PROVE Ledger!Next
  <2>1. Ledger!Forget(c)
    BY <1>1, <1>7 DEF Unlinking, Ledger!Forget
  <2> QED BY <2>1 DEF Ledger!Next
<1> QED BY <1>0, <1>3, <1>4, <1>5, <1>6, <1>7 DEF Kind

(* The pipeline implements the ledger as long as Redis keeps its data.     *)
THEOREM PipelineImplementsLedger == NoRedisLoss => (Spec => ImplementsLedger)
<1> SUFFICES ASSUME NoRedisLoss PROVE Spec => Ledger!Spec
  BY DEF ImplementsLedger
<1>1. Spec => []TypeOK /\ []Bounded /\ []ExactCount
  BY TypeCorrect, InitBounded, BoundedStep, CountedExactly, PTL DEF Spec
<1>2. Init => Ledger!Init
  BY DEF Init, Zeros, Ledger!Init, Ledger!Buckets, Buckets, Keys, Ledger!Days, Days
<1>3. TypeOK /\ TypeOK' /\ Bounded' /\ ExactCount /\ ExactCount' /\ [Next]_vars => [Ledger!Next]_(Ledger!vars)
  BY LedgerStep
<1> QED BY <1>1, <1>2, <1>3, PTL DEF Spec, Ledger!Spec

=============================================================================
