---------------------------- MODULE WriterProofs ----------------------------
(***************************************************************************)
(* Who writes, what stays readable, what the links show and what a         *)
(* shutdown leaves behind: more invariants of EventConsumer, proved for    *)
(* every value of its constants.                                           *)
(***************************************************************************)
EXTENDS EventConsumerProofs, Sums

USE ConstantsAssumption

Work(i) ==
    \/ EnsureConsumerGroup(i) \/ LoadDailyClicks(i) \/ ConnectForBatch(i) \/ ProcessEntry(i) \/ BatchDone(i)
    \/ DrainPendingBatch(i) \/ StopLoop(i) \/ CaptureDailyCounts(i) \/ LastClickedAtBatch(i) \/ CaptureFailed(i)
    \/ MergeSnapshot(i) \/ Hmax(i) \/ CompareAndDelete(i) \/ HmaxDone(i) \/ Tick(i) \/ ReadStream(i)

IdlePCs == {"acquire", "pause", "down"}

(* An instance that works touches neither the others nor the lock.         *)
LEMMA WorkIsOnesOwn ==
    ASSUME WorkersOK, NEW i \in Instances, Work(i)
    PROVE  w[i].pc \notin IdlePCs /\ UNCHANGED lock /\ \A j \in Instances \ {i} : w'[j] = w[j]
<1> USE DEF Goto, Return, BackToDrain, FlushStart, AfterFlush, DrainDone, DrainFailed, At, IdlePCs, dbVars
<1>b. ASSUME NEW r, Become(i, r) PROVE \A j \in Instances \ {i} : w'[j] = w[j]
    BY <1>b, BecomeSnaps
<1>1. CASE EnsureConsumerGroup(i)
    BY <1>1, <1>b DEF EnsureConsumerGroup
<1>2. CASE LoadDailyClicks(i)
    BY <1>2, <1>b DEF LoadDailyClicks
<1>3. CASE ConnectForBatch(i)
    BY <1>3, <1>b DEF ConnectForBatch
<1>4. CASE ProcessEntry(i)
    BY <1>4, <1>b DEF ProcessEntry
<1>5. CASE BatchDone(i)
    BY <1>5, <1>b DEF BatchDone
<1>6. CASE DrainPendingBatch(i)
    BY <1>6, <1>b DEF DrainPendingBatch
<1>7. CASE StopLoop(i)
    BY <1>7, <1>b DEF StopLoop
<1>8. CASE CaptureDailyCounts(i)
    BY <1>8, <1>b DEF CaptureDailyCounts
<1>9. CASE LastClickedAtBatch(i)
    BY <1>9, <1>b DEF LastClickedAtBatch
<1>10. CASE CaptureFailed(i)
    BY <1>10, <1>b DEF CaptureFailed
<1>11. CASE MergeSnapshot(i)
    BY <1>11, <1>b, Zenon DEF MergeSnapshot
<1>12. CASE Hmax(i)
    BY <1>12, <1>b, Zenon DEF Hmax
<1>13. CASE CompareAndDelete(i)
    BY <1>13, <1>b, Zenon DEF CompareAndDelete
<1>14. CASE HmaxDone(i)
    BY <1>14, <1>b DEF HmaxDone
<1>15. CASE Tick(i)
    BY <1>15, <1>b DEF Tick
<1>16. CASE ReadStream(i)
    BY <1>16, <1>b DEF ReadStream
<1> QED BY <1>1, <1>2, <1>3, <1>4, <1>5, <1>6, <1>7, <1>8, <1>9, <1>10, <1>11, <1>12, <1>13, <1>14, <1>15, <1>16
        DEF Work

-----------------------------------------------------------------------------
NoLockLoss == "lock_loss" \notin FaultKinds

LEMMA SingleWriterStep ==
    ASSUME NoLockLoss, TypeOK, SingleWriter, [Next]_vars
    PROVE  SingleWriter'
<1>0. WorkersOK /\ \A i \in Instances : w[i] \in Locals
    BY DEF TypeOK, WorkersOK
<1> USE DEF dbVars
<1>1. ASSUME NEW i \in Instances, Work(i) PROVE SingleWriter'
    BY <1>0, <1>1, WorkIsOnesOwn DEF SingleWriter, IdlePCs
<1>2. ASSUME NEW i \in Instances, Acquire(i) PROVE SingleWriter'
    <2>1. PICK l : Goto(i, l) /\ ((l = "ensure" /\ TryAcquire(i)) \/ (l = "pause" /\ UNCHANGED lock))
        BY <1>2 DEF Acquire
    <2>2. w'[i].pc = l /\ \A j \in Instances \ {i} : w'[j] = w[j]
        <3>1. [w[i] EXCEPT !.pc = l].pc = l
            BY <1>0 DEF Locals
        <3> QED BY <1>0, <2>1, <3>1, BecomeSnaps DEF Goto
    <2> QED BY <2>1, <2>2 DEF TryAcquire, SingleWriter
<1>3. ASSUME NEW i \in Instances, Release(i) \/ Pause(i) \/ Crash(i) \/ Restart(i) PROVE SingleWriter'
    <2>1. w'[i].pc \in IdlePCs /\ \A j \in Instances \ {i} : w'[j] = w[j]
        <3>1. \A r : Become(i, r) => w'[i] = r /\ \A j \in Instances \ {i} : w'[j] = w[j]
            BY <1>0, BecomeSnaps
        <3>2. \A l \in IdlePCs : [Idle EXCEPT !.pc = l, !.shut = w[i].shut].pc = l /\ [Idle EXCEPT !.pc = l].pc = l
            BY DEF Idle
        <3>3. Idle.pc \in IdlePCs
            BY DEF Idle, IdlePCs
        <3> QED BY <1>3, <3>1, <3>2, <3>3 DEF Release, Pause, Crash, Restart, Return, IdlePCs
    <2>2. lock' = lock \/ (lock = i /\ lock' = NoInstance)
        BY <1>3 DEF Release, Pause, Crash, Restart
    <2> QED BY <2>1, <2>2 DEF SingleWriter, IdlePCs
<1>4. ASSUME NEW i \in Instances, Shutdown(i) PROVE SingleWriter'
    <2>1. [w[i] EXCEPT !.shut = TRUE].pc = w[i].pc
        BY <1>0 DEF Locals
    <2>2. \A j \in Instances : w'[j].pc = w[j].pc
        BY <1>0, <1>4, <2>1, BecomeSnaps DEF Shutdown
    <2> QED BY <1>4, <2>2 DEF Shutdown, SingleWriter
<1>5. ASSUME OrphanedRead \/ SendClickEvent \/ NextDay \/ UNCHANGED vars PROVE SingleWriter'
    BY <1>5 DEF OrphanedRead, SendClickEvent, NextDay, vars, SingleWriter
<1>6. CASE RedisCrash
    <2>1. \A j \in Instances : w'[j].pc = w[j].pc
        BY <1>0, <1>6 DEF RedisCrash, Locals
    <2> QED BY <1>6, <2>1 DEF RedisCrash, SingleWriter
<1>7. ~LoseLock
    BY DEF LoseLock, Fault, NoLockLoss
<1>8. ASSUME NEW c \in Codes, DeleteLink(c) \/ CreateLink(c) PROVE SingleWriter'
    BY <1>8 DEF DeleteLink, CreateLink, SingleWriter
<1> QED BY <1>1, <1>2, <1>3, <1>4, <1>5, <1>6, <1>7, <1>8 DEF Next, Advance, Work

(* Two instances never write at a time, whatever else fails, as long as    *)
(* the session that holds the advisory lock lives.                         *)
THEOREM OneWriter == NoLockLoss => (Spec => []SingleWriter)
<1>1. Init => SingleWriter
    BY DEF Init, SingleWriter, Idle
<1>2. NoLockLoss /\ TypeOK /\ SingleWriter /\ [Next]_vars => SingleWriter'
    BY SingleWriterStep
<1> SUFFICES ASSUME NoLockLoss PROVE Spec => []SingleWriter
    OBVIOUS
<1>3. TypeOK /\ SingleWriter /\ [Next]_vars => SingleWriter'
    BY <1>2
<1> QED BY <1>1, <1>3, TypeCorrect, PTL DEF Spec

-----------------------------------------------------------------------------
(* The cursor of the group is an entry that exists, or none yet; an entry  *)
(* that is appended is beyond it.                                          *)
Reachable == NoEntryStranded /\ lastId <= Len(log)

(* A read passes no entry it does not deliver: what it leaves is newer     *)
(* than all it takes.                                                      *)
LEMMA DeliverPassesNothing ==
    ASSUME TypeOK, Reachable, Deliver
    PROVE  Reachable'
<1> DEFINE taken == Oldest(NewEntries, BatchSize)
<1>0. stream \subseteq 1 .. Len(log) /\ Len(log) \in Nat /\ lastId \in Nat
    BY DEF TypeOK
<1>1. PICK e \in taken : lastId' = e /\ \A f \in taken : f <= e
    BY DEF Deliver
<1>2. e \in NewEntries /\ e \in stream /\ UNCHANGED <<log, stream>> /\ pel' = pel \cup taken
    BY <1>1, OldestSubset DEF NewEntries, Deliver, Pending
<1>3. ASSUME NEW g \in stream, g \notin pel', g <= e PROVE FALSE
    <2>1. g \in NewEntries /\ g \notin taken /\ g < e
        BY <1>0, <1>1, <1>2, <1>3 DEF Reachable, NoEntryStranded, NewEntries
    <2> DEFINE below(x) == {f \in NewEntries : f < x}
    <2>2. IsFiniteSet(below(e)) /\ below(g) \subseteq below(e)
        <3>1. IsFiniteSet(1 .. Len(log))
            BY <1>0, FS_Interval
        <3>2. below(e) \in SUBSET (1 .. Len(log))
            BY <1>0 DEF NewEntries
        <3> HIDE DEF below
        <3>4. IsFiniteSet(below(e))
            BY <3>1, <3>2, FS_Subset
        <3> USE DEF below
        <3>3. \A f \in NewEntries : f < g => f < e
            BY <1>0, <1>2, <2>1 DEF NewEntries
        <3> QED BY <3>3, <3>4
    <2> HIDE DEF below
    <2>3. Cardinality(below(g)) <= Cardinality(below(e))
        BY <2>2, FS_Subset
    <2>4. Cardinality(below(g)) \in Nat /\ Cardinality(below(e)) \in Nat
        BY <2>2, FS_Subset, FS_CardinalityType
    <2>5. Cardinality(below(e)) < BatchSize
        BY <1>1 DEF Oldest, below
    <2>6. Cardinality(below(g)) < BatchSize
        BY <2>3, <2>4, <2>5
    <2>7. g \in taken
        BY <2>1, <2>6 DEF Oldest, below
    <2> QED BY <2>1, <2>7
<1>4. \A g \in stream : g \in pel' \/ g > e
    BY <1>0, <1>2, <1>3
<1>5. e <= Len(log)
    BY <1>0, <1>2
<1> QED BY <1>1, <1>2, <1>4, <1>5 DEF Reachable, NoEntryStranded

LEMMA ReachableStep ==
    ASSUME TypeOK, Reachable, [Next]_vars
    PROVE  Reachable'
<1>0. /\ stream \subseteq DOMAIN log /\ DOMAIN log = 1 .. Len(log) /\ Len(log) \in Nat /\ lastId \in Nat
      /\ WorkersOK
    BY DEF TypeOK
<1> USE DEF streamVars
<1>u. ASSUME UNCHANGED streamVars PROVE Reachable'
    BY <1>u DEF Reachable, NoEntryStranded
<1>1. ASSUME NEW i \in Instances, EnsureConsumerGroup(i) PROVE Reachable'
    <2>1. UNCHANGED <<log, stream, pel>> /\ (lastId' = lastId \/ lastId' = 0)
        BY <1>1 DEF EnsureConsumerGroup, GroupStart
    <2> QED BY <1>0, <2>1 DEF Reachable, NoEntryStranded
<1>2. ASSUME NEW i \in Instances, ProcessEntry(i) PROVE Reachable'
    <2>1. UNCHANGED <<log, lastId>>
        BY <1>2 DEF ProcessEntry
    <2>2. stream' \subseteq stream /\ \A e \in stream' : e \in pel => e \in pel'
        <3>1. PICK e : \/ IF log[e].code = Malformed THEN DropClickEvent(e) ELSE RecordClickEvent(e)
                       \/ UNCHANGED <<pel, stream, statsVars, processed>>
            BY <1>2 DEF ProcessEntry
        <3>2. CASE UNCHANGED <<pel, stream>>
            BY <3>2
        <3>3. CASE DropClickEvent(e)
            BY <3>3 DEF DropClickEvent
        <3>4. CASE RecordClickEvent(e)
            BY <3>4 DEF RecordClickEvent, RECORD_CLICK, CountClick
        <3> QED BY <3>1, <3>2, <3>3, <3>4
    <2> QED BY <2>1, <2>2 DEF Reachable, NoEntryStranded
<1>3. ASSUME NEW i \in Instances, ReadStream(i) PROVE Reachable'
    BY <1>3, DeliverPassesNothing DEF ReadStream
<1>4. ASSUME OrphanedRead PROVE Reachable'
    BY <1>4, <1>u, DeliverPassesNothing DEF OrphanedRead
<1>5. ASSUME SendClickEvent PROVE Reachable'
    <2>1. /\ stream' = stream \cup {Len(log) + 1} /\ Len(log') = Len(log) + 1 /\ UNCHANGED <<pel, lastId>>
        BY <1>5 DEF SendClickEvent, TypeOK
    <2> QED BY <1>0, <2>1 DEF Reachable, NoEntryStranded
<1>6. ASSUME RedisCrash PROVE Reachable'
    BY <1>0, <1>6 DEF RedisCrash, Reachable, NoEntryStranded
<1>7. ASSUME NEW i \in Instances, Acquire(i) \/ Release(i) \/ Pause(i) \/ LoadDailyClicks(i) \/ ConnectForBatch(i)
                \/ BatchDone(i) \/ DrainPendingBatch(i) \/ StopLoop(i) \/ Tick(i)
      PROVE  UNCHANGED streamVars
    BY <1>7 DEF Acquire, Release, Pause, LoadDailyClicks, ConnectForBatch, BatchDone, DrainPendingBatch, StopLoop, Tick
<1>8. ASSUME NEW i \in Instances, CaptureDailyCounts(i) \/ LastClickedAtBatch(i) \/ CaptureFailed(i) \/ MergeSnapshot(i)
                \/ Hmax(i) \/ CompareAndDelete(i) \/ HmaxDone(i) \/ Shutdown(i) \/ Crash(i) \/ Restart(i)
      PROVE  UNCHANGED streamVars
    BY <1>8, Zenon DEF CaptureDailyCounts, LastClickedAtBatch, CaptureFailed, MergeSnapshot, Hmax, CompareAndDelete,
                       HmaxDone, Shutdown, Crash, Restart
<1>9. ASSUME NextDay \/ LoseLock \/ UNCHANGED vars PROVE UNCHANGED streamVars
    BY <1>9 DEF NextDay, LoseLock, vars
<1>10. ASSUME NEW c \in Codes, DeleteLink(c) \/ CreateLink(c) PROVE UNCHANGED streamVars
    BY <1>10 DEF DeleteLink, CreateLink
<1> QED BY <1>u, <1>1, <1>2, <1>3, <1>4, <1>5, <1>6, <1>7, <1>8, <1>9, <1>10 DEF Next, Advance

(* Every entry of the stream is pending or still ahead of the cursor,      *)
(* whichever reads are abandoned, whoever dies with a batch, and however   *)
(* often the group is made anew.                                           *)
THEOREM NothingStranded == Spec => []NoEntryStranded
<1>1. Init => Reachable
    BY DEF Init, Reachable, NoEntryStranded
<1>2. Reachable => NoEntryStranded
    BY DEF Reachable
<1> QED BY <1>1, <1>2, ReachableStep, TypeCorrect, PTL DEF Spec

-----------------------------------------------------------------------------
(* Counts m come with a last click: all of them until Redis has lost its   *)
(* data, afterwards those that Postgres does not have yet, and of a link   *)
(* that was without a row since then none need to.                         *)
Excepted(c) == c \in undated
Rowless == lost => Codes \ links \subseteq undated
Old(c, d) == IF lost THEN daily[<<c, d>>] ELSE 0
Late(m, last) == \A c \in Codes, d \in Days : ~Excepted(c) /\ m[<<c, d>>] > Old(c, d) => last[c] >= d

(* What an instance holds that it may still write.                         *)
MayWrite(r) ==
    /\ r.pc \in {"capture", "hmax"} /\ r.conn => Late(r.snap, lastAt)
    /\ r.pc = "merge" => Late(r.snap, r.snapLast) /\ (~lost => Late(r.snap, lastAt))

DatedCounts == LastClickCoversDays /\ Late(counts, lastAt) /\ Late(daily, lastAt)
Dated == DatedCounts /\ Rowless /\ \A i \in Instances : MayWrite(w[i])

Grows == /\ \A b \in Buckets : daily[b] <= daily'[b]
         /\ \A c \in Codes : lastAt[c] <= lastAt'[c]
         /\ UNCHANGED linkVars

(* What is late stays so while tables and timestamps grow.                 *)
LEMMA LateStays ==
    ASSUME TypeOK, TypeOK', Grows, NEW m \in [Buckets -> Nat]
    PROVE  /\ \A last : Late(m, last) => Late(m, last)'
           /\ Late(m, lastAt) => Late(m, lastAt)'
<1>1. \A c \in Codes, d \in Days : /\ m[<<c, d>>] \in Nat /\ Old(c, d) \in Nat /\ Old(c, d)' \in Nat
                                   /\ Old(c, d) <= Old(c, d)' /\ Excepted(c)' = Excepted(c)
    BY DEF TypeOK, Grows, Buckets, Keys, Old, Excepted, linkVars
<1>2. \A c \in Codes : lastAt[c] \in Int /\ lastAt'[c] \in Int /\ lastAt[c] <= lastAt'[c]
    BY DEF TypeOK, Grows, Times, Absent, Epoch, Days
<1>3. \A d \in Days : d \in Int
    BY DEF Days
<1>4. ASSUME NEW last, Late(m, last) PROVE Late(m, last)'
    BY <1>1, <1>4 DEF Late
<1>5. ASSUME Late(m, lastAt) PROVE Late(m, lastAt)'
    <2>1. ASSUME NEW c \in Codes, NEW d \in Days, ~Excepted(c)', m[<<c, d>>] > Old(c, d)' PROVE lastAt'[c] >= d
        <3>1. ~Excepted(c) /\ m[<<c, d>>] > Old(c, d)
            BY <1>1, <2>1
        <3>2. lastAt[c] >= d
            BY <1>5, <3>1 DEF Late
        <3> QED BY <1>2, <1>3, <3>2
    <2> QED BY <2>1 DEF Late
<1> QED BY <1>4, <1>5

(* The step of one instance, or of none, while tables and timestamps grow. *)
LEMMA OthersMayWrite ==
    ASSUME TypeOK, TypeOK', Grows, NEW r \in Locals, MayWrite(r)
    PROVE  MayWrite(r)'
<1>1. r.snap \in [Buckets -> Nat]
    BY DEF Locals
<1>2. /\ Late(r.snap, r.snapLast) => Late(r.snap, r.snapLast)'
      /\ Late(r.snap, lastAt) => Late(r.snap, lastAt)'
    BY <1>1, LateStays
<1>3. lost' = lost
    BY DEF Grows, linkVars
<1> QED BY <1>2, <1>3 DEF MayWrite

LEMMA DatedByOne ==
    ASSUME TypeOK, TypeOK', Dated, Grows, DatedCounts',
           NEW i \in Instances, NEW r, Become(i, r), MayWrite(r)'
    PROVE  Dated'
<1>0. WorkersOK /\ \A j \in Instances : w[j] \in Locals
    BY DEF TypeOK, WorkersOK
<1>1. w'[i] = r /\ \A j \in Instances \ {i} : w'[j] = w[j]
    BY <1>0, BecomeSnaps
<1>2. ASSUME NEW j \in Instances PROVE MayWrite(w[j])'
    <2>1. CASE j = i
        BY <1>1, <2>1 DEF MayWrite, Late, Old, Excepted
    <2>2. CASE j # i
        <3>1. PICK h \in Locals : h = w[j]
            BY <1>0
        <3>2. MayWrite(h)
            BY <3>1 DEF Dated
        <3>3. MayWrite(h)'
            BY <3>2, OthersMayWrite
        <3>4. w'[j] = h
            BY <1>1, <2>2, <3>1
        <3> QED BY <3>3, <3>4 DEF MayWrite, Late, Old, Excepted
    <2> QED BY <2>1, <2>2
<1>3. \A j \in Instances : MayWrite(w[j])'
    BY <1>2
<1>4. Rowless'
    BY DEF Dated, Rowless, Grows, linkVars
<1> QED BY <1>3, <1>4 DEF Dated

(* A step that leaves counts and timestamps alone.                         *)
LEMMA DatedQuietly ==
    ASSUME TypeOK, TypeOK', Dated, UNCHANGED <<statsVars, daily, lastClick, linkVars>>
    PROVE  /\ \A i \in Instances : \A r : Become(i, r) /\ MayWrite(r) => Dated'
           /\ UNCHANGED w => Dated'
<1>1. Grows
    <2>1. /\ \A b \in Buckets : daily[b] \in Nat
          /\ \A c \in Codes : lastAt[c] \in Int
        BY DEF TypeOK, Times, Absent, Epoch, Days
    <2>2. daily' = daily /\ lastAt' = lastAt /\ linkVars' = linkVars
        BY DEF statsVars
    <2>3. /\ \A b \in Buckets : daily[b] <= daily[b]
          /\ \A c \in Codes : lastAt[c] <= lastAt[c]
        BY ONLY <2>1
    <2> QED BY ONLY <2>2, <2>3 DEF Grows
<1>2. DatedCounts'
    BY DEF Dated, DatedCounts, LastClickCoversDays, Late, Old, Excepted, statsVars, linkVars
<1>3. ASSUME NEW i \in Instances, NEW r, Become(i, r), MayWrite(r) PROVE Dated'
    <2>1. MayWrite(r)'
        BY <1>3 DEF MayWrite, Late, Old, Excepted, statsVars, linkVars
    <2> QED BY <1>1, <1>2, <1>3, <2>1, DatedByOne
<1>4. UNCHANGED w => Dated'
    BY <1>2 DEF Dated, Rowless, MayWrite, Late, Old, Excepted, statsVars, linkVars
<1> QED BY <1>3, <1>4

LEMMA MoveIsDated ==
    ASSUME TypeOK, TypeOK', Dated, UNCHANGED <<statsVars, daily, lastClick, linkVars>>, NEW i \in Instances
    PROVE  /\ \A l \in PCs \ {"capture", "merge", "hmax"} : Goto(i, l) \/ Return(i, l) => Dated'
           /\ BackToDrain(i) \/ AfterFlush(i) \/ DrainDone(i) \/ DrainFailed(i) => Dated'
           /\ \A f \in {"tick", "final"} : FlushStart(i, f) => Dated'
<1>0. w[i] \in Locals
    BY DEF TypeOK, WorkersOK
<1>1. ASSUME NEW r, Become(i, r), r.pc \notin {"capture", "merge", "hmax"} PROVE Dated'
    BY <1>1, DatedQuietly DEF MayWrite
<1>2. ASSUME NEW l \in PCs \ {"capture", "merge", "hmax"}, Goto(i, l) \/ Return(i, l) PROVE Dated'
    <2>1. [w[i] EXCEPT !.pc = l].pc = l /\ [Idle EXCEPT !.pc = l, !.shut = w[i].shut].pc = l
        BY <1>0 DEF Locals, Idle
    <2> QED BY <1>1, <1>2, <2>1 DEF Goto, Return
<1>3. ASSUME BackToDrain(i) PROVE Dated'
    <2>1. [Idle EXCEPT !.pc = "drain", !.phase = w[i].phase, !.shut = w[i].shut].pc = "drain"
        BY DEF Idle
    <2> QED BY <1>1, <1>3, <2>1 DEF BackToDrain
<1>4. ASSUME NEW f \in {"tick", "final"}, FlushStart(i, f) PROVE Dated'
    <2>1. PICK r : r = [w[i] EXCEPT !.pc = "capture", !.phase = f, !.conn = TRUE, !.unread = Keys, !.snap = Zeros,
                                    !.snapLast = NoTimes, !.batch = {}, !.todo = {<<"cad", b>> : b \in StaleBuckets}]
        OBVIOUS
    <2>2. r.pc = "capture" /\ r.snap = Zeros
        BY <1>0, <2>1 DEF Locals
    <2>3. \A c \in Codes, d \in Days : Zeros[<<c, d>>] = 0 /\ Old(c, d) \in Nat
        BY DEF TypeOK, Zeros, Buckets, Keys, Old
    <2>4. MayWrite(r)
        BY <2>2, <2>3 DEF MayWrite, Late
    <2>5. Become(i, r)
        BY <1>4, <2>1 DEF FlushStart
    <2> QED BY <2>4, <2>5, DatedQuietly
<1> QED BY <1>2, <1>3, <1>4 DEF AfterFlush, DrainDone, DrainFailed, PCs

(* A click that is counted leaves its day as the last click of its link.   *)
LEMMA CountingIsDated ==
    ASSUME TypeOK, TypeOK', Dated, NEW e \in DOMAIN log, log[e].code # Malformed, CountClick(e),
           UNCHANGED <<daily, lastClick, linkVars>>, NEW i \in Instances, NEW r, Become(i, r), r.pc = "process"
    PROVE  Dated'
<1>0. log[e] \in Events
    BY DEF TypeOK
<1>1. log[e].code \in Codes /\ log[e].at \in Days
    BY <1>0 DEF Events
<1>2. \A c \in Codes : lastAt[c] \in Int /\ lastAt'[c] = IF c = log[e].code THEN Max2(lastAt[c], log[e].at) ELSE lastAt[c]
    BY DEF CountClick, TypeOK, Times, Absent, Epoch, Days
<1>3. \A c \in Codes : lastAt[c] <= lastAt'[c] /\ lastAt'[c] \in Int
    BY <1>1, <1>2 DEF Max2, Days
<1>4. Grows
    BY <1>3 DEF Grows, TypeOK
<1>o. \A c \in Codes, d \in Days : Old(c, d)' = Old(c, d) /\ Excepted(c)' = Excepted(c)
    BY DEF Old, Excepted, linkVars
<1>5. ASSUME NEW c \in Codes, NEW d \in Days, ~Excepted(c)', counts'[<<c, d>>] > Old(c, d)' PROVE lastAt'[c] >= d
    <2>0. d \in Int /\ <<c, d>> \in Buckets /\ c # Global
        BY DEF Days, Buckets, Keys
    <2>1. CASE <<c, d>> \in EventBuckets(e)
        <3>1. c = log[e].code /\ d = log[e].at
            BY <2>0, <2>1 DEF EventBuckets
        <3> QED BY <1>2, <2>0, <3>1 DEF Max2
    <2>2. CASE <<c, d>> \notin EventBuckets(e)
        <3>1. counts'[<<c, d>>] = counts[<<c, d>>]
            BY <2>0, <2>2 DEF CountClick, TypeOK
        <3>2. lastAt[c] >= d
            BY <1>5, <1>o, <3>1 DEF Dated, DatedCounts, Late
        <3> QED BY <1>2, <1>3, <2>0, <3>2
    <2> QED BY <2>1, <2>2
<1>6. Late(counts, lastAt)' /\ Late(daily, lastAt)'
    <2>1. Late(counts, lastAt)'
        BY <1>5 DEF Late
    <2>2. PICK m \in [Buckets -> Nat] : m = daily
        BY DEF TypeOK
    <2>3. Late(m, lastAt)'
        BY <1>4, <2>2, LateStays DEF Dated, DatedCounts
    <2>4. daily' = m
        BY <2>2
    <2> QED BY <2>1, <2>3, <2>4 DEF Late
<1>7. LastClickCoversDays' /\ MayWrite(r)'
    BY DEF Dated, DatedCounts, LastClickCoversDays, MayWrite, linkVars
<1> QED BY <1>4, <1>6, <1>7, DatedByOne DEF DatedCounts

(* The capture reads the counters before the timestamps, which only grow.  *)
LEMMA CaptureIsDated ==
    ASSUME TypeOK, TypeOK', Dated, NEW i \in Instances, CaptureDailyCounts(i) \/ LastClickedAtBatch(i)
    PROVE  Dated'
<1>0. /\ w[i] \in Locals /\ UNCHANGED <<statsVars, daily, lastClick, linkVars>>
      /\ w[i].pc = "capture" /\ w[i].conn /\ Late(w[i].snap, lastAt)
    BY DEF TypeOK, WorkersOK, CaptureDailyCounts, LastClickedAtBatch, At, Dated, MayWrite, dbVars
<1>1. CASE CaptureDailyCounts(i)
    <2>1. PICK k \in NextHash(i) :
            Become(i, [w[i] EXCEPT !.unread = @ \ {k},
                                   !.snap = [b \in Buckets |-> IF b[1] = k THEN counts[b] ELSE w[i].snap[b]]])
        BY <1>1, CaptureReadsHash
    <2>2. PICK s : s = [b \in Buckets |-> IF b[1] = k THEN counts[b] ELSE w[i].snap[b]]
        OBVIOUS
    <2>3. \A c \in Codes, d \in Days : s[<<c, d>>] = counts[<<c, d>>] \/ s[<<c, d>>] = w[i].snap[<<c, d>>]
        BY <2>2 DEF Buckets, Keys
    <2>4. Late(s, lastAt)
        BY <1>0, <2>3 DEF Late, Dated, DatedCounts
    <2>5. PICK r : r = [w[i] EXCEPT !.unread = @ \ {k}, !.snap = s]
        OBVIOUS
    <2>6. r.pc = "capture" /\ r.snap = s
        BY <1>0, <2>5 DEF Locals
    <2>7. MayWrite(r)
        BY <2>4, <2>6 DEF MayWrite
    <2> QED BY <1>0, <2>1, <2>2, <2>5, <2>7, DatedQuietly
<1>2. CASE LastClickedAtBatch(i)
    <2> DEFINE hasBucket(c) == \E d \in Days : w[i].snap[<<c, d>>] > 0
    <2>1. PICK last : last = [c \in Codes |-> IF hasBucket(c) THEN lastAt[c] ELSE Absent]
        OBVIOUS
    <2>2. AfterFlush(i) \/ Become(i, [w[i] EXCEPT !.pc = "merge", !.snapLast = last])
        BY <1>2, <2>1 DEF LastClickedAtBatch
    <2>3. \A c \in Codes, d \in Days : w[i].snap[<<c, d>>] > Old(c, d) => hasBucket(c)
        <3>1. \A c \in Codes, d \in Days : <<c, d>> \in Buckets /\ Old(c, d) \in Nat
            BY DEF TypeOK, Buckets, Keys, Old
        <3>2. w[i].snap \in [Buckets -> Nat]
            BY <1>0 DEF Locals
        <3>3. \A m, n \in Nat : m > n => m > 0
            OBVIOUS
        <3> QED BY <3>1, <3>2, <3>3
    <2>4. Late(w[i].snap, last)
        BY <1>0, <2>1, <2>3 DEF Late
    <2>5. PICK r : r = [w[i] EXCEPT !.pc = "merge", !.snapLast = last]
        OBVIOUS
    <2>6. r.pc = "merge" /\ r.snap = w[i].snap /\ r.snapLast = last
        BY <1>0, <2>5 DEF Locals
    <2>7. MayWrite(r)
        BY <1>0, <2>4, <2>6 DEF MayWrite
    <2> QED BY <1>0, <2>2, <2>5, <2>7, DatedQuietly, MoveIsDated
<1> QED BY <1>1, <1>2

(* What is restored is no news to Postgres: it came from there.            *)
LEMMA RestoringIsDated ==
    ASSUME TypeOK, TypeOK', Dated, NEW i \in Instances, LoadDailyClicks(i) \/ Hmax(i) \/ CompareAndDelete(i)
    PROVE  Dated'
<1>0. /\ w[i] \in Locals /\ UNCHANGED <<lastAt, daily, lastClick, linkVars>>
      /\ \A c \in Codes, d \in Days : <<c, d>> \in Buckets
      /\ \A b \in Buckets : daily[b] \in Nat /\ counts[b] \in Nat /\ w[i].snap[b] \in Nat
    <2>1. UNCHANGED <<lastAt, daily, lastClick, linkVars>>
        <3>1. (UNCHANGED statsVars \/ UNCHANGED lastAt) /\ UNCHANGED dbVars
            BY Zenon DEF LoadDailyClicks, Hmax, CompareAndDelete
        <3> QED BY <3>1 DEF statsVars, dbVars
    <2>2. w[i] \in Locals
        BY DEF TypeOK, WorkersOK
    <2>3. w[i].snap \in [Buckets -> Nat] /\ daily \in [Buckets -> Nat] /\ counts \in [Buckets -> Nat]
        BY <2>2 DEF TypeOK, Locals
    <2>4. \A c \in Codes, d \in Days : <<c, d>> \in Buckets
        BY DEF Buckets, Keys
    <2> QED BY <2>1, <2>2, <2>3, <2>4
<1>1. CASE LoadDailyClicks(i)
    <2>1. PICK rows : rows = RehydrationRows
        OBVIOUS
    <2>2. PICK r : r = [w[i] EXCEPT !.pc = "hmax", !.conn = TRUE, !.snap = rows, !.todo = HmaxCalls(rows)]
        OBVIOUS
    <2>3. r.pc = "hmax" /\ r.snap = rows
        BY <1>0, <2>2 DEF Locals
    <2>4. \A b \in Buckets : rows[b] <= daily[b]
        BY <1>0, <2>1 DEF RehydrationRows
    <2>5. MayWrite(r)
        <3>1. ASSUME NEW c \in Codes, NEW d \in Days, ~Excepted(c), rows[<<c, d>>] > Old(c, d) PROVE lastAt[c] >= d
            <4>1. rows[<<c, d>>] \in Nat /\ Old(c, d) \in Nat
                BY <1>0, <2>1, <3>1 DEF RehydrationRows, Old
            <4>2. daily[<<c, d>>] > Old(c, d)
                BY <1>0, <2>4, <3>1, <4>1
            <4> QED BY <3>1, <4>2 DEF Dated, DatedCounts, Late
        <3>2. Late(rows, lastAt)
            BY <3>1 DEF Late
        <3> QED BY <2>3, <3>2 DEF MayWrite
    <2>6. Become(i, r) \/ Goto(i, "release")
        BY <1>1, <2>1, <2>2 DEF LoadDailyClicks
    <2> QED BY <1>1, <2>5, <2>6, DatedQuietly, MoveIsDated DEF LoadDailyClicks, PCs, dbVars
<1>2. CASE Hmax(i) \/ CompareAndDelete(i)
    <2>1. PICK call \in Upcoming(i) : /\ (w[i].conn /\ HMAX_SCRIPT(call[2], w[i].snap[call[2]])) \/ UNCHANGED counts
                                      /\ \E T : Become(i, [w[i] EXCEPT !.todo = @ \ T])
        BY <1>2, Zenon DEF Hmax, CompareAndDelete, COMPARE_AND_DELETE_SCRIPT
    <2>2. PICK T : Become(i, [w[i] EXCEPT !.todo = @ \ T])
        BY <2>1
    <2>3. PICK r : r = [w[i] EXCEPT !.todo = @ \ T]
        OBVIOUS
    <2>4. w[i].pc = "hmax" /\ r.pc = "hmax" /\ r.snap = w[i].snap /\ r.conn = w[i].conn
        BY <1>0, <1>2, <2>3 DEF Locals, Hmax, CompareAndDelete, At
    <2>5. w[i].conn => Late(w[i].snap, lastAt)
        BY <2>4 DEF Dated, MayWrite
    <2>o. \A c \in Codes, d \in Days : Old(c, d)' = Old(c, d) /\ Excepted(c)' = Excepted(c)
        BY <1>0 DEF Old, Excepted, linkVars
    <2>6. MayWrite(r)'
        BY <1>0, <2>4, <2>5, <2>o DEF MayWrite, Late
    <2>7. \A b \in Buckets : counts'[b] = counts[b] \/ (w[i].conn /\ counts'[b] = w[i].snap[b])
        <3>1. call[2] \in Buckets /\ counts \in [Buckets -> Nat]
            BY <1>0 DEF Upcoming, Locals, Calls, TypeOK
        <3> QED BY <2>1, <3>1 DEF HMAX_SCRIPT, Max2
    <2>8. Late(counts, lastAt)'
        <3> SUFFICES ASSUME NEW c \in Codes, NEW d \in Days, ~Excepted(c), counts'[<<c, d>>] > Old(c, d)
                     PROVE  lastAt[c] >= d
            BY <1>0, <2>o DEF Late
        <3>1. CASE counts'[<<c, d>>] = counts[<<c, d>>]
            BY <3>1 DEF Dated, DatedCounts, Late
        <3>2. CASE w[i].conn /\ counts'[<<c, d>>] = w[i].snap[<<c, d>>]
            BY <2>5, <3>2 DEF Late
        <3> QED BY <1>0, <2>7, <3>1, <3>2
    <2>9. Grows /\ LastClickCoversDays' /\ Late(daily, lastAt)'
        <3>1. \A c \in Codes : lastAt[c] \in Int
            BY DEF TypeOK, Times, Absent, Epoch, Days
        <3>2. Grows
            BY <1>0, <3>1 DEF Grows
        <3>3. LastClickCoversDays' /\ Late(daily, lastAt)'
            BY <1>0, <2>o DEF Dated, DatedCounts, LastClickCoversDays, Late, linkVars
        <3> QED BY <3>2, <3>3
    <2> QED BY <2>2, <2>3, <2>6, <2>8, <2>9, DatedByOne DEF DatedCounts
<1> QED BY <1>1, <1>2

(* The merge takes over a last click with every count that is news.        *)
LEMMA MergeIsDated ==
    ASSUME TypeOK, TypeOK', Dated, NEW i \in Instances, MergeSnapshot(i)
    PROVE  Dated'
<1>1. PICK s : s = w[i].snap
    OBVIOUS
<1>2. PICK last : last = w[i].snapLast
    OBVIOUS
<1>3. w[i] \in Locals /\ w[i].pc = "merge"
    BY Zenon DEF TypeOK, WorkersOK, MergeSnapshot, At
<1>4. s \in [Buckets -> Nat] /\ last \in [Codes -> Times] /\ Late(s, last) /\ (~lost => Late(s, lastAt))
    BY <1>1, <1>2, <1>3 DEF Locals, Dated, MayWrite
<1>5. PICK values : values = [b \in Buckets |-> IF s[b] > 0 THEN Max2(daily[b], s[b]) ELSE 0]
    OBVIOUS
<1>6. PICK r : /\ Become(i, r)
               /\ \/ r.pc \in {"loop", "release"}
                  \/ r.pc = "hmax" /\ r.snap = values /\ CommitMerge(s, last)
               /\ CommitMerge(s, last) \/ UNCHANGED <<daily, lastClick>>
    <2> DEFINE calls == HmaxCalls(s) \cup (w[i].todo \cap {<<"cad", b>> : b \in {x \in Buckets : s[x] > 0}})
               h == [w[i] EXCEPT !.pc = "hmax", !.conn = TRUE, !.snap = values, !.snapLast = NoTimes, !.todo = calls]
    <2>1. /\ CommitMerge(s, last) \/ UNCHANGED <<daily, lastClick>>
          /\ (Become(i, h) /\ CommitMerge(s, last)) \/ AfterFlush(i)
        BY <1>1, <1>2, <1>5, Zenon DEF MergeSnapshot
    <2> HIDE DEF calls
    <2>2. h.pc = "hmax" /\ h.snap = values
        BY <1>3 DEF Locals
    <2> HIDE DEF h
    <2>3. \A l : [Idle EXCEPT !.pc = l, !.shut = w[i].shut].pc = l
        BY DEF Idle
    <2> QED BY <2>1, <2>2, <2>3 DEF AfterFlush, Return
<1>7. UNCHANGED <<counts, lastAt, linkVars>>
    <2>1. UNCHANGED statsVars /\ UNCHANGED linkVars
        BY Zenon DEF MergeSnapshot
    <2> QED BY <2>1 DEF statsVars
<1>8. \A c \in Codes, d \in Days : <<c, d>> \in Buckets /\ d \in Nat /\ d > 0
    BY DEF Buckets, Keys, Days
<1>9. \A b \in Buckets : daily[b] \in Nat /\ s[b] \in Nat /\ daily'[b] \in Nat
    BY <1>4 DEF TypeOK
<1>10. \A b \in Buckets : /\ daily[b] <= daily'[b]
                          /\ daily'[b] = daily[b] \/ (CommitMerge(s, last) /\ HasRow(b) /\ daily'[b] = Max2(daily[b], s[b]))
                          /\ CommitMerge(s, last) /\ HasRow(b) => daily'[b] = Max2(daily[b], s[b])
    BY <1>6, <1>9 DEF CommitMerge, Committed, Max2
<1>11. \A c \in Codes : lastClick[c] \in Int /\ lastClick'[c] \in Int /\ last[c] \in Int /\ lastAt[c] \in Int
    BY <1>4 DEF TypeOK, Times, Absent, Epoch, Days
<1>12. \A c \in Codes : /\ lastClick'[c] >= lastClick[c]
                        /\ CommitMerge(s, last) /\ c \in links /\ last[c] # Absent => lastClick'[c] >= last[c]
    <2>1. \A c \in Codes : LET u == LastClickUpdate(s, last, c) IN
            u >= lastClick[c] /\ (last[c] # Absent => u >= last[c])
        BY <1>11 DEF LastClickUpdate, Max2, Epoch
    <2>2. \A c \in Codes : lastClick[c] >= lastClick[c]
        BY <1>11
    <2> QED BY <1>6, <2>1, <2>2 DEF CommitMerge
<1>o. /\ \A c \in Codes, d \in Days : Old(c, d) \in Nat /\ Old(c, d)' \in Nat /\ Old(c, d) <= Old(c, d)'
      /\ \A c \in Codes : Excepted(c)' = Excepted(c) /\ (c \in links => HasRow(<<c, 1>>))
    BY <1>7, <1>8, <1>9, <1>10 DEF Old, Excepted, linkVars, HasRow
<1>13. Grows
    BY <1>7, <1>10, <1>11 DEF Grows
<1>n. ASSUME NEW c \in Codes, NEW d \in Days, ~Excepted(c), daily'[<<c, d>>] # daily[<<c, d>>]
      PROVE  c \in links /\ CommitMerge(s, last) /\ s[<<c, d>>] > daily[<<c, d>>] /\ s[<<c, d>>] > Old(c, d)
    <2>1. CommitMerge(s, last) /\ HasRow(<<c, d>>) /\ s[<<c, d>>] > daily[<<c, d>>]
        BY <1>8, <1>9, <1>10, <1>n DEF Max2
    <2>2. c \in links
        BY <2>1 DEF HasRow
    <2>3. s[<<c, d>>] > Old(c, d)
        BY <1>8, <1>9, <2>1 DEF Old
    <2> QED BY <2>1, <2>2, <2>3
<1>14. ASSUME NEW c \in Codes, NEW d \in Days, ~Excepted(c), daily'[<<c, d>>] > 0 PROVE lastClick'[c] >= d
    <2>c. LastClickCoversDays
        BY DEF Dated, DatedCounts
    <2>i. lastClick[c] \in Int /\ lastClick'[c] \in Int /\ last[c] \in Int /\ d \in Nat /\ d > 0
        BY <1>8, <1>11
    <2>1. CASE daily'[<<c, d>>] = daily[<<c, d>>]
        <3>0. daily[<<c, d>>] > 0 /\ c \notin undated
            BY <1>14, <2>1 DEF Excepted
        <3>1. lastClick[c] >= d
            BY <2>c, <3>0 DEF LastClickCoversDays
        <3>2. lastClick'[c] >= lastClick[c]
            BY <1>12
        <3> QED BY <2>i, <3>1, <3>2
    <2>2. CASE daily'[<<c, d>>] # daily[<<c, d>>]
        <3>0. c \in links /\ CommitMerge(s, last) /\ s[<<c, d>>] > Old(c, d)
            BY <1>n, <1>14, <2>2
        <3>1. last[c] >= d
            BY <1>4, <1>14, <3>0 DEF Late
        <3>2. last[c] # Absent
            BY <2>i, <3>1 DEF Absent
        <3>3. lastClick'[c] >= last[c]
            BY <1>12, <3>0, <3>2
        <3> QED BY <2>i, <3>1, <3>3
    <2> QED BY <2>1, <2>2
<1>15. Late(counts, lastAt)' /\ Late(daily, lastAt)'
    <2>1. ASSUME NEW c \in Codes, NEW d \in Days, ~Excepted(c), counts[<<c, d>>] > Old(c, d)' PROVE lastAt[c] >= d
        <3>1. counts[<<c, d>>] \in Nat
            BY <1>8 DEF TypeOK
        <3>2. counts[<<c, d>>] > Old(c, d)
            BY <1>o, <2>1, <3>1
        <3> QED BY <2>1, <3>2 DEF Dated, DatedCounts, Late
    <2>2. ASSUME NEW c \in Codes, NEW d \in Days, ~Excepted(c), daily'[<<c, d>>] > Old(c, d)' PROVE lastAt[c] >= d
        <3>1. ~lost
            BY <1>7, <1>8, <1>9, <2>2 DEF Old, linkVars
        <3>2. CASE daily'[<<c, d>>] = daily[<<c, d>>]
            BY <1>7, <2>2, <3>1, <3>2 DEF Dated, DatedCounts, Late, Old, linkVars
        <3>3. CASE daily'[<<c, d>>] # daily[<<c, d>>]
            BY <1>4, <1>n, <2>2, <3>1, <3>3 DEF Late
        <3> QED BY <3>2, <3>3
    <2> QED BY <1>7, <1>o, <2>1, <2>2 DEF Late
<1>16. MayWrite(r)'
    <2>1. CASE r.pc = "hmax" /\ r.snap = values /\ CommitMerge(s, last)
        <3>1. ASSUME NEW c \in Codes, NEW d \in Days, ~Excepted(c), values[<<c, d>>] > Old(c, d)' PROVE lastAt[c] >= d
            <4>1. s[<<c, d>>] > 0 /\ values[<<c, d>>] = Max2(daily[<<c, d>>], s[<<c, d>>])
                BY <1>5, <1>8, <1>9, <1>o, <3>1
            <4>2. CASE lost
                <5>1. c \in links
                    BY <3>1, <4>2 DEF Excepted, Dated, Rowless
                <5>2. daily'[<<c, d>>] = values[<<c, d>>] /\ Old(c, d)' = daily'[<<c, d>>]
                    BY <1>7, <1>8, <1>10, <2>1, <4>1, <4>2, <5>1 DEF HasRow, Old, linkVars
                <5> QED BY <1>8, <1>9, <3>1, <5>2
            <4>3. CASE ~lost
                BY <1>4, <3>1, <4>1, <4>3 DEF Late, Old
            <4> QED BY <4>2, <4>3
        <3>2. Late(values, lastAt)'
            BY <1>7, <1>o, <3>1 DEF Late
        <3> QED BY <2>1, <3>2 DEF MayWrite, Late
    <2> QED BY <1>6, <2>1 DEF MayWrite
<1>17. LastClickCoversDays'
    BY <1>14, <1>o DEF LastClickCoversDays, Excepted
<1> QED BY <1>6, <1>13, <1>15, <1>16, <1>17, DatedByOne DEF DatedCounts

LEMMA ProcessIsDated ==
    ASSUME TypeOK, TypeOK', Dated, NEW i \in Instances, ProcessEntry(i)
    PROVE  Dated'
<1>0. /\ w[i] \in Locals /\ w[i].batch \subseteq DOMAIN log /\ w[i].pc = "process"
      /\ UNCHANGED <<daily, lastClick, linkVars>>
    BY DEF TypeOK, WorkersOK, ProcessEntry, At, dbVars
<1>1. PICK e \in Oldest(w[i].batch, 1) :
        /\ Become(i, [w[i] EXCEPT !.batch = @ \ {e}])
        /\ \/ IF log[e].code = Malformed THEN DropClickEvent(e) ELSE RecordClickEvent(e)
           \/ UNCHANGED <<pel, stream, statsVars, processed>>
    BY DEF ProcessEntry
<1>2. e \in DOMAIN log
    BY <1>0, OldestSubset
<1>3. PICK r : r = [w[i] EXCEPT !.batch = @ \ {e}]
    OBVIOUS
<1>4. r.pc = "process" /\ MayWrite(r) /\ Become(i, r)
    BY <1>0, <1>1, <1>3 DEF Locals, MayWrite
<1>5. CASE UNCHANGED statsVars
    BY <1>0, <1>4, <1>5, DatedQuietly
<1>6. CASE log[e].code # Malformed /\ CountClick(e)
    BY <1>0, <1>2, <1>4, <1>6, CountingIsDated
<1> QED BY <1>1, <1>5, <1>6 DEF DropClickEvent, RecordClickEvent, RECORD_CLICK

(* The steps that leave counts and timestamps alone.                       *)
LEMMA QuietStepIsDated ==
    ASSUME TypeOK, TypeOK', Dated, NEW i \in Instances,
           \/ Acquire(i) \/ Release(i) \/ Pause(i) \/ EnsureConsumerGroup(i) \/ ConnectForBatch(i) \/ BatchDone(i)
           \/ DrainPendingBatch(i) \/ StopLoop(i) \/ Tick(i) \/ ReadStream(i) \/ CaptureFailed(i) \/ HmaxDone(i)
           \/ Shutdown(i) \/ Crash(i) \/ Restart(i)
    PROVE  Dated'
<1>0. w[i] \in Locals
    BY DEF TypeOK, WorkersOK
<1>1. UNCHANGED <<statsVars, daily, lastClick, linkVars>>
    <2>1. UNCHANGED statsVars /\ (UNCHANGED dbVars \/ UNCHANGED <<daily, lastClick, linkVars>>)
        BY Zenon DEF Acquire, Release, Pause, EnsureConsumerGroup, ConnectForBatch, BatchDone, DrainPendingBatch, StopLoop,
                     Tick, ReadStream, CaptureFailed, HmaxDone, Shutdown, Crash, Restart
    <2> QED BY <2>1 DEF dbVars
<1>m. /\ \A l \in PCs \ {"capture", "merge", "hmax"} : Goto(i, l) \/ Return(i, l) => Dated'
      /\ BackToDrain(i) \/ AfterFlush(i) \/ DrainDone(i) \/ DrainFailed(i) => Dated'
      /\ \A f \in {"tick", "final"} : FlushStart(i, f) => Dated'
    BY <1>1, MoveIsDated
<1>q. \A r : Become(i, r) /\ MayWrite(r) => Dated'
    BY <1>1, DatedQuietly
<1>2. CASE Acquire(i)
    BY <1>2, <1>m DEF Acquire, PCs
<1>3. CASE Release(i) \/ Pause(i)
    BY <1>3, <1>m DEF Release, Pause, PCs
<1>4. CASE EnsureConsumerGroup(i)
    BY <1>4, <1>m DEF EnsureConsumerGroup, PCs
<1>5. CASE ConnectForBatch(i)
    <2>1. PICK r : r = [w[i] EXCEPT !.pc = "process", !.conn = TRUE]
        OBVIOUS
    <2>2. MayWrite(r)
        BY <1>0, <2>1 DEF Locals, MayWrite
    <2> QED BY <1>5, <1>m, <1>q, <2>1, <2>2 DEF ConnectForBatch, PCs
<1>6. CASE BatchDone(i)
    BY <1>6, <1>m DEF BatchDone, PCs
<1>7. CASE DrainPendingBatch(i)
    <2>1. PICK r : r = [w[i] EXCEPT !.pc = "process", !.conn = TRUE, !.batch = Oldest(pel, BatchSize)]
        OBVIOUS
    <2>2. MayWrite(r)
        BY <1>0, <2>1 DEF Locals, MayWrite
    <2> QED BY <1>7, <1>m, <1>q, <2>1, <2>2 DEF DrainPendingBatch
<1>8. CASE StopLoop(i)
    BY <1>8, <1>m DEF StopLoop
<1>9. CASE Tick(i)
    <2>1. PICK r : r = [w[i] EXCEPT !.pc = "drain", !.phase = "tick"]
        OBVIOUS
    <2>2. MayWrite(r)
        BY <1>0, <2>1 DEF Locals, MayWrite
    <2> QED BY <1>9, <1>q, <2>1, <2>2 DEF Tick
<1>10. CASE ReadStream(i)
    <2>1. PICK r : r = [w[i] EXCEPT !.pc = "connect", !.phase = "read", !.batch = Oldest(NewEntries, BatchSize)]
        OBVIOUS
    <2>2. MayWrite(r)
        BY <1>0, <2>1 DEF Locals, MayWrite
    <2> QED BY <1>10, <1>q, <2>1, <2>2 DEF ReadStream
<1>11. CASE CaptureFailed(i) \/ HmaxDone(i)
    BY <1>11, <1>m DEF CaptureFailed, HmaxDone
<1>12. CASE Shutdown(i)
    <2>1. PICK r : r = [w[i] EXCEPT !.shut = TRUE]
        OBVIOUS
    <2>2. r.pc = w[i].pc /\ r.conn = w[i].conn /\ r.snap = w[i].snap /\ r.snapLast = w[i].snapLast
        BY <1>0, <2>1 DEF Locals
    <2>3. MayWrite(r)
        BY <2>2 DEF Dated, MayWrite
    <2> QED BY <1>12, <1>q, <2>1, <2>3 DEF Shutdown
<1>13. CASE Crash(i) \/ Restart(i)
    <2>1. MayWrite(Idle) /\ MayWrite([Idle EXCEPT !.pc = "down"])
        BY DEF Idle, MayWrite
    <2> QED BY <1>13, <1>q, <2>1 DEF Crash, Restart
<1> QED BY <1>2, <1>3, <1>4, <1>5, <1>6, <1>7, <1>8, <1>9, <1>10, <1>11, <1>12, <1>13

(* After a deletion the counts of the link need a last click only if Redis *)
(* still has all of its timestamps.                                        *)
LEMMA DeletionIsDated ==
    ASSUME TypeOK, TypeOK', Dated, NEW c \in Codes, DeleteLink(c)
    PROVE  Dated'
<1>1. /\ undated' = (IF lost THEN undated \cup {c} ELSE undated) /\ links' = links \ {c}
      /\ UNCHANGED <<counts, lastAt, lost, w>>
      /\ daily' = [b \in Buckets |-> IF b[1] = c THEN 0 ELSE daily[b]]
      /\ lastClick' = [lastClick EXCEPT ![c] = Absent]
    BY DEF DeleteLink, statsVars
<1>2. \A k \in Codes, d \in Days : <<k, d>> \in Buckets /\ daily[<<k, d>>] \in Nat
    BY DEF TypeOK, Buckets, Keys
<1>3. \A k \in Codes, d \in Days : ~Excepted(k)' => ~Excepted(k) /\ Old(k, d)' = Old(k, d)
    BY <1>1, <1>2 DEF Excepted, Old
<1>4. \A m, last : Late(m, last) => \A k \in Codes, d \in Days : ~Excepted(k)' /\ m[<<k, d>>] > Old(k, d)' => last[k] >= d
    BY <1>3 DEF Late
<1>5. Late(counts, lastAt)'
    BY <1>1, <1>4 DEF Dated, DatedCounts, Late
<1>6. Late(daily, lastAt)'
    <2>1. ASSUME NEW k \in Codes, NEW d \in Days, ~Excepted(k)', daily'[<<k, d>>] > Old(k, d)' PROVE lastAt[k] >= d
        <3>1. ~Excepted(k) /\ Old(k, d)' = Old(k, d) /\ Old(k, d) \in Nat
            BY <1>2, <1>3, <2>1 DEF Old
        <3>2. daily'[<<k, d>>] = daily[<<k, d>>]
            BY <1>1, <1>2, <2>1, <3>1
        <3> QED BY <2>1, <3>1, <3>2 DEF Dated, DatedCounts, Late
    <2> QED BY <1>1, <2>1 DEF Late
<1>7. ASSUME NEW i \in Instances PROVE MayWrite(w[i])'
    <2>1. PICK r : r = w[i] /\ r = w'[i]
        BY <1>1
    <2>2. MayWrite(r)
        BY <2>1 DEF Dated
    <2>3. \A m, last : Late(m, last) => Late(m, last)'
        BY <1>4 DEF Late
    <2>4. Late(r.snap, lastAt) => Late(r.snap, lastAt)'
        BY <1>1, <1>4 DEF Late
    <2>5. MayWrite(r)'
        BY <1>1, <2>2, <2>3, <2>4 DEF MayWrite
    <2> QED BY <2>1, <2>5 DEF MayWrite, Late, Old, Excepted
<1>8. LastClickCoversDays'
    <2>1. ASSUME NEW k \in Codes, NEW d \in Days, daily'[<<k, d>>] > 0, k \notin undated' PROVE lastClick'[k] >= d
        <3>1. k # c /\ daily'[<<k, d>>] = daily[<<k, d>>] /\ lastClick'[k] = lastClick[k]
            BY <1>1, <1>2, <2>1 DEF TypeOK
        <3> QED BY <1>1, <2>1, <3>1 DEF Dated, DatedCounts, LastClickCoversDays
    <2> QED BY <2>1 DEF LastClickCoversDays
<1>9. Rowless'
    BY <1>1 DEF Dated, Rowless
<1> QED BY <1>5, <1>6, <1>7, <1>8, <1>9 DEF Dated, DatedCounts

LEMMA DatedStep == TypeOK /\ TypeOK' /\ Dated /\ [Next]_vars => Dated'
<1> SUFFICES ASSUME TypeOK, TypeOK', Dated, [Next]_vars PROVE Dated'
    OBVIOUS
<1>1. ASSUME OrphanedRead \/ SendClickEvent \/ NextDay \/ LoseLock \/ UNCHANGED vars PROVE Dated'
    <2>1. UNCHANGED <<statsVars, daily, lastClick, linkVars, w>>
        BY <1>1 DEF OrphanedRead, SendClickEvent, NextDay, LoseLock, vars, dbVars
    <2> QED BY <2>1, DatedQuietly
<1>2. CASE RedisCrash
    <2>1. /\ UNCHANGED <<daily, lastClick, links>> /\ lost' = TRUE /\ undated' = undated \cup (Codes \ links)
          /\ counts' = Zeros
          /\ w' = [i \in Instances |-> [w[i] EXCEPT !.conn = FALSE]]
        BY <1>2 DEF RedisCrash
    <2>2. \A c \in Codes, d \in Days : Zeros[<<c, d>>] = 0 /\ daily[<<c, d>>] \in Nat /\ Old(c, d) \in Nat
                                       /\ Old(c, d)' = daily[<<c, d>>] /\ Old(c, d) <= Old(c, d)'
        BY <2>1 DEF TypeOK, Zeros, Buckets, Keys, Old
    <2>3. \A c \in Codes : ~Excepted(c)' => ~Excepted(c)
        BY <2>1 DEF Excepted
    <2>4. Late(counts, lastAt)' /\ Late(daily, lastAt)'
        BY <2>1, <2>2 DEF Late
    <2>5. LastClickCoversDays'
        BY <2>1 DEF Dated, DatedCounts, LastClickCoversDays
    <2>6. ASSUME NEW i \in Instances PROVE MayWrite(w[i])'
        <3>1. /\ w'[i].pc = w[i].pc /\ ~w'[i].conn /\ w'[i].snap = w[i].snap /\ w'[i].snapLast = w[i].snapLast
              /\ w[i].snap \in [Buckets -> Nat]
            <4>1. w[i] \in Locals
                BY DEF TypeOK, WorkersOK
            <4> QED BY <2>1, <4>1 DEF Locals
        <3>2. ASSUME NEW c \in Codes, NEW d \in Days, w[i].pc = "merge", ~Excepted(c)', w[i].snap[<<c, d>>] > Old(c, d)'
              PROVE  w[i].snapLast[c] >= d
            <4>1. w[i].snap[<<c, d>>] \in Nat
                BY <3>1 DEF Buckets, Keys
            <4>2. w[i].snap[<<c, d>>] > Old(c, d)
                BY <2>2, <3>2, <4>1
            <4> QED BY <2>3, <3>2, <4>2 DEF Dated, MayWrite, Late
        <3> QED BY <2>1, <3>1, <3>2 DEF MayWrite, Late
    <2>7. Rowless'
        BY <2>1 DEF Rowless
    <2> QED BY <2>4, <2>5, <2>6, <2>7 DEF Dated, DatedCounts
<1>3. ASSUME NEW c \in Codes, CreateLink(c) PROVE Dated'
    <2>1. UNCHANGED <<counts, lastAt, daily, lastClick, lost, undated, w>> /\ links' = links \cup {c}
        BY <1>3 DEF CreateLink, statsVars
    <2> QED BY <2>1 DEF Dated, DatedCounts, LastClickCoversDays, MayWrite, Late, Old, Excepted, Rowless
<1> QED BY <1>1, <1>2, <1>3, ProcessIsDated, CaptureIsDated, RestoringIsDated, MergeIsDated, QuietStepIsDated,
           DeletionIsDated
        DEF Next, Advance

(* A link with saved clicks has a last click at least as late as each of   *)
(* their days, with any number of writers and all faults, restarts of      *)
(* Redis that take its timestamps and deletions of links included; a link  *)
(* created anew after such a restart is excepted.                          *)
THEOREM LastClicksCoverDays == Spec => []LastClickCoversDays
<1>1. Init => Dated
    <2> SUFFICES ASSUME Init PROVE Dated
        OBVIOUS
    <2>1. \A c \in Codes, d \in Days : Zeros[<<c, d>>] = 0
        BY DEF Zeros, Buckets, Keys
    <2>2. \A i \in Instances : w[i].pc = "acquire"
        BY DEF Init, Idle
    <2> QED BY <2>1, <2>2 DEF Init, Dated, DatedCounts, LastClickCoversDays, Late, Old, MayWrite, Rowless
<1>2. Dated => LastClickCoversDays
    BY DEF Dated, DatedCounts
<1> QED BY <1>1, <1>2, DatedStep, TypeCorrect, PTL DEF Spec

-----------------------------------------------------------------------------
(* No link is deleted: every code has a row.                               *)
LinksStay == "unlink" \notin FaultKinds
AllLinked == links = Codes

LEMMA EveryCodeHasRow ==
    ASSUME AllLinked
    PROVE  \A b \in Buckets : HasRow(b)
BY DEF AllLinked, HasRow, Buckets, Keys

LEMMA LinksUnchanged == LinksStay /\ AllLinked /\ [Next]_vars => AllLinked'
<1> SUFFICES ASSUME LinksStay, AllLinked, [Next]_vars PROVE UNCHANGED links
    BY DEF AllLinked
<1> USE DEF dbVars, linkVars
<1>1. ASSUME NEW i \in Instances, Work(i) PROVE UNCHANGED links
    BY <1>1, Zenon
       DEF Work, EnsureConsumerGroup, LoadDailyClicks, ConnectForBatch, ProcessEntry, BatchDone, DrainPendingBatch, StopLoop,
           CaptureDailyCounts, LastClickedAtBatch, CaptureFailed, MergeSnapshot, Hmax, CompareAndDelete, HmaxDone, Tick,
           ReadStream
<1>2. ASSUME NEW i \in Instances, Acquire(i) \/ Release(i) \/ Pause(i) \/ Shutdown(i) \/ Crash(i) \/ Restart(i)
      PROVE  UNCHANGED links
    BY <1>2 DEF Acquire, Release, Pause, Shutdown, Crash, Restart
<1>3. ASSUME OrphanedRead \/ SendClickEvent \/ NextDay \/ LoseLock \/ RedisCrash \/ UNCHANGED vars PROVE UNCHANGED links
    BY <1>3 DEF OrphanedRead, SendClickEvent, NextDay, LoseLock, RedisCrash, vars
<1>4. \A c \in Codes : ~DeleteLink(c) /\ ~CreateLink(c)
    BY DEF DeleteLink, CreateLink, Fault, LinksStay, AllLinked
<1> QED BY <1>1, <1>2, <1>3, <1>4 DEF Next, Advance, Work

LEMMA LinksAllStay == LinksStay => (Spec => []AllLinked)
<1> SUFFICES ASSUME LinksStay PROVE Spec => []AllLinked
    OBVIOUS
<1>1. Init => AllLinked
    BY DEF Init, AllLinked
<1>2. AllLinked /\ [Next]_vars => AllLinked'
    BY LinksUnchanged
<1> QED BY <1>1, <1>2, PTL DEF Spec

-----------------------------------------------------------------------------
(* Shutdowns, at any point, but no failures.                               *)
OnlyShutdowns == FaultKinds \subseteq {"shutdown"}

Saved == daily = counts

(* What the writer has read, restored or saved so far, at each point.      *)
InOrder(r) ==
    /\ r.pc \in {"ensure", "load", "release"} => Saved
    /\ r.pc \in {"acquire", "ensure", "load"} => r.phase = "start"
    /\ r.pc \notin IdlePCs \cup {"ensure"} => group
    /\ r.pc = "hmax" => /\ r.conn /\ Saved /\ r.phase \in {"start", "tick", "final"}
                        /\ \A b \in Buckets : r.snap[b] <= counts[b]
    /\ r.pc = "drain" => r.phase \in {"start", "tick"}
    /\ r.pc = "connect" => r.phase = "read"
    /\ r.pc = "process" => r.phase \in {"start", "tick", "read"}
    /\ r.pc = "capture" => /\ r.conn /\ r.phase \in {"tick", "final"}
                           /\ \A b \in Buckets : b[1] \notin r.unread => r.snap[b] = counts[b]
    /\ r.pc = "merge" => r.phase \in {"tick", "final"} /\ r.snap = counts

Orderly == (lock = NoInstance => Saved) /\ \A i \in Instances : InOrder(w[i])

Facts == OnlyShutdowns /\ TypeOK /\ TypeOK' /\ SingleWriter /\ Bounded /\ ExactCount /\ AllLinked /\ Orderly

LEMMA SavedIsCounted == Facts => \A b \in Buckets : counts[b] \in Nat /\ daily[b] \in Nat /\ daily[b] <= counts[b]
    BY DEF Facts, TypeOK, Bounded, Below, HandledOf, ExactCount

LEMMA NoFailures == Facts => ~Fault("redis_err") /\ ~Fault("db_err") /\ ~Fault("crash") /\ ~Fault("lock_loss")
                             /\ ~Fault("redis_crash") /\ ~Fault("unlink")
    BY DEF Facts, OnlyShutdowns, Fault

(* The one writer moves on; everybody else waits.                          *)
LEMMA WriterMoves ==
    ASSUME Facts, NEW i \in Instances, Work(i), NEW r, Become(i, r), InOrder(r)'
    PROVE  Orderly'
<1>0. WorkersOK /\ w[i].pc \notin IdlePCs /\ lock' = lock
    BY WorkIsOnesOwn DEF Facts, TypeOK
<1>1. lock = i /\ \A j \in Instances \ {i} : w[j].pc \in IdlePCs
    BY <1>0 DEF Facts, SingleWriter, IdlePCs
<1>2. w'[i] = r /\ \A j \in Instances \ {i} : w'[j] = w[j]
    BY <1>0, BecomeSnaps
<1>3. ASSUME NEW j \in Instances PROVE InOrder(w[j])'
    <2>1. CASE j = i
        BY <1>2, <2>1 DEF InOrder, Saved
    <2>2. CASE j # i
        <3>1. w'[j] = w[j] /\ w[j].pc \in IdlePCs /\ InOrder(w[j])
            BY <1>1, <1>2, <2>2 DEF Facts, Orderly
        <3> QED BY <3>1 DEF InOrder, IdlePCs
    <2> QED BY <2>1, <2>2
<1> QED BY <1>0, <1>1, <1>3 DEF Orderly

(* Ways to move on that need no more than what was so before.              *)
LEMMA WriterReturns ==
    ASSUME Facts, NEW i \in Instances, Work(i), UNCHANGED <<counts, daily, group>>, group
    PROVE  /\ Return(i, "loop") => Orderly'
           /\ Return(i, "release") /\ Saved => Orderly'
           /\ AfterFlush(i) /\ w[i].phase \in {"tick", "final"} /\ Saved => Orderly'
           /\ BackToDrain(i) /\ w[i].phase \in {"start", "tick"} => Orderly'
           /\ \A f \in {"tick", "final"} : FlushStart(i, f) => Orderly'
<1>0. w[i] \in Locals
    BY DEF Facts, TypeOK, WorkersOK
<1>1. \A l : [Idle EXCEPT !.pc = l, !.shut = w[i].shut].pc = l
    BY DEF Idle
<1>2. Return(i, "loop") => Orderly'
    <2> SUFFICES ASSUME Return(i, "loop") PROVE Orderly'
        OBVIOUS
    <2>1. PICK r : r = [Idle EXCEPT !.pc = "loop", !.shut = w[i].shut]
        OBVIOUS
    <2>2. InOrder(r)'
        BY <1>1, <2>1 DEF InOrder
    <2> QED BY <2>1, <2>2, WriterMoves DEF Return
<1>3. Return(i, "release") /\ Saved => Orderly'
    <2> SUFFICES ASSUME Return(i, "release"), Saved PROVE Orderly'
        OBVIOUS
    <2>1. PICK r : r = [Idle EXCEPT !.pc = "release", !.shut = w[i].shut]
        OBVIOUS
    <2>2. InOrder(r)'
        BY <1>1, <2>1 DEF InOrder, Saved
    <2> QED BY <2>1, <2>2, WriterMoves DEF Return
<1>4. BackToDrain(i) /\ w[i].phase \in {"start", "tick"} => Orderly'
    <2> SUFFICES ASSUME BackToDrain(i), w[i].phase \in {"start", "tick"} PROVE Orderly'
        OBVIOUS
    <2>1. PICK r : r = [Idle EXCEPT !.pc = "drain", !.phase = w[i].phase, !.shut = w[i].shut]
        OBVIOUS
    <2>2. r.pc = "drain" /\ r.phase = w[i].phase
        BY <2>1 DEF Idle
    <2>3. InOrder(r)'
        BY <2>2 DEF InOrder
    <2> QED BY <2>1, <2>3, WriterMoves DEF BackToDrain
<1>5. ASSUME NEW f \in {"tick", "final"}, FlushStart(i, f) PROVE Orderly'
    <2>1. PICK r : r = [w[i] EXCEPT !.pc = "capture", !.phase = f, !.conn = TRUE, !.unread = Keys, !.snap = Zeros,
                                    !.snapLast = NoTimes, !.batch = {}, !.todo = {<<"cad", b>> : b \in StaleBuckets}]
        OBVIOUS
    <2>2. r.pc = "capture" /\ r.phase = f /\ r.conn /\ r.unread = Keys
        BY <1>0, <2>1 DEF Locals
    <2>3. \A b \in Buckets : b[1] \in Keys
        BY DEF Buckets
    <2>4. InOrder(r)'
        BY <2>2, <2>3 DEF InOrder
    <2> QED BY <1>5, <2>1, <2>4, WriterMoves DEF FlushStart
<1> QED BY <1>2, <1>3, <1>4, <1>5 DEF AfterFlush

(* The start of a writer, up to its loop.                                  *)
LEMMA StartIsOrderly ==
    ASSUME Facts, NEW i \in Instances,
           EnsureConsumerGroup(i) \/ LoadDailyClicks(i) \/ DrainPendingBatch(i) \/ Hmax(i) \/ CompareAndDelete(i)
    PROVE  Orderly'
<1>0. w[i] \in Locals /\ Work(i) /\ InOrder(w[i])
    BY DEF Facts, TypeOK, WorkersOK, Work, Orderly
<1> USE NoFailures DEF At, statsVars, dbVars, streamVars
<1>1. CASE EnsureConsumerGroup(i)
    <2>1. group' /\ UNCHANGED <<counts, daily>> /\ Goto(i, "load") /\ w[i].pc = "ensure"
        BY <1>1 DEF EnsureConsumerGroup
    <2>2. PICK r : r = [w[i] EXCEPT !.pc = "load"]
        OBVIOUS
    <2>3. r.pc = "load" /\ r.phase = "start" /\ Saved
        BY <1>0, <2>1, <2>2 DEF Locals, InOrder
    <2>4. InOrder(r)'
        BY <2>1, <2>3 DEF InOrder, Saved
    <2> QED BY <1>0, <2>1, <2>2, <2>4, WriterMoves DEF Goto
<1>2. CASE LoadDailyClicks(i)
    <2>1. PICK rows : rows = RehydrationRows
        OBVIOUS
    <2>2. PICK r : r = [w[i] EXCEPT !.pc = "hmax", !.conn = TRUE, !.snap = rows, !.todo = HmaxCalls(rows)]
        OBVIOUS
    <2>3. Become(i, r) /\ UNCHANGED <<counts, daily, group>> /\ w[i].pc = "load"
        BY <1>2, <2>1, <2>2 DEF LoadDailyClicks
    <2>4. Saved /\ group
        BY <1>0, <2>3 DEF InOrder, IdlePCs
    <2>5. w[i].phase = "start"
        BY <1>0, <2>3 DEF InOrder
    <2>6. \A b \in Buckets : rows[b] <= counts[b]
        BY <2>1, <2>4, SavedIsCounted DEF RehydrationRows
    <2>7. r.pc = "hmax" /\ r.conn /\ r.snap = rows /\ r.phase = "start"
        BY <1>0, <2>2, <2>5 DEF Locals
    <2>8. InOrder(r)'
        BY <2>3, <2>4, <2>6, <2>7 DEF InOrder, Saved
    <2> QED BY <1>0, <2>3, <2>8, WriterMoves
<1>3. CASE DrainPendingBatch(i)
    <2>1. /\ UNCHANGED <<counts, daily, group>> /\ w[i].pc = "drain" /\ group /\ w[i].phase \in {"start", "tick"}
        BY <1>0, <1>3 DEF DrainPendingBatch, InOrder, IdlePCs
    <2>2. PICK r : r = [w[i] EXCEPT !.pc = "process", !.conn = TRUE, !.batch = Oldest(pel, BatchSize)]
        OBVIOUS
    <2>3. DrainDone(i) \/ Become(i, r)
        BY <1>3, <2>1, <2>2 DEF DrainPendingBatch
    <2>4. r.pc = "process" /\ r.phase = w[i].phase
        BY <1>0, <2>2 DEF Locals
    <2>5. InOrder(r)'
        BY <2>1, <2>4 DEF InOrder
    <2>6. DrainDone(i) => Orderly'
        BY <1>0, <2>1, WriterReturns DEF DrainDone
    <2> QED BY <1>0, <2>3, <2>5, <2>6, WriterMoves
<1>4. CASE Hmax(i) \/ CompareAndDelete(i)
    <2>1. PICK call \in Upcoming(i) : /\ HMAX_SCRIPT(call[2], w[i].snap[call[2]]) \/ UNCHANGED counts
                                      /\ \E T : Become(i, [w[i] EXCEPT !.todo = @ \ T])
        BY <1>4, Zenon DEF Hmax, CompareAndDelete, COMPARE_AND_DELETE_SCRIPT
    <2>2. PICK T : Become(i, [w[i] EXCEPT !.todo = @ \ T])
        BY <2>1
    <2>3. PICK r : r = [w[i] EXCEPT !.todo = @ \ T]
        OBVIOUS
    <2>4. UNCHANGED <<daily, group>> /\ w[i].pc = "hmax"
        BY <1>4, Zenon DEF Hmax, CompareAndDelete
    <2>5. r.pc = "hmax" /\ r.conn = w[i].conn /\ r.snap = w[i].snap /\ r.phase = w[i].phase
        BY <1>0, <2>3, <2>4 DEF Locals
    <2>6. \A b \in Buckets : w[i].snap[b] <= counts[b] /\ w[i].snap[b] \in Nat
        BY <1>0, <2>4 DEF InOrder, Locals
    <2>7. UNCHANGED counts
        <3>1. call[2] \in Buckets /\ counts \in [Buckets -> Nat]
            BY <1>0 DEF Upcoming, Locals, Calls, Facts, TypeOK
        <3>2. Max2(counts[call[2]], w[i].snap[call[2]]) = counts[call[2]]
            BY <2>6, <3>1 DEF Max2
        <3> QED BY <2>1, <3>1, <3>2 DEF HMAX_SCRIPT
    <2>8. InOrder(r)'
        BY <1>0, <2>4, <2>5, <2>7 DEF InOrder, Saved
    <2> QED BY <1>0, <2>2, <2>3, <2>8, WriterMoves
<1> QED BY <1>1, <1>2, <1>3, <1>4

(* The loop and its batches.                                               *)
LEMMA LoopIsOrderly ==
    ASSUME Facts, NEW i \in Instances,
           ConnectForBatch(i) \/ ProcessEntry(i) \/ BatchDone(i) \/ StopLoop(i) \/ Tick(i) \/ ReadStream(i)
    PROVE  Orderly'
<1>0. w[i] \in Locals /\ Work(i) /\ InOrder(w[i])
    BY DEF Facts, TypeOK, WorkersOK, Work, Orderly
<1>1. w[i].pc \in {"connect", "process", "loop"} /\ UNCHANGED group /\ group
    <2>1. w[i].pc \in {"connect", "process", "loop"} /\ UNCHANGED group
        BY DEF ConnectForBatch, ProcessEntry, BatchDone, StopLoop, Tick, ReadStream, At, Deliver, streamVars
    <2> QED BY <1>0, <2>1 DEF InOrder, IdlePCs
<1> USE NoFailures DEF At, statsVars, dbVars, streamVars
<1>m. ASSUME NEW r, Become(i, r), r.pc \in {"connect", "process", "drain"},
             r.phase \in {"start", "tick", "read"}, r.pc = "connect" => r.phase = "read",
             r.pc = "drain" => r.phase \in {"start", "tick"}
      PROVE  Orderly'
    <2>1. InOrder(r)'
        BY <1>m, <1>1 DEF InOrder
    <2> QED BY <1>0, <1>m, <2>1, WriterMoves
<1>2. CASE ConnectForBatch(i)
    <2>1. PICK r : r = [w[i] EXCEPT !.pc = "process", !.conn = TRUE]
        OBVIOUS
    <2>2. r.pc = "process" /\ r.phase = "read"
        BY <1>0, <1>2, <2>1 DEF ConnectForBatch, Locals, InOrder
    <2> QED BY <1>2, <1>m, <2>1, <2>2 DEF ConnectForBatch
<1>3. CASE ProcessEntry(i)
    <2>1. PICK e : Become(i, [w[i] EXCEPT !.batch = @ \ {e}])
        BY <1>3 DEF ProcessEntry
    <2>2. PICK r : r = [w[i] EXCEPT !.batch = @ \ {e}]
        OBVIOUS
    <2>3. r.pc = "process" /\ r.phase \in {"start", "tick", "read"}
        BY <1>0, <1>3, <2>2 DEF ProcessEntry, Locals, InOrder
    <2> QED BY <1>m, <2>1, <2>2, <2>3
<1>4. CASE BatchDone(i)
    <2>1. w[i].phase \in {"start", "tick", "read"} /\ UNCHANGED <<counts, daily, group>>
        BY <1>0, <1>4 DEF BatchDone, InOrder
    <2> QED BY <1>0, <1>1, <1>4, <2>1, WriterReturns DEF BatchDone
<1>5. CASE StopLoop(i)
    BY <1>0, <1>1, <1>5, WriterReturns DEF StopLoop
<1>6. CASE Tick(i)
    <2>1. PICK r : r = [w[i] EXCEPT !.pc = "drain", !.phase = "tick"]
        OBVIOUS
    <2>2. r.pc = "drain" /\ r.phase = "tick"
        BY <1>0, <2>1 DEF Locals
    <2> QED BY <1>6, <1>m, <2>1, <2>2 DEF Tick
<1>7. CASE ReadStream(i)
    <2>1. PICK r : r = [w[i] EXCEPT !.pc = "connect", !.phase = "read", !.batch = Oldest(NewEntries, BatchSize)]
        OBVIOUS
    <2>2. r.pc = "connect" /\ r.phase = "read"
        BY <1>0, <2>1 DEF Locals
    <2> QED BY <1>7, <1>m, <2>1, <2>2 DEF ReadStream
<1> QED BY <1>2, <1>3, <1>4, <1>5, <1>6, <1>7

(* A flush: while one instance counts and reads, what it captured is what  *)
(* the hashes hold, and the merge makes the tables equal to it.            *)
LEMMA FlushIsOrderly ==
    ASSUME Facts, NEW i \in Instances,
           CaptureDailyCounts(i) \/ LastClickedAtBatch(i) \/ CaptureFailed(i) \/ MergeSnapshot(i) \/ HmaxDone(i)
    PROVE  Orderly'
<1>0. w[i] \in Locals /\ Work(i) /\ InOrder(w[i])
    BY DEF Facts, TypeOK, WorkersOK, Work, Orderly
<1>1. w[i].pc \in {"capture", "merge", "hmax"} /\ UNCHANGED group /\ group
    <2>1. w[i].pc \in {"capture", "merge", "hmax"} /\ UNCHANGED streamVars
        BY Zenon DEF CaptureDailyCounts, LastClickedAtBatch, CaptureFailed, MergeSnapshot, HmaxDone, At
    <2> QED BY <1>0, <2>1 DEF InOrder, IdlePCs, streamVars
<1> USE NoFailures DEF At, statsVars, dbVars, streamVars
<1>2. ASSUME NEW r, Become(i, r), r.pc = "capture", r.conn, r.phase \in {"tick", "final"},
             \A b \in Buckets : b[1] \notin r.unread => r.snap[b] = counts'[b]
      PROVE  Orderly'
    <2>1. InOrder(r)'
        BY <1>1, <1>2 DEF InOrder
    <2> QED BY <1>0, <1>2, <2>1, WriterMoves
<1>3. CASE CaptureDailyCounts(i)
    <2>1. PICK k : Become(i, [w[i] EXCEPT !.unread = @ \ {k},
                                          !.snap = [b \in Buckets |-> IF b[1] = k THEN counts[b] ELSE w[i].snap[b]]])
        BY <1>3, CaptureReadsHash
    <2>2. PICK s : s = [b \in Buckets |-> IF b[1] = k THEN counts[b] ELSE w[i].snap[b]]
        OBVIOUS
    <2>3. PICK r : r = [w[i] EXCEPT !.unread = @ \ {k}, !.snap = s]
        OBVIOUS
    <2>4. w[i].pc = "capture" /\ UNCHANGED counts
        BY <1>3 DEF CaptureDailyCounts
    <2>5. /\ r.pc = "capture" /\ r.conn = w[i].conn /\ r.phase = w[i].phase
          /\ r.unread = w[i].unread \ {k} /\ r.snap = s
        BY <1>0, <2>3, <2>4 DEF Locals
    <2>6. \A b \in Buckets : b[1] \notin r.unread => s[b] = counts[b]
        BY <1>0, <2>2, <2>4, <2>5 DEF InOrder
    <2>7. w[i].conn /\ w[i].phase \in {"tick", "final"}
        BY <1>0, <2>4 DEF InOrder
    <2>8. \A b \in Buckets : b[1] \notin r.unread => r.snap[b] = counts'[b]
        BY <2>4, <2>5, <2>6
    <2>9. Become(i, r)
        BY <2>1, <2>2, <2>3
    <2> QED BY <1>2, <2>5, <2>7, <2>8, <2>9
<1>4. CASE LastClickedAtBatch(i)
    <2> DEFINE hasBucket(c) == \E d \in Days : w[i].snap[<<c, d>>] > 0
    <2>1. PICK last : last = [c \in Codes |-> IF hasBucket(c) THEN lastAt[c] ELSE Absent]
        OBVIOUS
    <2>2. PICK r : r = [w[i] EXCEPT !.pc = "merge", !.snapLast = last]
        OBVIOUS
    <2>3. /\ w[i].pc = "capture" /\ UNCHANGED <<counts, daily, group>> /\ w[i].unread = {}
          /\ IF w[i].snap = Zeros THEN AfterFlush(i) ELSE Become(i, r)
        BY <1>4, <2>1, <2>2 DEF LastClickedAtBatch
    <2>4. w[i].phase \in {"tick", "final"} /\ \A b \in Buckets : w[i].snap[b] = counts[b]
        BY <1>0, <2>3 DEF InOrder
    <2>5. w[i].snap = counts
        <3>1. w[i].snap \in [Buckets -> Nat] /\ counts \in [Buckets -> Nat]
            BY <1>0 DEF Locals, Facts, TypeOK
        <3> QED BY <2>4, <3>1
    <2>6. CASE w[i].snap = Zeros
        <3>1. \A b \in Buckets : counts[b] = 0 /\ daily[b] = 0
            BY <2>4, <2>6, SavedIsCounted DEF Zeros
        <3>2. daily \in [Buckets -> Nat] /\ counts \in [Buckets -> Nat]
            BY DEF Facts, TypeOK
        <3>3. Saved
            BY <3>1, <3>2 DEF Saved
        <3> QED BY <1>0, <1>1, <2>3, <2>4, <2>6, <3>3, WriterReturns
    <2>7. CASE w[i].snap # Zeros
        <3>1. r.pc = "merge" /\ r.phase = w[i].phase /\ r.snap = w[i].snap
            BY <1>0, <2>2 DEF Locals
        <3>2. InOrder(r)'
            BY <1>1, <2>3, <2>4, <2>5, <3>1 DEF InOrder
        <3> QED BY <1>0, <2>3, <2>7, <3>2, WriterMoves
    <2> QED BY <2>6, <2>7
<1>5. ~CaptureFailed(i)
    BY <1>0 DEF CaptureFailed, InOrder
<1>6. CASE MergeSnapshot(i)
    <2>1. PICK s : s = w[i].snap
        OBVIOUS
    <2>2. w[i].pc = "merge" /\ UNCHANGED counts
        BY <1>6, Zenon DEF MergeSnapshot
    <2>3. s = counts /\ w[i].phase \in {"tick", "final"}
        BY <1>0, <2>1, <2>2 DEF InOrder
    <2>4. PICK values : values = [b \in Buckets |-> IF s[b] > 0 THEN Max2(daily[b], s[b]) ELSE 0]
        OBVIOUS
    <2>5. PICK r : /\ Become(i, r) /\ daily' = Committed(s)
                   /\ r.pc = "hmax" /\ r.conn /\ r.snap = values /\ r.phase = w[i].phase
        <3> DEFINE calls == HmaxCalls(s) \cup (w[i].todo \cap {<<"cad", b>> : b \in {x \in Buckets : s[x] > 0}})
                   h == [w[i] EXCEPT !.pc = "hmax", !.conn = TRUE, !.snap = values, !.snapLast = NoTimes, !.todo = calls]
        <3>1. Become(i, h) /\ daily' = Committed(s)
            BY <1>6, <2>1, <2>4, Zenon DEF MergeSnapshot, CommitMerge
        <3> HIDE DEF calls
        <3>2. h.pc = "hmax" /\ h.conn /\ h.snap = values /\ h.phase = w[i].phase
            BY <1>0 DEF Locals
        <3> HIDE DEF h
        <3> QED BY <3>1, <3>2
    <2>6. \A b \in Buckets : Max2(daily[b], s[b]) = counts[b]
        BY <2>3, SavedIsCounted DEF Max2
    <2>7. daily' = counts
        <3>1. counts \in [Buckets -> Nat]
            BY DEF Facts, TypeOK
        <3>2. \A b \in Buckets : HasRow(b)
            BY EveryCodeHasRow DEF Facts
        <3> QED BY <2>5, <2>6, <3>1, <3>2 DEF Committed
    <2>8. \A b \in Buckets : values[b] <= counts[b]
        BY <2>4, <2>6, SavedIsCounted
    <2>9. InOrder(r)'
        BY <1>1, <2>2, <2>3, <2>5, <2>7, <2>8 DEF InOrder, Saved
    <2> QED BY <1>0, <2>5, <2>9, WriterMoves
<1>7. CASE HmaxDone(i)
    <2>1. w[i].pc = "hmax" /\ UNCHANGED <<counts, daily, group>>
        BY <1>7 DEF HmaxDone
    <2>2. Saved /\ w[i].phase \in {"start", "tick", "final"}
        BY <1>0, <2>1 DEF InOrder
    <2> QED BY <1>0, <1>1, <1>7, <2>1, <2>2, WriterReturns DEF HmaxDone
<1> QED BY <1>3, <1>4, <1>5, <1>6, <1>7

(* Taking, giving back and leaving the lock; everything around the writer. *)
LEMMA IdleIsOrderly ==
    ASSUME Facts, NEW i \in Instances, Acquire(i) \/ Pause(i) \/ Restart(i) \/ Release(i) \/ Shutdown(i)
    PROVE  Orderly'
<1>0. w \in [Instances -> Locals] /\ w[i] \in Locals /\ Orderly
    BY DEF Facts, TypeOK, WorkersOK
<1>1. UNCHANGED <<counts, daily, group>>
    BY DEF Acquire, Pause, Restart, Release, Shutdown, streamVars, statsVars, dbVars
<1>2. ASSUME NEW r, Become(i, r), InOrder(r)', lock' = NoInstance => Saved
      PROVE  Orderly'
    <2>1. ASSUME NEW j \in Instances PROVE InOrder(w[j])'
        <3>1. CASE j = i
            <4>1. w'[j] = r
                BY <1>0, <1>2, <3>1 DEF Become
            <4> QED BY <1>2, <4>1 DEF InOrder, Saved
        <3>2. CASE j # i
            <4>1. w'[j] = w[j] /\ InOrder(w[j])
                BY <1>0, <1>2, <3>2 DEF Become, Orderly
            <4> QED BY <1>1, <4>1 DEF InOrder, Saved
        <3> QED BY <3>1, <3>2
    <2> QED BY <1>1, <1>2, <2>1 DEF Orderly, Saved
<1>3. InOrder(w[i]) /\ (lock = NoInstance => Saved)
    BY <1>0 DEF Orderly
<1>4. \A l : LET r == [Idle EXCEPT !.pc = l, !.shut = w[i].shut] IN r.pc = l /\ r.phase = "start"
    BY DEF Idle
<1> USE NoFailures DEF At
<1>5. CASE Acquire(i)
    <2>1. ASSUME NEW l \in {"ensure", "pause"}, Goto(i, l), l = "ensure" => lock = NoInstance,
                 lock' = NoInstance => lock = NoInstance, w[i].pc = "acquire"
          PROVE  Orderly'
        <3>1. PICK r : r = [w[i] EXCEPT !.pc = l]
            OBVIOUS
        <3>2. r.pc = l /\ r.phase = "start"
            BY <1>0, <1>3, <2>1, <3>1 DEF Locals, InOrder
        <3>3. InOrder(r)'
            BY <1>1, <1>3, <2>1, <3>2 DEF InOrder, Saved, IdlePCs
        <3> QED BY <1>2, <1>3, <2>1, <3>1, <3>3 DEF Goto
    <2>2. i # NoInstance
        BY DEF ConstantsAssumption
    <2> QED BY <1>5, <2>1, <2>2 DEF Acquire, TryAcquire
<1>6. CASE Pause(i) \/ Restart(i)
    <2>1. PICK r : Become(i, r) /\ r.pc \in {"down", "acquire"} /\ r.phase = "start"
        <3>1. CASE Pause(i)
            BY <1>4, <3>1 DEF Pause, Return
        <3>2. CASE Restart(i)
            BY <3>2 DEF Restart, Idle
        <3> QED BY <1>6, <3>1, <3>2
    <2>2. InOrder(r)'
        BY <2>1 DEF InOrder, IdlePCs
    <2>3. lock' = lock
        BY <1>6 DEF Pause, Restart, dbVars
    <2> QED BY <1>2, <1>3, <2>1, <2>2, <2>3
<1>7. CASE Release(i)
    <2>1. w[i].pc = "release" /\ Saved /\ Return(i, "pause")
        BY <1>3, <1>7 DEF Release, InOrder
    <2>2. PICK r : r = [Idle EXCEPT !.pc = "pause", !.shut = w[i].shut]
        OBVIOUS
    <2>3. r.pc = "pause"
        BY <1>4, <2>2
    <2>4. InOrder(r)'
        BY <2>3 DEF InOrder, IdlePCs
    <2> QED BY <1>2, <2>1, <2>2, <2>4 DEF Return
<1>8. CASE Shutdown(i)
    <2>1. PICK r : r = [w[i] EXCEPT !.shut = TRUE]
        OBVIOUS
    <2>2. /\ r.pc = w[i].pc /\ r.phase = w[i].phase /\ r.conn = w[i].conn
          /\ r.unread = w[i].unread /\ r.snap = w[i].snap
        BY <1>0, <2>1 DEF Locals
    <2>3. InOrder(r)'
        BY <1>1, <1>3, <2>2 DEF InOrder, Saved
    <2> QED BY <1>2, <1>3, <1>8, <2>1, <2>3 DEF Shutdown, dbVars
<1> QED BY <1>5, <1>6, <1>7, <1>8

LEMMA OrderlyStep == Facts /\ [Next]_vars => Orderly'
<1> SUFFICES ASSUME Facts, [Next]_vars PROVE Orderly'
    OBVIOUS
<1> USE NoFailures
<1>1. ASSUME UNCHANGED <<counts, daily, lock, w>>, group' = group PROVE Orderly'
    BY <1>1 DEF Facts, Orderly, InOrder, Saved
<1>2. CASE OrphanedRead \/ SendClickEvent \/ NextDay \/ UNCHANGED vars
    BY <1>1, <1>2 DEF OrphanedRead, Deliver, SendClickEvent, NextDay, vars, streamVars, statsVars, dbVars
<1>3. ASSUME NEW i \in Instances, Advance(i) \/ Tick(i) \/ ReadStream(i) \/ Shutdown(i) \/ Crash(i) \/ Restart(i)
      PROVE  Orderly'
    <2>1. CASE EnsureConsumerGroup(i) \/ LoadDailyClicks(i) \/ DrainPendingBatch(i) \/ Hmax(i) \/ CompareAndDelete(i)
        BY <2>1, StartIsOrderly
    <2>2. CASE ConnectForBatch(i) \/ ProcessEntry(i) \/ BatchDone(i) \/ StopLoop(i) \/ Tick(i) \/ ReadStream(i)
        BY <2>2, LoopIsOrderly
    <2>3. CASE \/ CaptureDailyCounts(i) \/ LastClickedAtBatch(i) \/ CaptureFailed(i) \/ MergeSnapshot(i)
              \/ HmaxDone(i)
        BY <2>3, FlushIsOrderly
    <2>4. CASE Acquire(i) \/ Pause(i) \/ Restart(i) \/ Release(i) \/ Shutdown(i)
        BY <2>4, IdleIsOrderly
    <2>5. ~Crash(i)
        BY DEF Crash
    <2> QED BY <1>3, <2>1, <2>2, <2>3, <2>4, <2>5 DEF Advance
<1>4. ~LoseLock /\ ~RedisCrash /\ \A c \in Codes : ~DeleteLink(c) /\ ~CreateLink(c)
    BY DEF LoseLock, RedisCrash, DeleteLink, CreateLink, Facts, AllLinked
<1> QED BY <1>2, <1>3, <1>4 DEF Next

(* As long as instances are only ever shut down, each at any point of its  *)
(* work, everything counted is in Postgres whenever no instance is at      *)
(* work: the loop's final flush and the rehydration before it miss         *)
(* nothing.                                                                *)
THEOREM HandoverIsClean == OnlyShutdowns => (Spec => []CleanHandover)
<1> SUFFICES ASSUME OnlyShutdowns PROVE Spec => []CleanHandover
    OBVIOUS
<1>1. NoRedisLoss /\ NoLockLoss /\ LinksStay
    BY DEF OnlyShutdowns, NoRedisLoss, NoLockLoss, LinksStay
<1>2. Init => Orderly
    BY DEF Init, Orderly, InOrder, Saved, Idle, IdlePCs
<1>3. Orderly => CleanHandover
    BY DEF Orderly, CleanHandover, Saved
<1>4. Spec => []TypeOK
    BY TypeCorrect
<1>5. Spec => []ExactCount
    BY <1>1, CountedExactly
<1>6. Spec => []SingleWriter
    BY <1>1, OneWriter
<1>7. TypeOK /\ TypeOK' /\ SingleWriter /\ Bounded /\ ExactCount /\ AllLinked /\ Orderly /\ [Next]_vars => Orderly'
    BY OrderlyStep DEF Facts
<1>9. Spec => []AllLinked
    BY <1>1, LinksAllStay
<1>8. Spec => []Bounded
    <2>1. TypeOK /\ TypeOK' /\ Bounded /\ [Next]_vars => Bounded'
        BY BoundedStep
    <2> QED BY <1>4, <2>1, InitBounded, PTL DEF Spec
<1> QED BY <1>2, <1>3, <1>4, <1>5, <1>6, <1>7, <1>8, <1>9, PTL DEF Spec

-----------------------------------------------------------------------------
(* Commands to Redis do not fail while it runs; it may restart empty.      *)
NoRedisErrors == "redis_err" \notin FaultKinds

Missing(b) == b[2] >= WindowStart /\ ~(daily[b] <= counts[b])

(* As long as the group of the writer lives, its hashes have what Postgres *)
(* has of the window, but for the calls its rehydration has still to make. *)
Restored(r) ==
    /\ r.pc \in {"acquire", "ensure", "load"} => r.phase = "start"
    /\ r.pc \in {"capture", "merge"} => r.phase \in {"tick", "final"}
    /\ group =>
        /\ r.pc = "hmax" /\ r.phase = "start" =>
            r.conn /\ \A b \in Buckets : Missing(b) => <<"hmax", b>> \in r.todo /\ r.snap[b] = daily[b]
        /\ (r.pc = "hmax" /\ r.phase # "start") \/ r.pc \in {"drain", "process", "loop", "connect", "capture", "merge"}
            => \A b \in Buckets : ~Missing(b)
        /\ r.pc \in {"capture", "merge"} => \A b \in Buckets : r.snap[b] <= counts[b]

Rehydrated == \A i \in Instances : Restored(w[i])

Alone == NoLockLoss /\ NoRedisErrors /\ TypeOK /\ TypeOK' /\ SingleWriter /\ Rehydrated

(* The one writer moves on, and everybody else waits.                      *)
LEMMA AloneMoves ==
    ASSUME Alone, NEW i \in Instances, Work(i), NEW r, Become(i, r), Restored(r)'
    PROVE  Rehydrated'
<1>0. WorkersOK /\ w[i].pc \notin IdlePCs
    BY WorkIsOnesOwn DEF Alone, TypeOK
<1>1. \A j \in Instances \ {i} : w[j].pc \in IdlePCs
    BY <1>0 DEF Alone, SingleWriter, IdlePCs
<1>2. w'[i] = r /\ \A j \in Instances \ {i} : w'[j] = w[j]
    BY <1>0, BecomeSnaps
<1>3. ASSUME NEW j \in Instances PROVE Restored(w[j])'
    <2>1. CASE j = i
        BY <1>2, <2>1 DEF Restored, Missing, WindowStart
    <2>2. CASE j # i
        <3>1. w'[j] = w[j] /\ w[j].pc \in IdlePCs /\ Restored(w[j])
            BY <1>1, <1>2, <2>2 DEF Alone, Rehydrated
        <3> QED BY <3>1 DEF Restored, IdlePCs
    <2> QED BY <2>1, <2>2
<1> QED BY <1>3 DEF Rehydrated

(* Ways to move on with hashes that lack nothing.                          *)
LEMMA AloneReturns ==
    ASSUME Alone, NEW i \in Instances, Work(i), UNCHANGED <<counts, group>>,
           group => \A b \in Buckets : ~Missing(b)'
    PROVE  /\ \A l \in {"loop", "release"} : Return(i, l) => Rehydrated'
           /\ AfterFlush(i) => Rehydrated'
           /\ BackToDrain(i) => Rehydrated'
           /\ Goto(i, "release") => Rehydrated'
           /\ \A f \in {"tick", "final"} : FlushStart(i, f) => Rehydrated'
           /\ DrainDone(i) \/ DrainFailed(i) => Rehydrated'
<1>0. w[i] \in Locals
    BY DEF Alone, TypeOK, WorkersOK
<1>1. ASSUME NEW r, Become(i, r), r.pc \in {"loop", "release", "drain"} PROVE Rehydrated'
    <2>1. Restored(r)'
        BY <1>1 DEF Restored
    <2> QED BY <1>1, <2>1, AloneMoves
<1>2. ASSUME NEW l \in {"loop", "release"}, Return(i, l) PROVE Rehydrated'
    <2>1. [Idle EXCEPT !.pc = l, !.shut = w[i].shut].pc = l
        BY DEF Idle
    <2> QED BY <1>1, <1>2, <2>1 DEF Return
<1>3. BackToDrain(i) => Rehydrated'
    <2>1. [Idle EXCEPT !.pc = "drain", !.phase = w[i].phase, !.shut = w[i].shut].pc = "drain"
        BY DEF Idle
    <2> QED BY <1>1, <2>1 DEF BackToDrain
<1>4. Goto(i, "release") => Rehydrated'
    <2>1. [w[i] EXCEPT !.pc = "release"].pc = "release"
        BY <1>0 DEF Locals
    <2> QED BY <1>1, <2>1 DEF Goto
<1>5. ASSUME NEW f \in {"tick", "final"}, FlushStart(i, f) PROVE Rehydrated'
    <2>1. PICK r : r = [w[i] EXCEPT !.pc = "capture", !.phase = f, !.conn = TRUE, !.unread = Keys, !.snap = Zeros,
                                    !.snapLast = NoTimes, !.batch = {}, !.todo = {<<"cad", b>> : b \in StaleBuckets}]
        OBVIOUS
    <2>2. r.pc = "capture" /\ r.phase = f /\ r.snap = Zeros
        BY <1>0, <2>1 DEF Locals
    <2>3. \A b \in Buckets : Zeros[b] <= counts'[b]
        BY DEF Zeros, Alone, TypeOK
    <2>4. Restored(r)'
        BY <2>2, <2>3 DEF Restored
    <2> QED BY <1>5, <2>1, <2>4, AloneMoves DEF FlushStart
<1> QED BY <1>2, <1>3, <1>4, <1>5 DEF AfterFlush, DrainDone, DrainFailed

(* The start of a writer: what a rehydration has not restored yet it has   *)
(* still to do.                                                            *)
LEMMA StartRehydrates ==
    ASSUME Alone, NEW i \in Instances,
           EnsureConsumerGroup(i) \/ LoadDailyClicks(i) \/ Hmax(i) \/ CompareAndDelete(i) \/ HmaxDone(i)
    PROVE  Rehydrated'
<1>0. w[i] \in Locals /\ Work(i) /\ Restored(w[i])
    BY DEF Alone, TypeOK, WorkersOK, Work, Rehydrated
<1>n. ~Fault("redis_err")
    BY DEF Alone, NoRedisErrors, Fault
<1> USE DEF At, statsVars, dbVars, streamVars, envVars
<1>1. CASE EnsureConsumerGroup(i)
    <2>1. w[i].pc = "ensure" /\ Goto(i, "load")
        BY <1>1, <1>n DEF EnsureConsumerGroup
    <2>2. PICK r : r = [w[i] EXCEPT !.pc = "load"]
        OBVIOUS
    <2>3. r.pc = "load" /\ r.phase = "start"
        BY <1>0, <2>1, <2>2 DEF Locals, Restored
    <2>4. Restored(r)'
        BY <2>3 DEF Restored
    <2> QED BY <1>0, <2>1, <2>2, <2>4, AloneMoves DEF Goto
<1>2. CASE LoadDailyClicks(i)
    <2>1. PICK rows : rows = RehydrationRows
        OBVIOUS
    <2>2. PICK r : r = [w[i] EXCEPT !.pc = "hmax", !.conn = TRUE, !.snap = rows, !.todo = HmaxCalls(rows)]
        OBVIOUS
    <2>3. UNCHANGED <<counts, daily, group, today>> /\ w[i].pc = "load"
        BY <1>2 DEF LoadDailyClicks
    <2>4. CASE Become(i, r)
        <3>1. r.pc = "hmax" /\ r.conn /\ r.snap = rows /\ r.phase = "start" /\ r.todo = HmaxCalls(rows)
            BY <1>0, <2>2, <2>3 DEF Locals, Restored
        <3>2. ASSUME NEW b \in Buckets, Missing(b) PROVE <<"hmax", b>> \in r.todo /\ r.snap[b] = daily[b]
            <4>1. daily[b] \in Nat /\ counts[b] \in Nat
                BY DEF Alone, TypeOK
            <4>2. rows[b] = daily[b] /\ rows[b] > 0
                BY <2>1, <3>2, <4>1 DEF RehydrationRows, Missing
            <4> QED BY <3>1, <4>2 DEF HmaxCalls
        <3>3. \A b : Missing(b)' <=> Missing(b)
            BY <2>3 DEF Missing, WindowStart
        <3>4. Restored(r)'
            BY <2>3, <3>1, <3>2, <3>3 DEF Restored
        <3> QED BY <1>0, <2>4, <3>4, AloneMoves
    <2>5. CASE Goto(i, "release")
        <3>1. PICK s : s = [w[i] EXCEPT !.pc = "release"]
            OBVIOUS
        <3>2. s.pc = "release"
            BY <1>0, <3>1 DEF Locals
        <3>3. Restored(s)'
            BY <3>2 DEF Restored
        <3> QED BY <1>0, <2>5, <3>1, <3>3, AloneMoves DEF Goto
    <2> QED BY <1>2, <2>1, <2>2, <2>4, <2>5 DEF LoadDailyClicks
<1>3. CASE Hmax(i) \/ CompareAndDelete(i)
    <2>1. PICK call \in Upcoming(i) :
            \/ call[1] = "hmax" /\ w[i].conn /\ HMAX_SCRIPT(call[2], w[i].snap[call[2]])
               /\ Become(i, [w[i] EXCEPT !.todo = @ \ {call}])
            \/ call[1] = "hmax" /\ ~w[i].conn /\ UNCHANGED counts
               /\ Become(i, [w[i] EXCEPT !.todo = @ \ {call, <<"cad", call[2]>>}])
            \/ call[1] = "cad" /\ UNCHANGED counts /\ Become(i, [w[i] EXCEPT !.todo = @ \ {call}])
        <3>1. CASE Hmax(i)
            BY <1>n, <3>1, Zenon DEF Hmax
        <3>2. CASE CompareAndDelete(i)
            BY <3>2, Zenon DEF CompareAndDelete, COMPARE_AND_DELETE_SCRIPT
        <3> QED BY <1>3, <3>1, <3>2
    <2>2. UNCHANGED <<daily, group, today>> /\ w[i].pc = "hmax"
        BY <1>3, Zenon DEF Hmax, CompareAndDelete
    <2>3. call[2] \in Buckets /\ counts \in [Buckets -> Nat] /\ w[i].snap \in [Buckets -> Nat] /\ call = <<call[1], call[2]>>
        <3>1. call \in {"hmax", "cad"} \X Buckets
            BY <1>0 DEF Upcoming, Locals, Calls
        <3>2. counts \in [Buckets -> Nat] /\ w[i].snap \in [Buckets -> Nat]
            BY <1>0 DEF Locals, Alone, TypeOK
        <3> QED BY <3>1, <3>2
    <2>4. \A b \in Buckets : counts[b] <= counts'[b]
        BY <2>1, <2>3 DEF HMAX_SCRIPT, Max2
    <2>5. \A b \in Buckets : Missing(b)' => Missing(b)
        <3>1. \A b \in Buckets : daily[b] \in Nat /\ counts[b] \in Nat /\ counts'[b] \in Nat
            BY DEF Alone, TypeOK
        <3> QED BY <2>2, <2>4, <3>1 DEF Missing, WindowStart
    <2>6. PICK T : /\ Become(i, [w[i] EXCEPT !.todo = @ \ T]) /\ call \in T
                   /\ \A x \in T : x = call \/ (~w[i].conn /\ call[1] = "hmax")
        <3>1. CASE Become(i, [w[i] EXCEPT !.todo = @ \ {call}])
            <4> WITNESS {call}
            <4> QED BY <3>1
        <3>2. CASE ~w[i].conn /\ call[1] = "hmax" /\ Become(i, [w[i] EXCEPT !.todo = @ \ {call, <<"cad", call[2]>>}])
            <4> WITNESS {call, <<"cad", call[2]>>}
            <4> QED BY <3>2
        <3> QED BY <2>1, <3>1, <3>2
    <2>7. PICK r : r = [w[i] EXCEPT !.todo = @ \ T]
        OBVIOUS
    <2>8. r.pc = "hmax" /\ r.conn = w[i].conn /\ r.snap = w[i].snap /\ r.phase = w[i].phase /\ r.todo = w[i].todo \ T
        BY <1>0, <2>2, <2>7 DEF Locals
    <2>9. ASSUME group, w[i].phase = "start", NEW b \in Buckets, Missing(b)'
          PROVE  r.conn /\ <<"hmax", b>> \in r.todo /\ r.snap[b] = daily[b]
        <3>1. w[i].conn /\ <<"hmax", b>> \in w[i].todo /\ w[i].snap[b] = daily[b]
            BY <1>0, <2>2, <2>5, <2>9 DEF Restored
        <3>2. <<"hmax", b>> # call
            <4>1. SUFFICES ASSUME call[1] = "hmax", call[2] = b PROVE FALSE
                BY <2>3
            <4>2. counts'[b] = Max2(counts[b], daily[b]) /\ daily[b] \in Nat /\ counts[b] \in Nat
                BY <2>1, <2>3, <3>1, <4>1 DEF HMAX_SCRIPT, Alone, TypeOK
            <4> QED BY <2>2, <2>9, <4>2 DEF Missing, Max2
        <3> QED BY <2>6, <2>8, <3>1, <3>2
    <2>10. group /\ w[i].phase = "start" => r.conn
        BY <1>0, <2>2, <2>8 DEF Restored
    <2>11. group /\ w[i].phase # "start" => \A b \in Buckets : ~Missing(b)'
        BY <1>0, <2>2, <2>5 DEF Restored
    <2>12. Restored(r)'
        BY <2>2, <2>8, <2>9, <2>10, <2>11 DEF Restored
    <2> QED BY <1>0, <2>6, <2>7, <2>12, AloneMoves
<1>4. CASE HmaxDone(i)
    <2>1. /\ UNCHANGED <<counts, group, daily, today>> /\ w[i].pc = "hmax" /\ w[i].todo = {}
          /\ BackToDrain(i) \/ AfterFlush(i)
        BY <1>4 DEF HmaxDone
    <2>2. group => \A b \in Buckets : ~Missing(b)
        BY <1>0, <2>1 DEF Restored
    <2>3. group => \A b \in Buckets : ~Missing(b)'
        BY <2>1, <2>2 DEF Missing, WindowStart
    <2> QED BY <1>0, <2>1, <2>3, AloneReturns
<1> QED BY <1>1, <1>2, <1>3, <1>4

(* The loop, with hashes that only grow.                                   *)
LEMMA LoopKeepsRehydrated ==
    ASSUME Alone, NEW i \in Instances,
           \/ ConnectForBatch(i) \/ ProcessEntry(i) \/ BatchDone(i) \/ DrainPendingBatch(i)
           \/ StopLoop(i) \/ Tick(i) \/ ReadStream(i)
    PROVE  Rehydrated'
<1>0. w[i] \in Locals /\ Work(i) /\ Restored(w[i])
    BY DEF Alone, TypeOK, WorkersOK, Work, Rehydrated
<1>n. ~Fault("redis_err")
    BY DEF Alone, NoRedisErrors, Fault
<1> USE DEF At, statsVars, dbVars, streamVars, envVars
<1>1. /\ w[i].pc \in {"connect", "process", "loop", "drain"} /\ UNCHANGED <<group, daily, today>>
      /\ \A b \in Buckets : counts[b] <= counts'[b] /\ (ProcessEntry(i) \/ UNCHANGED counts)
    <2>1. CASE ProcessEntry(i)
        <3>1. w[i].pc = "process" /\ UNCHANGED <<group, daily, today>>
            BY <2>1 DEF ProcessEntry
        <3>2. ASSUME NEW b \in Buckets PROVE counts[b] <= counts'[b]
            <4>1. counts[b] \in Nat
                BY DEF Alone, TypeOK
            <4>2. PICK e : \/ IF log[e].code = Malformed THEN DropClickEvent(e) ELSE RecordClickEvent(e)
                           \/ UNCHANGED counts
                BY <2>1 DEF ProcessEntry
            <4>3. UNCHANGED counts \/ counts' = [x \in Buckets |-> counts[x] + IF x \in EventBuckets(e) THEN 1 ELSE 0]
                BY <4>2 DEF DropClickEvent, RecordClickEvent, RECORD_CLICK, CountClick
            <4> QED BY <4>1, <4>3
        <3> QED BY <2>1, <3>1, <3>2
    <2>2. CASE ~ProcessEntry(i)
        <3>1. /\ w[i].pc \in {"connect", "process", "loop", "drain"} /\ UNCHANGED <<group, daily, today, counts>>
            BY <2>2 DEF ConnectForBatch, BatchDone, DrainPendingBatch, StopLoop, Tick, ReadStream, Deliver
        <3> QED BY <3>1 DEF Alone, TypeOK
    <2> QED BY <2>1, <2>2
<1>2. group => \A b \in Buckets : ~Missing(b) /\ ~Missing(b)'
    <2>1. \A b \in Buckets : daily[b] \in Nat /\ counts[b] \in Nat /\ counts'[b] \in Nat
        BY DEF Alone, TypeOK
    <2>2. group => \A b \in Buckets : ~Missing(b)
        BY <1>0, <1>1 DEF Restored
    <2> QED BY <1>1, <2>1, <2>2 DEF Missing, WindowStart
<1>m. ASSUME NEW r, Become(i, r), r.pc \in {"connect", "process", "drain"} PROVE Rehydrated'
    <2>1. Restored(r)'
        BY <1>1, <1>2, <1>m DEF Restored
    <2> QED BY <1>0, <1>m, <2>1, AloneMoves
<1>3. CASE ConnectForBatch(i)
    <2>1. PICK r : r = [w[i] EXCEPT !.pc = "process", !.conn = TRUE]
        OBVIOUS
    <2>2. r.pc = "process"
        BY <1>0, <2>1 DEF Locals
    <2> QED BY <1>3, <1>m, <1>n, <2>1, <2>2 DEF ConnectForBatch
<1>4. CASE ProcessEntry(i)
    <2>1. PICK e : Become(i, [w[i] EXCEPT !.batch = @ \ {e}])
        BY <1>4 DEF ProcessEntry
    <2>2. PICK r : r = [w[i] EXCEPT !.batch = @ \ {e}]
        OBVIOUS
    <2>3. r.pc = "process"
        BY <1>0, <1>4, <2>2 DEF ProcessEntry, Locals
    <2> QED BY <1>m, <2>1, <2>2, <2>3
<1>5. CASE BatchDone(i)
    BY <1>0, <1>2, <1>5, AloneReturns DEF BatchDone
<1>6. CASE DrainPendingBatch(i)
    <2>1. PICK r : r = [w[i] EXCEPT !.pc = "process", !.conn = TRUE, !.batch = Oldest(pel, BatchSize)]
        OBVIOUS
    <2>2. r.pc = "process"
        BY <1>0, <2>1 DEF Locals
    <2>3. (DrainDone(i) \/ DrainFailed(i) \/ Become(i, r)) /\ UNCHANGED <<counts, group>>
        BY <1>6, <2>1 DEF DrainPendingBatch
    <2> QED BY <1>0, <1>2, <1>m, <2>2, <2>3, AloneReturns
<1>7. CASE StopLoop(i)
    BY <1>0, <1>2, <1>7, AloneReturns DEF StopLoop
<1>8. CASE Tick(i)
    <2>1. PICK r : r = [w[i] EXCEPT !.pc = "drain", !.phase = "tick"]
        OBVIOUS
    <2>2. r.pc = "drain"
        BY <1>0, <2>1 DEF Locals
    <2> QED BY <1>8, <1>m, <2>1, <2>2 DEF Tick
<1>9. CASE ReadStream(i)
    <2>1. PICK r : r = [w[i] EXCEPT !.pc = "connect", !.phase = "read", !.batch = Oldest(NewEntries, BatchSize)]
        OBVIOUS
    <2>2. r.pc = "connect"
        BY <1>0, <2>1 DEF Locals
    <2> QED BY <1>9, <1>m, <2>1, <2>2 DEF ReadStream
<1> QED BY <1>3, <1>4, <1>5, <1>6, <1>7, <1>8, <1>9

(* A flush writes no more to Postgres than the hashes hold.                *)
LEMMA FlushKeepsRehydrated ==
    ASSUME Alone, NEW i \in Instances,
           CaptureDailyCounts(i) \/ LastClickedAtBatch(i) \/ CaptureFailed(i) \/ MergeSnapshot(i)
    PROVE  Rehydrated'
<1>0. w[i] \in Locals /\ Work(i) /\ Restored(w[i])
    BY DEF Alone, TypeOK, WorkersOK, Work, Rehydrated
<1>n. ~Fault("redis_err")
    BY DEF Alone, NoRedisErrors, Fault
<1> USE DEF At, statsVars, dbVars, streamVars, envVars
<1>1. w[i].pc \in {"capture", "merge"} /\ UNCHANGED <<counts, group, today>>
    BY Zenon DEF CaptureDailyCounts, LastClickedAtBatch, CaptureFailed, MergeSnapshot
<1>2. /\ w[i].phase \in {"tick", "final"}
      /\ group => \A b \in Buckets : ~Missing(b) /\ w[i].snap[b] <= counts[b]
    BY <1>0, <1>1 DEF Restored
<1>3. \A b \in Buckets : counts[b] \in Nat /\ daily[b] \in Nat /\ w[i].snap[b] \in Nat
    BY <1>0 DEF Alone, TypeOK, Locals
<1>4. ASSUME UNCHANGED daily PROVE group => \A b \in Buckets : ~Missing(b)'
    BY <1>1, <1>2, <1>4 DEF Missing, WindowStart
<1>5. CASE CaptureDailyCounts(i)
    <2>1. PICK k : Become(i, [w[i] EXCEPT !.unread = @ \ {k},
                                          !.snap = [b \in Buckets |-> IF b[1] = k THEN counts[b] ELSE w[i].snap[b]]])
        BY <1>5, CaptureReadsHash
    <2>2. PICK s : s = [b \in Buckets |-> IF b[1] = k THEN counts[b] ELSE w[i].snap[b]]
        OBVIOUS
    <2>3. PICK r : r = [w[i] EXCEPT !.unread = @ \ {k}, !.snap = s]
        OBVIOUS
    <2>4. w[i].pc = "capture" /\ UNCHANGED daily
        BY <1>5 DEF CaptureDailyCounts
    <2>5. r.pc = "capture" /\ r.phase = w[i].phase /\ r.snap = s
        BY <1>0, <2>3, <2>4 DEF Locals
    <2>6. group => \A b \in Buckets : s[b] <= counts[b]
        BY <1>2, <1>3, <2>2
    <2>7. Restored(r)'
        BY <1>1, <1>2, <1>4, <2>4, <2>5, <2>6 DEF Restored
    <2> QED BY <1>0, <2>1, <2>2, <2>3, <2>7, AloneMoves
<1>6. CASE LastClickedAtBatch(i)
    <2> DEFINE hasBucket(c) == \E d \in Days : w[i].snap[<<c, d>>] > 0
    <2>1. PICK last : last = [c \in Codes |-> IF hasBucket(c) THEN lastAt[c] ELSE Absent]
        OBVIOUS
    <2>2. PICK r : r = [w[i] EXCEPT !.pc = "merge", !.snapLast = last]
        OBVIOUS
    <2>3. (AfterFlush(i) \/ Become(i, r)) /\ UNCHANGED daily
        BY <1>6, <2>1, <2>2 DEF LastClickedAtBatch
    <2>4. r.pc = "merge" /\ r.phase = w[i].phase /\ r.snap = w[i].snap
        BY <1>0, <2>2 DEF Locals
    <2>5. Restored(r)'
        BY <1>1, <1>2, <1>4, <2>3, <2>4 DEF Restored
    <2> QED BY <1>0, <1>1, <1>4, <2>3, <2>5, AloneMoves, AloneReturns
<1>7. CASE CaptureFailed(i)
    <2>1. AfterFlush(i) /\ UNCHANGED daily
        BY <1>7 DEF CaptureFailed
    <2> QED BY <1>0, <1>1, <1>4, <2>1, AloneReturns
<1>8. CASE MergeSnapshot(i)
    <2>1. PICK s : s = w[i].snap
        OBVIOUS
    <2>2. PICK values : values = [b \in Buckets |-> IF s[b] > 0 THEN Max2(daily[b], s[b]) ELSE 0]
        OBVIOUS
    <2>3. PICK calls : calls = HmaxCalls(s) \cup (w[i].todo \cap {<<"cad", b>> : b \in {x \in Buckets : s[x] > 0}})
        OBVIOUS
    <2>4. PICK r : r = [w[i] EXCEPT !.pc = "hmax", !.conn = TRUE, !.snap = values, !.snapLast = NoTimes, !.todo = calls]
        OBVIOUS
    <2>5. (daily' = Committed(s) \/ UNCHANGED daily) /\ (Become(i, r) \/ AfterFlush(i))
        BY <1>8, <2>1, <2>2, <2>3, <2>4, Zenon DEF MergeSnapshot, CommitMerge
    <2>6. group => \A b \in Buckets : ~Missing(b)'
        <3>1. CASE UNCHANGED daily
            BY <1>4, <3>1
        <3>2. CASE daily' = Committed(s)
            <4>1. \A b \in Buckets : daily'[b] = Max2(daily[b], s[b]) \/ daily'[b] = daily[b]
                BY <3>2 DEF Committed
            <4> QED BY <1>1, <1>2, <1>3, <2>1, <4>1 DEF Missing, Max2, WindowStart
        <3> QED BY <2>5, <3>1, <3>2
    <2>7. r.pc = "hmax" /\ r.phase = w[i].phase
        BY <1>0, <2>4 DEF Locals
    <2>8. Restored(r)'
        BY <1>1, <1>2, <2>6, <2>7 DEF Restored
    <2> QED BY <1>0, <1>1, <2>5, <2>6, <2>8, AloneMoves, AloneReturns
<1> QED BY <1>5, <1>6, <1>7, <1>8

(* Instances that are not at work, and what happens around the writer.     *)
LEMMA OthersKeepRehydrated ==
    ASSUME Alone, NEW i \in Instances,
           Acquire(i) \/ Pause(i) \/ Restart(i) \/ Release(i) \/ Shutdown(i) \/ Crash(i)
    PROVE  Rehydrated'
<1>0. w \in [Instances -> Locals] /\ w[i] \in Locals /\ Restored(w[i])
    BY DEF Alone, TypeOK, WorkersOK, Rehydrated
<1>1. UNCHANGED <<counts, daily, group, today>>
    BY DEF Acquire, Pause, Restart, Release, Shutdown, Crash, streamVars, statsVars, dbVars, envVars
<1>2. ASSUME NEW r PROVE Restored(r) => Restored(r)'
    <2>1. \A b : Missing(b)' <=> Missing(b)
        BY <1>1 DEF Missing, WindowStart
    <2> QED BY <1>1, <2>1 DEF Restored
<1>3. ASSUME NEW r, Become(i, r), Restored(r) PROVE Rehydrated'
    <2>1. ASSUME NEW j \in Instances PROVE Restored(w[j])'
        <3>1. PICK x : x = w'[j]
            OBVIOUS
        <3>2. Restored(x)
            BY <1>0, <1>3, <3>1 DEF Become, Alone, Rehydrated
        <3>3. Restored(x)'
            BY <1>2, <3>2
        <3> QED BY <3>1, <3>3 DEF Restored, Missing, WindowStart
    <2> QED BY <2>1 DEF Rehydrated
<1>4. \A l : LET r == [Idle EXCEPT !.pc = l, !.shut = w[i].shut] IN r.pc = l /\ r.phase = "start"
    BY DEF Idle
<1> USE DEF At
<1>5. CASE Acquire(i)
    <2>1. ASSUME NEW l \in {"ensure", "pause"}, Goto(i, l), w[i].pc = "acquire" PROVE Rehydrated'
        <3>1. PICK r : r = [w[i] EXCEPT !.pc = l]
            OBVIOUS
        <3>2. r.pc = l /\ r.phase = "start"
            BY <1>0, <2>1, <3>1 DEF Locals, Restored
        <3>3. Restored(r)
            BY <2>1, <3>2 DEF Restored
        <3> QED BY <1>3, <2>1, <3>1, <3>3 DEF Goto
    <2> QED BY <1>5, <2>1 DEF Acquire
<1>6. CASE Pause(i) \/ Restart(i) \/ Release(i) \/ Crash(i)
    <2>1. PICK r : Become(i, r) /\ r.pc \in {"down", "acquire", "pause"} /\ r.phase = "start"
        <3>1. CASE Pause(i) \/ Release(i)
            BY <1>4, <3>1 DEF Pause, Release, Return
        <3>2. CASE Restart(i) \/ Crash(i)
            BY <3>2 DEF Restart, Crash, Idle
        <3> QED BY <1>6, <3>1, <3>2
    <2>2. Restored(r)
        BY <2>1 DEF Restored
    <2> QED BY <1>3, <2>1, <2>2
<1>7. CASE Shutdown(i)
    <2>1. PICK r : r = [w[i] EXCEPT !.shut = TRUE]
        OBVIOUS
    <2>2. /\ r.pc = w[i].pc /\ r.phase = w[i].phase /\ r.conn = w[i].conn
          /\ r.todo = w[i].todo /\ r.snap = w[i].snap
        BY <1>0, <2>1 DEF Locals
    <2>3. Restored(r)
        BY <1>0, <2>2 DEF Restored
    <2> QED BY <1>3, <1>7, <2>1, <2>3 DEF Shutdown
<1> QED BY <1>5, <1>6, <1>7

LEMMA RehydratedStep == Alone /\ [Next]_vars => Rehydrated'
<1> SUFFICES ASSUME Alone, [Next]_vars PROVE Rehydrated'
    OBVIOUS
<1>1. ASSUME UNCHANGED <<counts, daily, group, w>>, today <= today' PROVE Rehydrated'
    <2>1. \A b \in Buckets : Missing(b)' => Missing(b)
        <3>1. today \in Int /\ today' \in Int /\ \A b \in Buckets : b[2] \in Int
            BY DEF Alone, TypeOK, Days, Buckets
        <3> QED BY <1>1, <3>1 DEF Missing, WindowStart
    <2> QED BY <1>1, <2>1 DEF Alone, Rehydrated, Restored
<1>2. CASE OrphanedRead \/ SendClickEvent \/ LoseLock \/ UNCHANGED vars
    <2>1. UNCHANGED <<counts, daily, group, w, today>>
        BY <1>2 DEF OrphanedRead, Deliver, SendClickEvent, LoseLock, vars, streamVars, statsVars, dbVars, envVars
    <2> QED BY <1>1, <2>1 DEF Alone, TypeOK, Days
<1>3. CASE NextDay
    <2>1. UNCHANGED <<counts, daily, group, w>> /\ today <= today'
        BY <1>3 DEF NextDay, streamVars, statsVars, dbVars, Alone, TypeOK, Days
    <2> QED BY <1>1, <2>1
<1>4. CASE RedisCrash
    <2>1. ~group' /\ \A i \in Instances : w'[i].pc = w[i].pc /\ w'[i].phase = w[i].phase
        <3>1. \A i \in Instances : w[i] \in Locals
            BY DEF Alone, TypeOK, WorkersOK
        <3>2. \A r \in Locals : [r EXCEPT !.conn = FALSE].pc = r.pc /\ [r EXCEPT !.conn = FALSE].phase = r.phase
            BY DEF Locals
        <3> QED BY <1>4, <3>1, <3>2 DEF RedisCrash
    <2> QED BY <2>1 DEF Alone, Rehydrated, Restored
<1>5. ASSUME NEW i \in Instances, Advance(i) \/ Tick(i) \/ ReadStream(i) \/ Shutdown(i) \/ Crash(i) \/ Restart(i)
      PROVE  Rehydrated'
    BY <1>5, StartRehydrates, LoopKeepsRehydrated, FlushKeepsRehydrated, OthersKeepRehydrated DEF Advance
<1>6. ASSUME NEW c \in Codes, DeleteLink(c) PROVE Rehydrated'
    <2>1. UNCHANGED <<counts, group, today, w>> /\ daily' = [b \in Buckets |-> IF b[1] = c THEN 0 ELSE daily[b]]
        BY <1>6 DEF DeleteLink, streamVars, statsVars, envVars
    <2>2. ASSUME NEW b \in Buckets, Missing(b)' PROVE Missing(b) /\ daily'[b] = daily[b]
        <3>1. counts[b] \in Nat
            BY DEF Alone, TypeOK
        <3> QED BY <2>1, <2>2, <3>1 DEF Missing, WindowStart
    <2> QED BY <2>1, <2>2 DEF Alone, Rehydrated, Restored
<1>7. ASSUME NEW c \in Codes, CreateLink(c) PROVE Rehydrated'
    <2>1. UNCHANGED <<counts, daily, group, w, today>>
        BY <1>7 DEF CreateLink, streamVars, statsVars, envVars
    <2> QED BY <1>1, <2>1 DEF Alone, TypeOK, Days
<1> QED BY <1>2, <1>3, <1>4, <1>5, <1>6, <1>7 DEF Next

(* A click that leaves the stream is counted on top of what Postgres has   *)
(* of its day, however often Redis restarted empty and whichever process   *)
(* died meanwhile, if the lock session lives and no single command fails.  *)
THEOREM CountsStartFromPostgres ==
    NoLockLoss /\ NoRedisErrors => (Spec => RehydratedBeforeCounting)
<1> SUFFICES ASSUME NoLockLoss, NoRedisErrors PROVE Spec => RehydratedBeforeCounting
    OBVIOUS
<1> DEFINE P == \A e \in pel : e \notin stream' /\ group' =>
                  \A b \in EventBuckets(e) : b \in Buckets /\ b[2] >= WindowStart => counts[b] >= daily[b]
<1>1. Init => Rehydrated
    BY DEF Init, Rehydrated, Restored, Idle
<1>2. TypeOK /\ TypeOK' /\ SingleWriter /\ Rehydrated /\ [Next]_vars => Rehydrated'
    BY RehydratedStep DEF Alone
<1>3. ASSUME TypeOK, Rehydrated, [Next]_vars, NEW e \in pel, e \notin stream', group',
             NEW b \in Buckets, b[2] >= WindowStart
      PROVE  counts[b] >= daily[b]
    <2>1. ~UNCHANGED stream
        BY <1>3 DEF TypeOK
    <2>2. PICK i \in Instances : ProcessEntry(i)
        <3>1. ASSUME NEW i \in Instances,
                     \/ Acquire(i) \/ Release(i) \/ Pause(i) \/ EnsureConsumerGroup(i) \/ LoadDailyClicks(i)
                     \/ ConnectForBatch(i) \/ BatchDone(i) \/ DrainPendingBatch(i) \/ StopLoop(i) \/ Tick(i)
              PROVE  UNCHANGED stream
            BY <3>1 DEF Acquire, Release, Pause, EnsureConsumerGroup, LoadDailyClicks, ConnectForBatch, BatchDone,
                        DrainPendingBatch, StopLoop, Tick, streamVars
        <3>2. ASSUME NEW i \in Instances,
                     \/ CaptureDailyCounts(i) \/ LastClickedAtBatch(i) \/ CaptureFailed(i) \/ MergeSnapshot(i)
                     \/ Hmax(i) \/ CompareAndDelete(i) \/ HmaxDone(i) \/ Shutdown(i) \/ Crash(i) \/ Restart(i)
              PROVE  UNCHANGED stream
            BY <3>2, Zenon DEF CaptureDailyCounts, LastClickedAtBatch, CaptureFailed, MergeSnapshot, Hmax,
                        CompareAndDelete, HmaxDone, Shutdown, Crash, Restart, streamVars
        <3>3. ASSUME NEW i \in Instances, ReadStream(i) PROVE UNCHANGED stream
            BY <3>3 DEF ReadStream, Deliver
        <3>4. ASSUME OrphanedRead \/ NextDay \/ LoseLock \/ UNCHANGED vars PROVE UNCHANGED stream
            BY <3>4 DEF OrphanedRead, Deliver, NextDay, LoseLock, vars, streamVars
        <3>7. ASSUME NEW c \in Codes, DeleteLink(c) \/ CreateLink(c) PROVE UNCHANGED stream
            BY <3>7 DEF DeleteLink, CreateLink, streamVars
        <3>5. ~RedisCrash
            BY <1>3 DEF RedisCrash
        <3>6. ~SendClickEvent
            BY <1>3 DEF SendClickEvent, TypeOK
        <3> QED BY <1>3, <2>1, <3>1, <3>2, <3>3, <3>4, <3>5, <3>6, <3>7 DEF Next, Advance
    <2>3. group /\ w[i].pc = "process"
        BY <1>3, <2>2 DEF ProcessEntry, At
    <2>4. ~Missing(b)
        BY <1>3, <2>3 DEF Rehydrated, Restored
    <2>5. daily[b] \in Nat /\ counts[b] \in Nat
        BY <1>3 DEF TypeOK
    <2> QED BY <1>3, <2>4, <2>5 DEF Missing
<1>4. TypeOK /\ Rehydrated /\ [Next]_vars => [P]_vars
    BY <1>3
<1> HIDE DEF P
<1>5. RehydratedBeforeCounting <=> [][P]_vars
    BY DEF RehydratedBeforeCounting, P
<1>6. Spec => []SingleWriter
    BY OneWriter
<1>7. Spec => []TypeOK
    BY TypeCorrect
<1> QED BY <1>1, <1>2, <1>4, <1>5, <1>6, <1>7, PTL DEF Spec

-----------------------------------------------------------------------------
(* The day of all links covers the days of the links.  Single snapshots    *)
(* need not lie below one another, nor do their maxima with the tables;    *)
(* but each lies below what Redis had when it read the global hash, and    *)
(* these moments come one after the other.                                 *)
Vectors == [Codes -> Nat]
Total(h) == SumFunctionOnSet(h, Codes)
CountsOn(d) == [c \in Codes |-> counts[<<c, d>>]]

AtMost(g, h) == \A c \in Codes : g[c] <= h[c]
Chain(C) == \A g, h \in C : AtMost(g, h) \/ AtMost(h, g)

(* Moment h of C explains the values m of day d.                           *)
Explains(h, m, d) == (\A c \in Codes : m[<<c, d>>] <= h[c]) /\ Total(h) <= m[<<Global, d>>]
Covered(m, d, C) == \E h \in C : Explains(h, m, d)

ReadGlobal(r) == r.pc = "merge" \/ (r.pc = "capture" /\ Global \notin r.unread)
GlobalLast(r) == r.pc = "capture" => r.unread = {} \/ Global \in r.unread

Moments(d, C) ==
    /\ C \in SUBSET Vectors /\ Chain(C)
    /\ \A h \in C, c \in Codes : h[c] <= counts[<<c, d>>]
    /\ Covered(daily, d, C)
    /\ \A i \in Instances : ReadGlobal(w[i]) => Covered(w[i].snap, d, C)

Totalled == \A d \in Days : Total(CountsOn(d)) <= counts[<<Global, d>>]
InOrderRead == \A i \in Instances : GlobalLast(w[i])
Momentary == \A d \in Days : \E C : Moments(d, C)

LEMMA VectorsSum == \A h \in Vectors : Summable(h, Codes) /\ Total(h) \in Nat
BY LinksAreFinite, SumIsNat DEF Vectors, Summable, Total

(* The larger of two moments explains the maximum of what they explain.    *)
LEMMA MaximaAreCovered ==
    ASSUME NEW C \in SUBSET Vectors, Chain(C), NEW d \in Days, TypeOK, NEW s \in [Buckets -> Nat],
           Covered(daily, d, C), Covered(s, d, C)
    PROVE  Covered(Committed(s), d, C)
<1>1. PICK g \in C : Explains(g, daily, d)
    BY DEF Covered
<1>2. PICK h \in C : Explains(h, s, d)
    BY DEF Covered
<1>3. PICK top \in {g, h} : AtMost(g, top) /\ AtMost(h, top)
    <2>1. AtMost(g, h) \/ AtMost(h, g)
        BY DEF Chain
    <2>2. AtMost(g, g) /\ AtMost(h, h)
        BY DEF AtMost, Vectors
    <2> QED BY <2>1, <2>2
<1>4. Total(top) \in Nat /\ top \in C
    BY VectorsSum
<1>5. \A b \in Buckets : /\ daily[b] \in Nat /\ s[b] \in Nat
                         /\ Committed(s)[b] = IF HasRow(b) THEN Max2(daily[b], s[b]) ELSE daily[b]
    BY DEF TypeOK, Committed
<1>6. \A c \in Codes : <<c, d>> \in Buckets
    BY DEF Buckets, Keys
<1>7. <<Global, d>> \in Buckets
    BY DEF Buckets, Keys
<1>8. Total(top) <= Committed(s)[<<Global, d>>]
    <2>1. Total(top) <= daily[<<Global, d>>] \/ Total(top) <= s[<<Global, d>>]
        BY <1>1, <1>2, <1>3 DEF Explains
    <2>2. HasRow(<<Global, d>>)
        BY DEF HasRow
    <2> QED BY <1>4, <1>5, <1>7, <2>1, <2>2 DEF Max2
<1>9. ASSUME NEW c \in Codes
      PROVE  Committed(s)[<<c, d>>] <= top[c]
    <2>1. g[c] \in Nat /\ h[c] \in Nat /\ top[c] \in Nat
        BY <1>4 DEF Vectors
    <2>2. daily[<<c, d>>] <= g[c] /\ s[<<c, d>>] <= h[c] /\ g[c] <= top[c] /\ h[c] <= top[c]
        BY <1>1, <1>2, <1>3 DEF Explains, AtMost
    <2> QED BY <1>5, <1>6, <2>1, <2>2 DEF Max2
<1> QED BY <1>4, <1>8, <1>9 DEF Covered, Explains

LEMMA CoversLinks ==
    ASSUME TypeOK, Momentary
    PROVE  GlobalCoversLinks
<1> SUFFICES ASSUME NEW d \in Days
             PROVE  SumFunctionOnSet([c \in Codes |-> daily[<<c, d>>]], Codes) <= daily[<<Global, d>>]
    BY DEF GlobalCoversLinks
<1> DEFINE shown == [c \in Codes |-> daily[<<c, d>>]]
<1>1. PICK h \in Vectors : Explains(h, daily, d)
    BY DEF Momentary, Moments, Covered
<1>2. shown \in Vectors /\ daily[<<Global, d>>] \in Nat
    BY DEF TypeOK, Vectors, Buckets, Keys
<1>3. \A c \in Codes : shown[c] <= h[c]
    BY <1>1 DEF Explains
<1> HIDE DEF shown
<1>4. Total(shown) <= Total(h) /\ Total(shown) \in Nat /\ Total(h) \in Nat
    BY <1>1, <1>2, <1>3, VectorsSum, SumIsMonotone DEF Total
<1>5. Total(h) <= daily[<<Global, d>>]
    BY <1>1 DEF Explains
<1>6. Total(shown) <= daily[<<Global, d>>]
    BY <1>2, <1>4, <1>5
<1> QED BY <1>6 DEF Total, shown

(* A snapshot that is complete was so before, unchanged, or has just read  *)
(* the global hash.                                                        *)
Stays(r, s) ==
    /\ ReadGlobal(s) => ReadGlobal(r) /\ s.snap = r.snap
    /\ GlobalLast(r) => GlobalLast(s)
SnapshotsStay == \A j \in Instances : Stays(w[j], w'[j])

LEMMA BecomeStays ==
    ASSUME WorkersOK, NEW i \in Instances, NEW r, Become(i, r), Stays(w[i], r)
    PROVE  SnapshotsStay
<1>1. w'[i] = r /\ \A j \in Instances \ {i} : w'[j] = w[j]
    BY BecomeSnaps
<1> QED BY <1>1 DEF SnapshotsStay, Stays

LEMMA MoveStays ==
    ASSUME WorkersOK, NEW i \in Instances
    PROVE  /\ \A l \in PCs \ {"capture", "merge"} : Goto(i, l) \/ Return(i, l) => SnapshotsStay
           /\ BackToDrain(i) => SnapshotsStay
           /\ \A f \in {"tick", "final"} : FlushStart(i, f) => SnapshotsStay
           /\ AfterFlush(i) => SnapshotsStay
           /\ DrainDone(i) => SnapshotsStay
           /\ DrainFailed(i) => SnapshotsStay
<1>0. w[i] \in Locals
    BY DEF WorkersOK
<1>1. ASSUME NEW r, Become(i, r), r.pc \notin {"capture", "merge"} PROVE SnapshotsStay
    BY <1>1, BecomeStays DEF Stays, ReadGlobal, GlobalLast
<1>2. \A l : [w[i] EXCEPT !.pc = l].pc = l /\ [Idle EXCEPT !.pc = l, !.shut = w[i].shut].pc = l
    BY <1>0 DEF Locals, Idle
<1>3. [Idle EXCEPT !.pc = "drain", !.phase = w[i].phase, !.shut = w[i].shut].pc = "drain"
    BY DEF Idle
<1>4. ASSUME NEW l, l \notin {"capture", "merge"}, Goto(i, l) \/ Return(i, l) PROVE SnapshotsStay
    BY <1>1, <1>2, <1>4 DEF Goto, Return
<1>5. BackToDrain(i) => SnapshotsStay
    BY <1>1, <1>3 DEF BackToDrain
<1>6. ASSUME NEW f \in {"tick", "final"}, FlushStart(i, f) PROVE SnapshotsStay
    <2> DEFINE calls == {<<"cad", b>> : b \in StaleBuckets}
               r == [w[i] EXCEPT !.pc = "capture", !.phase = f, !.conn = TRUE, !.unread = Keys, !.snap = Zeros,
                                 !.snapLast = NoTimes, !.batch = {}, !.todo = calls]
    <2> HIDE DEF calls
    <2>1. r.pc = "capture" /\ Global \in r.unread
        BY <1>0 DEF Locals, Keys
    <2> HIDE DEF r
    <2>2. Stays(w[i], r)
        BY <2>1 DEF Stays, ReadGlobal, GlobalLast
    <2> QED BY <1>6, <2>2, BecomeStays DEF FlushStart, r, calls
<1> QED BY <1>4, <1>5, <1>6 DEF AfterFlush, DrainDone, DrainFailed

(* Redis' HGETALL of the global hash, the last of its snapshot.            *)
ReadsGlobal(i) ==
    /\ UNCHANGED <<counts, daily>>
    /\ w[i].pc = "capture"
    /\ \A c \in Codes, d \in Days : w'[i].snap[<<c, d>>] = w[i].snap[<<c, d>>]
    /\ \A d \in Days : w'[i].snap[<<Global, d>>] = counts[<<Global, d>>]
    /\ GlobalLast(w'[i]) /\ \A j \in Instances \ {i} : w'[j] = w[j]

LEMMA CaptureReads ==
    ASSUME TypeOK, InOrderRead, NEW i \in Instances, CaptureDailyCounts(i)
    PROVE  SnapshotsStay \/ ReadsGlobal(i)
<1>0. /\ WorkersOK /\ w[i] \in Locals /\ w[i].pc = "capture"
      /\ w[i].unread = {} \/ Global \in w[i].unread
      /\ UNCHANGED <<counts, daily>>
    BY Zenon DEF TypeOK, WorkersOK, InOrderRead, GlobalLast, CaptureDailyCounts, At, statsVars, dbVars
<1>1. PICK k \in NextHash(i) :
        Become(i, [w[i] EXCEPT !.unread = @ \ {k},
                               !.snap = [b \in Buckets |-> IF b[1] = k THEN counts[b] ELSE w[i].snap[b]]])
    BY Zenon DEF CaptureDailyCounts
<1> DEFINE s == [b \in Buckets |-> IF b[1] = k THEN counts[b] ELSE w[i].snap[b]]
           r == [w[i] EXCEPT !.unread = @ \ {k}, !.snap = s]
<1>2. r.pc = "capture" /\ r.unread = w[i].unread \ {k} /\ r.snap = s
    <2> HIDE DEF s
    <2> QED BY <1>0 DEF Locals
<1>3. Become(i, r)
    BY <1>1
<1> HIDE DEF r
<1>4. w'[i] = r /\ \A j \in Instances \ {i} : w'[j] = w[j]
    BY <1>0, <1>3, BecomeSnaps
<1>5. CASE k = Global
    <2>1. \A c \in Codes, d \in Days : <<c, d>> \in Buckets /\ c # Global /\ s[<<c, d>>] = w[i].snap[<<c, d>>]
        BY <1>5 DEF Buckets, Keys
    <2>2. \A d \in Days : <<Global, d>> \in Buckets /\ s[<<Global, d>>] = counts[<<Global, d>>]
        BY <1>5 DEF Buckets, Keys
    <2>3. w[i].unread = {Global}
        BY <1>5 DEF NextHash
    <2>4. GlobalLast(r)
        BY <1>2, <1>5, <2>3 DEF GlobalLast
    <2> HIDE DEF s
    <2> QED BY <1>0, <1>2, <1>4, <2>1, <2>2, <2>4 DEF ReadsGlobal
<1>6. CASE k # Global
    <2>1. Global \in w[i].unread
        BY <1>0, <1>6 DEF NextHash
    <2>2. ~ReadGlobal(r) /\ GlobalLast(r)
        BY <1>2, <1>6, <2>1 DEF ReadGlobal, GlobalLast
    <2> QED BY <1>0, <1>3, <2>2, BecomeStays DEF Stays
<1> QED BY <1>5, <1>6

LEMMA StepStays ==
    ASSUME TypeOK, InOrderRead, [Next]_vars
    PROVE  SnapshotsStay \/ \E i \in Instances : ReadsGlobal(i)
<1>0. WorkersOK /\ w \in [Instances -> Locals]
    BY DEF TypeOK, WorkersOK
<1> USE DEF At, PCs
<1>1. ASSUME NEW i \in Instances,
             \/ Acquire(i) \/ Release(i) \/ Pause(i) \/ EnsureConsumerGroup(i) \/ BatchDone(i)
             \/ StopLoop(i) \/ CaptureFailed(i) \/ HmaxDone(i)
      PROVE  SnapshotsStay
    BY <1>0, <1>1, MoveStays DEF Acquire, Release, Pause, EnsureConsumerGroup, BatchDone, StopLoop, CaptureFailed, HmaxDone
<1>2. ASSUME NEW i \in Instances, NEW r, Become(i, r), r.pc \notin {"capture", "merge"}
      PROVE  SnapshotsStay
    BY <1>0, <1>2, BecomeStays DEF Stays, ReadGlobal, GlobalLast
<1>3. ASSUME NEW i \in Instances, LoadDailyClicks(i)
      PROVE  SnapshotsStay
    <2>1. PICK rows, calls : \/ Become(i, [w[i] EXCEPT !.pc = "hmax", !.conn = TRUE, !.snap = rows, !.todo = calls])
                             \/ Goto(i, "release")
        BY <1>3, Zenon DEF LoadDailyClicks
    <2>2. [w[i] EXCEPT !.pc = "hmax", !.conn = TRUE, !.snap = rows, !.todo = calls].pc = "hmax"
        BY <1>0 DEF Locals
    <2> QED BY <1>0, <1>2, <2>1, <2>2, MoveStays
<1>4. ASSUME NEW i \in Instances, ConnectForBatch(i)
      PROVE  SnapshotsStay
    <2>1. [w[i] EXCEPT !.pc = "process", !.conn = TRUE].pc = "process"
        BY <1>0 DEF Locals
    <2> QED BY <1>0, <1>2, <1>4, <2>1, MoveStays DEF ConnectForBatch
<1>5. ASSUME NEW i \in Instances, ProcessEntry(i)
      PROVE  SnapshotsStay
    <2>1. PICK rest : w[i].pc = "process" /\ Become(i, [w[i] EXCEPT !.batch = rest])
        BY <1>5, Zenon DEF ProcessEntry
    <2>2. [w[i] EXCEPT !.batch = rest].pc = "process"
        BY <1>0, <2>1 DEF Locals
    <2> QED BY <1>2, <2>1, <2>2
<1>6. ASSUME NEW i \in Instances, DrainPendingBatch(i)
      PROVE  SnapshotsStay
    <2>1. PICK old : \/ DrainDone(i) \/ DrainFailed(i)
                     \/ Become(i, [w[i] EXCEPT !.pc = "process", !.conn = TRUE, !.batch = old])
        BY <1>6, Zenon DEF DrainPendingBatch
    <2>2. [w[i] EXCEPT !.pc = "process", !.conn = TRUE, !.batch = old].pc = "process"
        BY <1>0 DEF Locals
    <2> QED BY <1>0, <1>2, <2>1, <2>2, MoveStays
<1>7. ASSUME NEW i \in Instances, LastClickedAtBatch(i)
      PROVE  SnapshotsStay
    <2>1. PICK last : /\ w[i].pc = "capture" /\ w[i].unread = {}
                      /\ AfterFlush(i) \/ Become(i, [w[i] EXCEPT !.pc = "merge", !.snapLast = last])
        BY <1>7, Zenon DEF LastClickedAtBatch
    <2>2. PICK r : r = [w[i] EXCEPT !.pc = "merge", !.snapLast = last]
        OBVIOUS
    <2>3. r.pc = "merge" /\ r.snap = w[i].snap
        BY <1>0, <2>2 DEF Locals
    <2>4. Stays(w[i], r)
        BY <2>1, <2>3 DEF Stays, ReadGlobal, GlobalLast
    <2> QED BY <1>0, <2>1, <2>2, <2>4, BecomeStays, MoveStays
<1>8. ASSUME NEW i \in Instances, MergeSnapshot(i)
      PROVE  SnapshotsStay
    <2>1. PICK values, calls :
            \/ AfterFlush(i)
            \/ Become(i, [w[i] EXCEPT !.pc = "hmax", !.conn = TRUE, !.snap = values, !.snapLast = NoTimes, !.todo = calls])
        BY <1>8, Zenon DEF MergeSnapshot
    <2>2. [w[i] EXCEPT !.pc = "hmax", !.conn = TRUE, !.snap = values, !.snapLast = NoTimes, !.todo = calls].pc = "hmax"
        BY <1>0 DEF Locals
    <2> QED BY <1>0, <1>2, <2>1, <2>2, MoveStays
<1>9. ASSUME NEW i \in Instances, Hmax(i) \/ CompareAndDelete(i)
      PROVE  SnapshotsStay
    <2>1. PICK calls : w[i].pc = "hmax" /\ Become(i, [w[i] EXCEPT !.todo = calls])
        BY <1>9, Zenon DEF Hmax, CompareAndDelete
    <2>2. [w[i] EXCEPT !.todo = calls].pc = "hmax"
        BY <1>0, <2>1 DEF Locals
    <2> QED BY <1>2, <2>1, <2>2
<1>10. ASSUME NEW i \in Instances, Tick(i) \/ ReadStream(i)
       PROVE  SnapshotsStay
    <2>1. PICK r : Become(i, r) /\ r.pc \in {"drain", "connect"}
        <3>1. \A old : /\ [w[i] EXCEPT !.pc = "drain", !.phase = "tick"].pc = "drain"
                       /\ [w[i] EXCEPT !.pc = "connect", !.phase = "read", !.batch = old].pc = "connect"
            BY <1>0 DEF Locals
        <3> QED BY <1>10, <3>1 DEF Tick, ReadStream
    <2> QED BY <1>2, <2>1
<1>11. ASSUME NEW i \in Instances, Shutdown(i) \/ Crash(i) \/ Restart(i)
       PROVE  SnapshotsStay
    <2>1. PICK r : Become(i, r) /\ (r.pc \in {"acquire", "down"} \/ r = [w[i] EXCEPT !.shut = TRUE])
        BY <1>11 DEF Shutdown, Crash, Restart, Idle
    <2>2. CASE r = [w[i] EXCEPT !.shut = TRUE]
        <3>1. r.pc = w[i].pc /\ r.snap = w[i].snap /\ r.unread = w[i].unread
            BY <1>0, <2>2 DEF Locals
        <3> QED BY <1>0, <2>1, <3>1, BecomeStays DEF Stays, ReadGlobal, GlobalLast
    <2> QED BY <1>2, <2>1, <2>2
<1>12. CASE OrphanedRead \/ SendClickEvent \/ NextDay \/ LoseLock \/ UNCHANGED vars
    <2>1. UNCHANGED w
        BY <1>12 DEF OrphanedRead, SendClickEvent, NextDay, LoseLock, vars
    <2> QED BY <2>1 DEF SnapshotsStay, Stays
<1>13. CASE RedisCrash
    <2>1. \A r \in Locals : /\ [r EXCEPT !.conn = FALSE].pc = r.pc /\ [r EXCEPT !.conn = FALSE].snap = r.snap
                            /\ [r EXCEPT !.conn = FALSE].unread = r.unread
        BY DEF Locals
    <2>2. \A j \in Instances : w'[j].pc = w[j].pc /\ w'[j].snap = w[j].snap /\ w'[j].unread = w[j].unread
        BY <1>0, <1>13, <2>1 DEF RedisCrash
    <2> QED BY <2>2 DEF SnapshotsStay, Stays, ReadGlobal, GlobalLast
<1>14. ASSUME NEW c \in Codes, DeleteLink(c) \/ CreateLink(c)
       PROVE  SnapshotsStay
    <2>1. UNCHANGED w
        BY <1>14 DEF DeleteLink, CreateLink
    <2> QED BY <2>1 DEF SnapshotsStay, Stays
<1> QED BY <1>1, <1>3, <1>4, <1>5, <1>6, <1>7, <1>8, <1>9, <1>10, <1>11, <1>12, <1>13, <1>14, CaptureReads DEF Next, Advance

(* Postgres' days change in merges and with the deletion of a link.        *)
Emptied(c) == [b \in Buckets |-> IF b[1] = c THEN 0 ELSE daily[b]]

LEMMA OnlyMergesSave ==
    ASSUME [Next]_vars
    PROVE  \/ UNCHANGED daily
           \/ \E i \in Instances : w[i].pc = "merge" /\ daily' = Committed(w[i].snap)
           \/ \E c \in Codes : daily' = Emptied(c)
<1> USE DEF streamVars, statsVars, dbVars, envVars
<1>1. ASSUME NEW i \in Instances,
             \/ Acquire(i) \/ Release(i) \/ Pause(i) \/ EnsureConsumerGroup(i) \/ LoadDailyClicks(i)
             \/ ConnectForBatch(i) \/ ProcessEntry(i) \/ BatchDone(i) \/ DrainPendingBatch(i) \/ StopLoop(i)
      PROVE  UNCHANGED daily
    BY <1>1, Zenon DEF Acquire, Release, Pause, EnsureConsumerGroup, LoadDailyClicks, ConnectForBatch, ProcessEntry,
                       BatchDone, DrainPendingBatch, StopLoop
<1>2. ASSUME NEW i \in Instances,
             \/ CaptureDailyCounts(i) \/ LastClickedAtBatch(i) \/ CaptureFailed(i) \/ Hmax(i) \/ CompareAndDelete(i)
             \/ HmaxDone(i) \/ Tick(i) \/ ReadStream(i) \/ Shutdown(i) \/ Crash(i) \/ Restart(i)
      PROVE  UNCHANGED daily
    BY <1>2, Zenon DEF CaptureDailyCounts, LastClickedAtBatch, CaptureFailed, Hmax, CompareAndDelete, HmaxDone,
                       Tick, ReadStream, Shutdown, Crash, Restart
<1>3. ASSUME NEW i \in Instances, MergeSnapshot(i)
      PROVE  w[i].pc = "merge" /\ (UNCHANGED daily \/ daily' = Committed(w[i].snap))
    BY <1>3, Zenon DEF MergeSnapshot, At, CommitMerge
<1>4. CASE OrphanedRead \/ SendClickEvent \/ NextDay \/ LoseLock \/ RedisCrash \/ UNCHANGED vars
    BY <1>4 DEF OrphanedRead, SendClickEvent, NextDay, LoseLock, RedisCrash, vars
<1>5. ASSUME NEW c \in Codes, DeleteLink(c) \/ CreateLink(c)
      PROVE  UNCHANGED daily \/ daily' = Emptied(c)
    BY <1>5 DEF DeleteLink, CreateLink, Emptied
<1> QED BY <1>1, <1>2, <1>3, <1>4, <1>5 DEF Next, Advance

(* What a step makes of the counters while Redis keeps its data.           *)
Precise == TypeOK /\ Bounded /\ ExactCount
Counted(e) ==
    /\ log[e].code \in Codes /\ log[e].at \in Days
    /\ \A b \in Buckets : counts'[b] = counts[b] + IF b \in EventBuckets(e) THEN 1 ELSE 0

LEMMA CountsMove ==
    ASSUME NoRedisLoss, Precise, Precise', [Next]_vars
    PROVE  (\A b \in Buckets : counts'[b] = counts[b]) \/ \E e \in stream : Counted(e)
<1>0. Kind /\ ~Losing
    BY StepKind DEF NoRedisLoss, Losing, Precise
<1>1. \A b \in Buckets : counts[b] = Handled(b) /\ counts'[b] = Handled(b)'
    BY DEF Precise, ExactCount
<1>2. CASE Copying
    BY <1>1, <1>2, HandledStep DEF Copying, Precise
<1>3. CASE Sending
    BY <1>3 DEF Sending, Quiet
<1>4. ASSUME NEW e \in stream, Dropping(e)
      PROVE  \A b \in Buckets : counts'[b] = counts[b]
    BY <1>4 DEF Dropping, Quiet
<1>5. ASSUME NEW e \in stream, log[e].code # Malformed, Counting(e)
      PROVE  Counted(e)
    <2>1. log[e] \in Events
        BY DEF Precise, TypeOK
    <2> QED BY <1>5, <2>1 DEF Counted, Counting, Events
<1>6. ASSUME NEW c \in Codes, Unlinking(c)
      PROVE  \A b \in Buckets : counts'[b] = counts[b]
    BY <1>6 DEF Unlinking, Quiet
<1> QED BY <1>0, <1>2, <1>3, <1>4, <1>5, <1>6 DEF Kind

LEMMA OneClickMore ==
    ASSUME NEW f \in Vectors, NEW k \in Codes, NEW g \in Vectors,
           \A c \in Codes : g[c] = f[c] + IF c = k THEN 1 ELSE 0
    PROVE  Total(g) = Total(f) + 1
<1> DEFINE hit == [c \in Codes |-> IF c = k THEN 1 ELSE 0]
<1>1. hit \in Vectors /\ hit[k] = 1 /\ \A c \in Codes \ {k} : hit[c] = 0
    BY DEF Vectors
<1>2. \A c \in Codes : g[c] = f[c] + hit[c]
    OBVIOUS
<1> HIDE DEF hit
<1>3. Total(hit) = SumFunctionOnSet(hit, {k})
    BY <1>1, VectorsSum, SumOfPart DEF Total
<1>4. SumFunctionOnSet(hit, {} \cup {k}) = SumFunctionOnSet(hit, {}) + hit[k]
    <2>1. IsFiniteSet({} \cup {k})
        BY FS_EmptySet, FS_AddElement
    <2>2. Summable(hit, {} \cup {k})
        BY <1>1, <2>1 DEF Summable
    <2>3. k \notin {}
        OBVIOUS
    <2> QED BY <2>2, <2>3, SumWith, Zenon
<1>5. Total(hit) = 1
    <2>1. {} \cup {k} = {k}
        OBVIOUS
    <2> QED BY <1>1, <1>3, <1>4, <2>1, SumOfNone
<1> QED BY <1>1, <1>2, <1>5, VectorsSum, SumOfPlus DEF Total

(* A click counts for its link and for the day of all links at once.       *)
LEMMA TotalledStep ==
    ASSUME NoRedisLoss, Precise, Precise', Totalled, [Next]_vars
    PROVE  Totalled'
<1> SUFFICES ASSUME NEW d \in Days PROVE (Total(CountsOn(d)) <= counts[<<Global, d>>])'
    BY DEF Totalled
<1>0. \A k \in Keys : <<k, d>> \in Buckets
    BY DEF Buckets
<1>1. /\ CountsOn(d) \in Vectors /\ CountsOn(d)' \in Vectors
      /\ counts[<<Global, d>>] \in Nat /\ counts'[<<Global, d>>] \in Nat
    BY <1>0 DEF Precise, TypeOK, CountsOn, Vectors, Keys
<1>2. Total(CountsOn(d)) <= counts[<<Global, d>>] /\ Total(CountsOn(d)) \in Nat
    BY <1>1, VectorsSum DEF Totalled
<1>3. CASE \A k \in Keys : counts'[<<k, d>>] = counts[<<k, d>>]
    <2>1. CountsOn(d)' = CountsOn(d)
        BY <1>3 DEF CountsOn, Keys
    <2> QED BY <1>2, <1>3, <2>1 DEF Keys, Total
<1>4. ASSUME NEW e \in stream, Counted(e), log[e].at = d
      PROVE  (Total(CountsOn(d)) <= counts[<<Global, d>>])'
    <2>1. \A k \in Keys : <<k, d>> \in EventBuckets(e) <=> k = Global \/ k = log[e].code
        BY <1>4 DEF EventBuckets
    <2>2. counts'[<<Global, d>>] = counts[<<Global, d>>] + 1
        BY <1>0, <1>4, <2>1 DEF Counted, Keys
    <2>3. \A c \in Codes : counts'[<<c, d>>] = counts[<<c, d>>] + IF c = log[e].code THEN 1 ELSE 0
        BY <1>0, <1>4, <2>1 DEF Counted, Keys
    <2>4. \A c \in Codes : CountsOn(d)'[c] = CountsOn(d)[c] + IF c = log[e].code THEN 1 ELSE 0
        BY <2>3 DEF CountsOn
    <2>5. Total(CountsOn(d)') = Total(CountsOn(d)) + 1
        BY <1>1, <1>4, <2>4, OneClickMore DEF Counted
    <2> QED BY <1>1, <1>2, <2>2, <2>5 DEF Total
<1>5. ASSUME NEW e \in stream, Counted(e), log[e].at # d
      PROVE  \A k \in Keys : counts'[<<k, d>>] = counts[<<k, d>>]
    <2>1. \A k \in Keys : <<k, d>> \notin EventBuckets(e)
        BY <1>5 DEF EventBuckets
    <2> QED BY <1>0, <1>5, <2>1 DEF Counted, Precise, TypeOK
<1> QED BY <1>0, <1>3, <1>4, <1>5, CountsMove

LEMMA MomentaryStep ==
    ASSUME NoRedisLoss, Precise, Precise', Totalled, InOrderRead, Momentary, [Next]_vars
    PROVE  Momentary'
<1> SUFFICES ASSUME NEW d \in Days PROVE (\E C : Moments(d, C))'
    BY DEF Momentary
<1>0. \A k \in Keys : <<k, d>> \in Buckets
    BY DEF Buckets
<1>1. PICK C : Moments(d, C)
    BY DEF Momentary
<1>9. PICK now : now = CountsOn(d)
    OBVIOUS
<1> DEFINE D == C \cup {now}
<1>2. now \in Vectors /\ (\A c \in Codes : now[c] = counts[<<c, d>>]) /\ Total(now) <= counts[<<Global, d>>]
    BY <1>0, <1>9 DEF Precise, TypeOK, CountsOn, Vectors, Keys, Totalled
<1>3. D \in SUBSET Vectors /\ Chain(D)
    <2>1. AtMost(now, now)
        BY <1>2 DEF AtMost, Vectors
    <2>2. \A h \in C : AtMost(h, now)
        BY <1>1, <1>2 DEF Moments, AtMost
    <2>3. Chain(C) /\ C \in SUBSET Vectors
        BY <1>1 DEF Moments
    <2> QED BY <1>2, <2>1, <2>2, <2>3 DEF Chain
<1>4. \A h \in D, c \in Codes : h[c] <= counts'[<<c, d>>]
    <2>1. \A c \in Codes : counts[<<c, d>>] \in Nat /\ counts'[<<c, d>>] \in Nat /\ counts[<<c, d>>] <= counts'[<<c, d>>]
        <3>1. \A c \in Codes : counts[<<c, d>>] \in Nat /\ counts'[<<c, d>>] \in Nat
            BY <1>0 DEF Precise, TypeOK, Keys
        <3> QED BY <1>0, <3>1, CountsMove DEF Counted, Keys
    <2> SUFFICES ASSUME NEW h \in D, NEW c \in Codes PROVE h[c] <= counts'[<<c, d>>]
        OBVIOUS
    <2>2. h[c] \in Nat /\ h[c] <= counts[<<c, d>>]
        BY <1>1, <1>2, <1>3, <2>1 DEF Moments, Vectors
    <2> QED BY <2>1, <2>2
<1>5. Covered(daily, d, D) /\ \A i \in Instances : ReadGlobal(w[i]) => Covered(w[i].snap, d, D)
    BY <1>1 DEF Moments, Covered
<1>6. Covered(daily', d, D)
    <2>1. ASSUME NEW i \in Instances, w[i].pc = "merge", daily' = Committed(w[i].snap)
          PROVE  Covered(daily', d, D)
        <3>1. w[i].snap \in [Buckets -> Nat] /\ Covered(w[i].snap, d, D)
            BY <1>5, <2>1 DEF ReadGlobal, Precise, TypeOK, WorkersOK, Locals
        <3> QED BY <1>3, <1>5, <2>1, <3>1, MaximaAreCovered DEF Precise
    <2>2. ASSUME NEW c \in Codes, daily' = Emptied(c)
          PROVE  Covered(daily', d, D)
        <3>1. PICK h \in D : Explains(h, daily, d)
            BY <1>5 DEF Covered
        <3>2. \A k \in Codes : daily'[<<k, d>>] = (IF k = c THEN 0 ELSE daily[<<k, d>>]) /\ h[k] \in Nat
            BY <1>0, <1>3, <2>2 DEF Emptied, Keys, Vectors
        <3>3. daily'[<<Global, d>>] = daily[<<Global, d>>]
            BY <1>0, <2>2, ConstantsAssumption DEF Emptied, Keys
        <3>4. \A k \in Codes : daily'[<<k, d>>] <= h[k]
            BY <3>1, <3>2 DEF Explains
        <3> QED BY <3>1, <3>3, <3>4 DEF Covered, Explains
    <2> QED BY <1>5, <2>1, <2>2, OnlyMergesSave
<1>7. ASSUME NEW i \in Instances, ReadGlobal(w'[i])
      PROVE  Covered(w'[i].snap, d, D)
    <2>1. CASE ReadGlobal(w[i]) /\ w'[i].snap = w[i].snap
        BY <1>5, <2>1
    <2>2. CASE ReadsGlobal(i)
        <3>1. \A c \in Codes : w[i].snap[<<c, d>>] <= Handled(<<c, d>>) /\ Handled(<<c, d>>) = counts[<<c, d>>]
            BY <1>0 DEF Precise, Bounded, Below, HandledOf, ExactCount, Keys
        <3>2. Explains(now, w'[i].snap, d)
            BY <1>2, <2>2, <3>1 DEF Explains, ReadsGlobal
        <3> QED BY <3>2 DEF Covered
    <2>3. ASSUME NEW j \in Instances, ReadsGlobal(j), j # i
          PROVE  ReadGlobal(w[i]) /\ w'[i].snap = w[i].snap
        BY <1>7, <2>3 DEF ReadsGlobal
    <2> QED BY <1>7, <2>1, <2>2, <2>3, StepStays DEF SnapshotsStay, Stays, Precise
<1>8. Moments(d, D)'
    BY <1>3, <1>4, <1>6, <1>7 DEF Moments, Covered, Explains, Chain, AtMost, Total, Vectors
<1> QED BY <1>8

LEMMA InOrderReadStep ==
    ASSUME TypeOK, InOrderRead, [Next]_vars
    PROVE  InOrderRead'
<1>1. ASSUME NEW i \in Instances, ReadsGlobal(i)
      PROVE  InOrderRead'
    BY <1>1 DEF ReadsGlobal, InOrderRead
<1> QED BY <1>1, StepStays DEF SnapshotsStay, Stays, InOrderRead

LEMMA InitMomentary == Init => InOrderRead /\ Totalled /\ Momentary
<1> SUFFICES ASSUME Init PROVE InOrderRead /\ Totalled /\ Momentary
    OBVIOUS
<1>1. \A i \in Instances : w[i].pc = "acquire"
    BY DEF Init, Idle
<1>2. \A k \in Keys, d \in Days : counts[<<k, d>>] = 0 /\ daily[<<k, d>>] = 0
    BY DEF Init, Zeros, Buckets
<1> DEFINE none == [c \in Codes |-> 0]
<1>3. none \in Vectors /\ \A d \in Days : CountsOn(d) = none
    BY <1>2 DEF Vectors, CountsOn, Keys
<1>4. \A c \in Codes : none[c] = 0
    OBVIOUS
<1> HIDE DEF none
<1>5. Total(none) = 0
    <2>1. {} \in SUBSET Codes /\ \A c \in Codes \ {} : none[c] = 0
        BY <1>4
    <2> QED BY <1>3, <2>1, VectorsSum, SumOfPart, SumOfNone DEF Total
<1>6. ASSUME NEW d \in Days
      PROVE  Moments(d, {none})
    <2>1. Explains(none, daily, d)
        BY <1>2, <1>4, <1>5 DEF Explains, Keys
    <2> QED BY <1>1, <1>2, <1>3, <1>4, <2>1 DEF Moments, Chain, AtMost, Covered, ReadGlobal, Keys
<1> QED BY <1>1, <1>2, <1>3, <1>5, <1>6 DEF InOrderRead, GlobalLast, Totalled, Momentary, Keys

(* As long as Redis keeps its data, Postgres never shows more clicks on    *)
(* the links of a day than on the day, however many writers take their     *)
(* snapshots and merge them at the same time.                              *)
THEOREM DayCoversLinks == NoRedisLoss => (Spec => []GlobalCoversLinks)
<1> SUFFICES ASSUME NoRedisLoss PROVE Spec => []GlobalCoversLinks
    OBVIOUS
<1> DEFINE Inv == InOrderRead /\ Totalled /\ Momentary
<1>1. Spec => []Precise
    <2>1. Spec => [](TypeOK /\ Bounded)
        BY InitBounded, BoundedStep, TypeCorrect, PTL DEF Spec
    <2>2. Spec => []ExactCount
        BY CountedExactly
    <2> QED BY <2>1, <2>2, PTL DEF Precise
<1>2. Init => Inv
    BY InitMomentary
<1>3. Precise /\ Precise' /\ Inv /\ [Next]_vars => Inv'
    BY InOrderReadStep, TotalledStep, MomentaryStep DEF Precise
<1>4. Precise /\ Inv => GlobalCoversLinks
    BY CoversLinks DEF Precise
<1> HIDE DEF Inv
<1> QED BY <1>1, <1>2, <1>3, <1>4, PTL DEF Spec

-----------------------------------------------------------------------------
(* What a flush has yet to write, and what it may write back.              *)
Secured(r) ==
    /\ r.pc \in {"acquire", "ensure", "load"} => r.phase = "start"
    /\ r.pc = "capture" => \A b \in Buckets : b[1] \notin r.unread => counts[b] <= r.snap[b]
    /\ r.pc = "merge" => \A b \in Buckets : counts[b] <= r.snap[b]
    /\ r.pc = "hmax" => /\ \A b \in Buckets : r.snap[b] <= daily[b]
                        /\ r.phase # "start" => \A b \in Buckets : counts[b] <= daily[b]

Marked == {"acquire", "ensure", "load", "capture", "merge", "hmax"}
Flushing == \A i \in Instances : Secured(w[i])

(* While one instance writes, no other is in a flush.                      *)
LEMMA OnlyWriterFlushes ==
    ASSUME TypeOK, SingleWriter, Flushing, NEW i \in Instances, Work(i), NEW r, Become(i, r), Secured(r)'
    PROVE  Flushing'
<1>0. WorkersOK /\ w[i].pc \notin IdlePCs
    BY WorkIsOnesOwn DEF TypeOK
<1>1. \A j \in Instances \ {i} : w[j].pc \in IdlePCs
    BY <1>0 DEF SingleWriter, IdlePCs
<1>2. w'[i] = r /\ \A j \in Instances \ {i} : w'[j] = w[j]
    BY <1>0, BecomeSnaps
<1>3. ASSUME NEW j \in Instances PROVE Secured(w[j])'
    <2>1. CASE j = i
        BY <1>2, <2>1 DEF Secured
    <2>2. CASE j # i
        BY <1>1, <1>2, <2>2 DEF Flushing, Secured, IdlePCs
    <2> QED BY <2>1, <2>2
<1> QED BY <1>3 DEF Flushing

(* Steps to where nothing is flushed, or everything has yet to be read.    *)
LEMMA FlushEndsOrStarts ==
    ASSUME TypeOK, SingleWriter, Flushing, NEW i \in Instances, Work(i)
    PROVE  /\ \A r : Become(i, r) /\ r.pc \notin Marked => Flushing'
           /\ \A l \in PCs \ Marked : Goto(i, l) \/ Return(i, l) => Flushing'
           /\ BackToDrain(i) \/ AfterFlush(i) \/ DrainDone(i) \/ DrainFailed(i) => Flushing'
           /\ \A f \in {"tick", "final"} : FlushStart(i, f) => Flushing'
<1>0. w[i] \in Locals
    BY DEF TypeOK, WorkersOK
<1>1. ASSUME NEW r, Become(i, r), r.pc \notin Marked PROVE Flushing'
    <2>1. Secured(r)'
        BY <1>1 DEF Secured, Marked
    <2> QED BY <1>1, <2>1, OnlyWriterFlushes
<1>2. ASSUME NEW l \in PCs \ Marked, Goto(i, l) \/ Return(i, l) PROVE Flushing'
    <2>1. [w[i] EXCEPT !.pc = l].pc = l /\ [Idle EXCEPT !.pc = l, !.shut = w[i].shut].pc = l
        BY <1>0 DEF Locals, Idle
    <2> QED BY <1>1, <1>2, <2>1 DEF Goto, Return
<1>3. ASSUME BackToDrain(i) PROVE Flushing'
    <2>1. [Idle EXCEPT !.pc = "drain", !.phase = w[i].phase, !.shut = w[i].shut].pc = "drain"
        BY DEF Idle
    <2> QED BY <1>1, <1>3, <2>1 DEF BackToDrain, Marked
<1>4. ASSUME NEW f \in {"tick", "final"}, FlushStart(i, f) PROVE Flushing'
    <2>1. PICK r : r = [w[i] EXCEPT !.pc = "capture", !.phase = f, !.conn = TRUE, !.unread = Keys, !.snap = Zeros,
                                    !.snapLast = NoTimes, !.batch = {}, !.todo = {<<"cad", b>> : b \in StaleBuckets}]
        OBVIOUS
    <2>2. r.pc = "capture" /\ r.unread = Keys
        BY <1>0, <2>1 DEF Locals
    <2>3. \A b \in Buckets : b[1] \in Keys
        BY DEF Buckets
    <2>4. Secured(r)'
        BY <2>2, <2>3 DEF Secured
    <2>5. Become(i, r)
        BY <1>4, <2>1 DEF FlushStart
    <2> QED BY <2>4, <2>5, OnlyWriterFlushes
<1> QED BY <1>1, <1>2, <1>3, <1>4 DEF AfterFlush, DrainDone, DrainFailed, PCs, Marked

(* The start of a writer, its loop and its batches.                        *)
LEMMA LoopCovers ==
    ASSUME TypeOK, SingleWriter, Flushing, NEW i \in Instances,
           \/ EnsureConsumerGroup(i) \/ ConnectForBatch(i) \/ ProcessEntry(i) \/ BatchDone(i) \/ DrainPendingBatch(i)
           \/ StopLoop(i) \/ Tick(i) \/ ReadStream(i) \/ CaptureFailed(i) \/ HmaxDone(i)
    PROVE  Flushing'
<1>0. w[i] \in Locals /\ Work(i)
    BY DEF TypeOK, WorkersOK, Work
<1> USE FlushEndsOrStarts DEF PCs, Marked
<1>1. CASE BatchDone(i) \/ StopLoop(i) \/ CaptureFailed(i) \/ HmaxDone(i)
    BY <1>0, <1>1 DEF BatchDone, StopLoop, CaptureFailed, HmaxDone
<1>2. CASE ConnectForBatch(i)
    <2>1. [w[i] EXCEPT !.pc = "process", !.conn = TRUE].pc = "process"
        BY <1>0 DEF Locals
    <2> QED BY <1>0, <1>2, <2>1 DEF ConnectForBatch
<1>3. CASE ProcessEntry(i)
    <2>1. PICK e : Become(i, [w[i] EXCEPT !.batch = @ \ {e}])
        BY <1>3 DEF ProcessEntry
    <2>2. [w[i] EXCEPT !.batch = @ \ {e}].pc = "process"
        BY <1>0, <1>3 DEF ProcessEntry, At, Locals
    <2> QED BY <1>0, <2>1, <2>2
<1>4. CASE DrainPendingBatch(i)
    <2>1. [w[i] EXCEPT !.pc = "process", !.conn = TRUE, !.batch = Oldest(pel, BatchSize)].pc = "process"
        BY <1>0 DEF Locals
    <2> QED BY <1>0, <1>4, <2>1 DEF DrainPendingBatch
<1>5. CASE Tick(i)
    <2>1. [w[i] EXCEPT !.pc = "drain", !.phase = "tick"].pc = "drain"
        BY <1>0 DEF Locals
    <2> QED BY <1>0, <1>5, <2>1 DEF Tick
<1>6. CASE ReadStream(i)
    <2>1. [w[i] EXCEPT !.pc = "connect", !.phase = "read", !.batch = Oldest(NewEntries, BatchSize)].pc = "connect"
        BY <1>0 DEF Locals
    <2> QED BY <1>0, <1>6, <2>1 DEF ReadStream
<1>7. CASE EnsureConsumerGroup(i)
    <2>1. PICK r : r = [w[i] EXCEPT !.pc = "load"]
        OBVIOUS
    <2>2. r.pc = "load" /\ r.phase = "start"
        BY <1>0, <1>7, <2>1 DEF EnsureConsumerGroup, At, Flushing, Secured, Locals
    <2>3. Secured(r)'
        BY <2>2 DEF Secured
    <2>4. Become(i, r) \/ Goto(i, "release")
        BY <1>7, <2>1 DEF EnsureConsumerGroup, Goto
    <2> QED BY <1>0, <2>3, <2>4, OnlyWriterFlushes
<1> QED BY <1>1, <1>2, <1>3, <1>4, <1>5, <1>6, <1>7

(* The rehydration: what is written back is what Postgres has.             *)
LEMMA RehydrationCovers ==
    ASSUME TypeOK, SingleWriter, Flushing, NEW i \in Instances, LoadDailyClicks(i)
    PROVE  Flushing'
<1>0. w[i] \in Locals /\ Work(i)
    BY DEF TypeOK, WorkersOK, Work
<1>1. PICK rows : rows = RehydrationRows
    OBVIOUS
<1>2. PICK r : r = [w[i] EXCEPT !.pc = "hmax", !.conn = TRUE, !.snap = rows, !.todo = HmaxCalls(rows)]
    OBVIOUS
<1>3. UNCHANGED daily /\ (Become(i, r) \/ Goto(i, "release"))
    BY <1>1, <1>2 DEF LoadDailyClicks, dbVars
<1>s. w[i].phase = "start"
    BY DEF LoadDailyClicks, At, Flushing, Secured
<1>4. r.pc = "hmax" /\ r.snap = rows /\ r.phase = "start"
    BY <1>0, <1>2, <1>s DEF Locals
<1>5. \A b \in Buckets : rows[b] <= daily[b]
    <2>1. \A b \in Buckets : daily[b] \in Nat
        BY DEF TypeOK
    <2> QED BY <1>1, <2>1 DEF RehydrationRows
<1>6. Secured(r)'
    BY <1>3, <1>4, <1>5 DEF Secured
<1>7. Goto(i, "release") => Flushing'
    BY <1>0, FlushEndsOrStarts DEF PCs, Marked
<1> QED BY <1>0, <1>3, <1>6, <1>7, OnlyWriterFlushes

(* The flush: what was read of Redis is all it has, the commit brings that *)
(* to Postgres, and what is written back is no more than Postgres has.     *)
LEMMA FlushCovers ==
    ASSUME TypeOK, TypeOK', SingleWriter, AllLinked, Flushing, NEW i \in Instances,
           CaptureDailyCounts(i) \/ LastClickedAtBatch(i) \/ MergeSnapshot(i) \/ Hmax(i) \/ CompareAndDelete(i)
    PROVE  Flushing'
<1>0. w[i] \in Locals /\ Work(i) /\ Secured(w[i])
    BY DEF TypeOK, WorkersOK, Work, Flushing
<1>n. \A b \in Buckets : counts[b] \in Nat /\ daily[b] \in Nat /\ daily'[b] \in Nat /\ w[i].snap[b] \in Nat
    BY <1>0 DEF TypeOK, Locals
<1>f. AfterFlush(i) => Flushing'
    BY <1>0, FlushEndsOrStarts
<1> USE DEF At, statsVars, dbVars, streamVars
<1>1. CASE CaptureDailyCounts(i)
    <2>1. PICK k : Become(i, [w[i] EXCEPT !.unread = @ \ {k},
                                          !.snap = [b \in Buckets |-> IF b[1] = k THEN counts[b] ELSE w[i].snap[b]]])
        BY <1>1, CaptureReadsHash
    <2>2. PICK s : s = [b \in Buckets |-> IF b[1] = k THEN counts[b] ELSE w[i].snap[b]]
        OBVIOUS
    <2>3. PICK r : r = [w[i] EXCEPT !.unread = @ \ {k}, !.snap = s]
        OBVIOUS
    <2>4. w[i].pc = "capture" /\ UNCHANGED counts
        BY <1>1 DEF CaptureDailyCounts
    <2>5. r.pc = "capture" /\ r.unread = w[i].unread \ {k} /\ r.snap = s
        BY <1>0, <2>3, <2>4 DEF Locals
    <2>6. \A b \in Buckets : b[1] \notin w[i].unread => counts[b] <= w[i].snap[b]
        BY <1>0, <2>4 DEF Secured
    <2>7. \A b \in Buckets : b[1] \notin r.unread => counts[b] <= s[b]
        BY <1>n, <2>2, <2>5, <2>6
    <2>8. Secured(r)'
        BY <2>4, <2>5, <2>7 DEF Secured
    <2>9. Become(i, r)
        BY <2>1, <2>2, <2>3
    <2> QED BY <1>0, <2>8, <2>9, OnlyWriterFlushes
<1>2. CASE LastClickedAtBatch(i)
    <2> DEFINE hasBucket(c) == \E d \in Days : w[i].snap[<<c, d>>] > 0
    <2>1. PICK last : last = [c \in Codes |-> IF hasBucket(c) THEN lastAt[c] ELSE Absent]
        OBVIOUS
    <2>2. PICK r : r = [w[i] EXCEPT !.pc = "merge", !.snapLast = last]
        OBVIOUS
    <2>3. /\ w[i].pc = "capture" /\ UNCHANGED counts /\ w[i].unread = {}
          /\ AfterFlush(i) \/ Become(i, r)
        BY <1>2, <2>1, <2>2 DEF LastClickedAtBatch
    <2>4. r.pc = "merge" /\ r.snap = w[i].snap
        BY <1>0, <2>2 DEF Locals
    <2>5. \A b \in Buckets : counts[b] <= w[i].snap[b]
        BY <1>0, <2>3 DEF Secured
    <2>6. Secured(r)'
        BY <2>3, <2>4, <2>5 DEF Secured
    <2> QED BY <1>0, <1>f, <2>3, <2>6, OnlyWriterFlushes
<1>3. CASE MergeSnapshot(i) /\ ~AfterFlush(i)
    <2>1. PICK s : s = w[i].snap
        OBVIOUS
    <2>2. w[i].pc = "merge" /\ UNCHANGED counts
        BY <1>3, Zenon DEF MergeSnapshot
    <2>3. \A b \in Buckets : counts[b] <= s[b]
        BY <1>0, <2>1, <2>2 DEF Secured
    <2>4. PICK values : values = [b \in Buckets |-> IF s[b] > 0 THEN Max2(daily[b], s[b]) ELSE 0]
        OBVIOUS
    <2>5. PICK r : Become(i, r) /\ daily' = Committed(s) /\ r.pc = "hmax" /\ r.snap = values
        <3> DEFINE calls == HmaxCalls(s) \cup (w[i].todo \cap {<<"cad", b>> : b \in {x \in Buckets : s[x] > 0}})
                   h == [w[i] EXCEPT !.pc = "hmax", !.conn = TRUE, !.snap = values, !.snapLast = NoTimes, !.todo = calls]
        <3>1. Become(i, h) /\ daily' = Committed(s)
            BY <1>3, <2>1, <2>4, Zenon DEF MergeSnapshot, CommitMerge
        <3> HIDE DEF calls
        <3>2. h.pc = "hmax" /\ h.snap = values
            BY <1>0 DEF Locals
        <3> HIDE DEF h
        <3> QED BY <3>1, <3>2
    <2>6. \A b \in Buckets : /\ daily'[b] = Max2(daily[b], s[b])
                             /\ values[b] = IF s[b] > 0 THEN Max2(daily[b], s[b]) ELSE 0
        BY <2>4, <2>5, EveryCodeHasRow DEF Committed
    <2>7. \A b \in Buckets : values[b] <= daily'[b] /\ counts[b] <= daily'[b]
        BY ONLY <1>n, <2>1, <2>3, <2>6 DEF Max2
    <2>8. Secured(r)'
        BY <2>2, <2>5, <2>7 DEF Secured
    <2> QED BY <1>0, <2>5, <2>8, OnlyWriterFlushes
<1>4. CASE Hmax(i) \/ CompareAndDelete(i)
    <2>1. PICK call \in Upcoming(i) : /\ HMAX_SCRIPT(call[2], w[i].snap[call[2]]) \/ UNCHANGED counts
                                      /\ \E T : Become(i, [w[i] EXCEPT !.todo = @ \ T])
        BY <1>4, Zenon DEF Hmax, CompareAndDelete, COMPARE_AND_DELETE_SCRIPT
    <2>2. PICK T : Become(i, [w[i] EXCEPT !.todo = @ \ T])
        BY <2>1
    <2>3. PICK r : r = [w[i] EXCEPT !.todo = @ \ T]
        OBVIOUS
    <2>4. UNCHANGED daily /\ w[i].pc = "hmax"
        BY <1>4, Zenon DEF Hmax, CompareAndDelete
    <2>5. r.pc = "hmax" /\ r.snap = w[i].snap /\ r.phase = w[i].phase
        BY <1>0, <2>3, <2>4 DEF Locals
    <2>6. \A b \in Buckets : w[i].snap[b] <= daily[b]
        BY <1>0, <2>4 DEF Secured
    <2>7. \A b \in Buckets : counts'[b] = counts[b] \/ counts'[b] = Max2(counts[b], w[i].snap[b])
        <3>1. counts \in [Buckets -> Nat]
            BY DEF TypeOK
        <3> QED BY <2>1, <3>1 DEF HMAX_SCRIPT
    <2>8. \A b \in Buckets : counts[b] <= daily[b] => counts'[b] <= daily[b]
        BY ONLY <1>n, <2>6, <2>7 DEF Max2
    <2>9. Secured(r)'
        BY <1>0, <2>4, <2>5, <2>6, <2>8 DEF Secured
    <2>10. Become(i, r)
        BY <2>2, <2>3
    <2> QED BY <1>0, <2>9, <2>10, OnlyWriterFlushes
<1> QED BY <1>1, <1>2, <1>3, <1>4, <1>f

(* Instances that come, wait, go or are told to stop; a restart of Redis   *)
(* takes counts and leaves nothing to save.                                *)
LEMMA OutsideCovers ==
    ASSUME TypeOK, Flushing, NEW j \in Instances, NEW q, w'[j] = q,
           q.pc = w[j].pc, q.phase = w[j].phase, q.unread = w[j].unread, q.snap = w[j].snap,
           counts' = counts \/ counts' = Zeros, UNCHANGED daily
    PROVE  Secured(w[j])'
<1>1. \A b \in Buckets : daily[b] \in Nat /\ w[j].snap[b] \in Nat
    BY DEF TypeOK, WorkersOK, Locals
<1>2. Secured(w[j])
    BY DEF Flushing
<1>3. \A b \in Buckets : counts'[b] = counts[b] \/ counts'[b] = 0
    BY DEF Zeros
<1>4. /\ w[j].pc = "capture" => \A b \in Buckets : b[1] \notin w[j].unread => counts'[b] <= w[j].snap[b]
      /\ w[j].pc = "merge" => \A b \in Buckets : counts'[b] <= w[j].snap[b]
      /\ w[j].pc = "hmax" /\ w[j].phase # "start" => \A b \in Buckets : counts'[b] <= daily[b]
    BY ONLY <1>1, <1>2, <1>3 DEF Secured
<1> QED BY <1>2, <1>4 DEF Secured

LEMMA FlushingStep ==
    ASSUME LinksStay, TypeOK, TypeOK', SingleWriter, AllLinked, Flushing, [Next]_vars
    PROVE  Flushing'
<1>0. w \in [Instances -> Locals] /\ WorkersOK /\ \A i \in Instances : w[i] \in Locals
    BY DEF TypeOK, WorkersOK
<1>1. ASSUME NEW i \in Instances, Work(i) PROVE Flushing'
    BY <1>1, LoopCovers, RehydrationCovers, FlushCovers DEF Work
<1>2. ASSUME NEW i \in Instances, NEW r, Become(i, r), Secured(r)', UNCHANGED <<counts, daily>> PROVE Flushing'
    <2>1. w'[i] = r /\ \A j \in Instances \ {i} : w'[j] = w[j]
        BY <1>0, <1>2, BecomeSnaps
    <2>2. ASSUME NEW j \in Instances PROVE Secured(w[j])'
        <3>1. CASE j = i
            BY <1>2, <2>1, <3>1 DEF Secured
        <3>2. CASE j # i
            BY <1>2, <2>1, <3>2, OutsideCovers
        <3> QED BY <3>1, <3>2
    <2> QED BY <2>2 DEF Flushing
<1>3. ASSUME NEW i \in Instances, Acquire(i) PROVE Flushing'
    <2>1. PICK l \in {"ensure", "pause"} : Goto(i, l) /\ UNCHANGED <<counts, daily>> /\ w[i].pc = "acquire"
        BY <1>3 DEF Acquire, At, statsVars
    <2>2. PICK r : r = [w[i] EXCEPT !.pc = l]
        OBVIOUS
    <2>3. r.pc = l /\ r.phase = "start"
        BY <1>0, <2>1, <2>2 DEF Locals, Flushing, Secured
    <2>4. Secured(r)'
        BY <2>3 DEF Secured
    <2> QED BY <1>2, <2>1, <2>2, <2>4 DEF Goto
<1>4. ASSUME NEW i \in Instances, Release(i) \/ Pause(i) \/ Crash(i) \/ Restart(i) PROVE Flushing'
    <2>1. PICK r : Become(i, r) /\ r.pc \in IdlePCs /\ r.phase = "start"
        <3>1. ASSUME NEW l \in IdlePCs, Return(i, l)
              PROVE  \E r : Become(i, r) /\ r.pc \in IdlePCs /\ r.phase = "start"
            <4>1. PICK r : r = [Idle EXCEPT !.pc = l, !.shut = w[i].shut]
                OBVIOUS
            <4>2. r.pc = l /\ r.phase = "start"
                BY <4>1 DEF Idle
            <4> QED BY <3>1, <4>1, <4>2 DEF Return
        <3>2. Idle.pc \in IdlePCs /\ Idle.phase = "start"
            BY DEF Idle, IdlePCs
        <3>3. [Idle EXCEPT !.pc = "down"].pc \in IdlePCs /\ [Idle EXCEPT !.pc = "down"].phase = "start"
            BY DEF Idle, IdlePCs
        <3>4. CASE Release(i) \/ Pause(i)
            <4>1. \E l \in {"pause", "down", "acquire"} : Return(i, l)
                BY <3>4 DEF Release, Pause
            <4> QED BY <3>1, <4>1 DEF IdlePCs
        <3> QED BY <1>4, <3>2, <3>3, <3>4 DEF Crash, Restart
    <2>2. UNCHANGED <<counts, daily>>
        BY <1>4 DEF Release, Pause, Crash, Restart, statsVars, dbVars
    <2>3. Secured(r)'
        BY <2>1 DEF Secured, IdlePCs
    <2> QED BY <1>2, <2>1, <2>2, <2>3
<1>5. ASSUME NEW i \in Instances, Shutdown(i) PROVE Flushing'
    <2>1. UNCHANGED <<counts, daily>> /\ Become(i, [w[i] EXCEPT !.shut = TRUE])
        BY <1>5 DEF Shutdown, statsVars, dbVars
    <2>2. \A j \in Instances : /\ w'[j].pc = w[j].pc /\ w'[j].phase = w[j].phase
                               /\ w'[j].unread = w[j].unread /\ w'[j].snap = w[j].snap
        <3>1. PICK r : r = [w[i] EXCEPT !.shut = TRUE]
            OBVIOUS
        <3>2. r.pc = w[i].pc /\ r.phase = w[i].phase /\ r.unread = w[i].unread /\ r.snap = w[i].snap
            BY <1>0, <3>1 DEF Locals
        <3>3. w'[i] = r /\ \A j \in Instances \ {i} : w'[j] = w[j]
            BY <1>0, <2>1, <3>1, BecomeSnaps
        <3> QED BY <3>2, <3>3
    <2> QED BY <2>1, <2>2, OutsideCovers DEF Flushing
<1>6. CASE RedisCrash
    <2>1. counts' = Zeros /\ UNCHANGED daily
        BY <1>6 DEF RedisCrash, dbVars
    <2>2. \A j \in Instances : /\ w'[j].pc = w[j].pc /\ w'[j].phase = w[j].phase
                               /\ w'[j].unread = w[j].unread /\ w'[j].snap = w[j].snap
        <3> SUFFICES ASSUME NEW j \in Instances
                     PROVE  /\ w'[j].pc = w[j].pc /\ w'[j].phase = w[j].phase
                            /\ w'[j].unread = w[j].unread /\ w'[j].snap = w[j].snap
            OBVIOUS
        <3>1. PICK r : r = [w[j] EXCEPT !.conn = FALSE]
            OBVIOUS
        <3>2. w'[j] = r
            BY <1>6, <3>1 DEF RedisCrash
        <3>3. r.pc = w[j].pc /\ r.phase = w[j].phase /\ r.unread = w[j].unread /\ r.snap = w[j].snap
            BY <1>0, <3>1 DEF Locals
        <3> QED BY <3>2, <3>3
    <2> QED BY <2>1, <2>2, OutsideCovers DEF Flushing
<1>7. CASE OrphanedRead \/ SendClickEvent \/ NextDay \/ LoseLock \/ UNCHANGED vars
    <2>1. UNCHANGED <<counts, daily, w>>
        BY <1>7 DEF OrphanedRead, SendClickEvent, NextDay, LoseLock, vars, statsVars, dbVars
    <2> QED BY <2>1, OutsideCovers DEF Flushing
<1>8. \A c \in Codes : ~DeleteLink(c) /\ ~CreateLink(c)
    BY DEF DeleteLink, CreateLink, Fault, LinksStay, AllLinked
<1> QED BY <1>1, <1>3, <1>4, <1>5, <1>6, <1>7, <1>8 DEF Next, Advance, Work

(* As long as the session that holds the lock lives and no link is         *)
(* deleted: whatever failed before, restarts of Redis included, from its   *)
(* commit until it ends a flush has everything in Postgres that Redis      *)
(* counted, and the counts that a shutdown leaves behind its final flush   *)
(* are safe.                                                               *)
THEOREM CommittedFlushSavesAll == NoLockLoss /\ LinksStay => (Spec => []FlushSavesAll)
<1> SUFFICES ASSUME NoLockLoss, LinksStay PROVE Spec => []FlushSavesAll
    OBVIOUS
<1>1. Init => Flushing
    BY DEF Init, Idle, Flushing, Secured
<1>2. TypeOK /\ TypeOK' /\ SingleWriter /\ AllLinked /\ Flushing /\ [Next]_vars => Flushing'
    BY FlushingStep
<1>3. Flushing => FlushSavesAll
    BY DEF Flushing, Secured, FlushSavesAll, At
<1>4. Spec => []AllLinked
    BY LinksAllStay
<1> QED BY <1>1, <1>2, <1>3, <1>4, OneWriter, TypeCorrect, PTL DEF Spec

=============================================================================
