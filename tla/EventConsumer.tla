--------------------------- MODULE EventConsumer ---------------------------
(***************************************************************************)
(* The click pipeline of the analytics service: gateways append click      *)
(* events to a Redis stream; one analytics instance at a time, elected by  *)
(* a Postgres advisory lock, reads them through a consumer group, counts   *)
(* them in Redis hashes (one day bucket per link and one for all links)    *)
(* and periodically merges a snapshot of the hashes into Postgres.  Redis  *)
(* keeps nothing on disk: when it restarts, the writer that starts next    *)
(* rehydrates the hashes from Postgres.                                    *)
(*                                                                         *)
(* A step is what runs between two awaits: one Redis command or script,    *)
(* one transaction, one branch of a select!.  The merge transaction is one *)
(* step here; module SnapshotMerge opens it up statement by statement.     *)
(* Meanwhile the core service deletes and creates links.                   *)
(* Time is kept to the day.  A bucket that is absent in the code is 0.     *)
(***************************************************************************)
EXTENDS Integers, FiniteSets, Sequences, Functions

CONSTANTS
    Instances,      \* analytics service instances
    NoInstance,     \* nobody holds the advisory lock
    Codes,          \* short codes of the links
    Global,         \* the hash and table over all links
    Malformed,      \* payload of a stream entry that does not parse
    WindowDays,     \* ROLLING_WINDOW_DAYS
    GraceDays,      \* STALE_GRACE_DAYS
    BatchSize,      \* config.analytics.read_batch_size
    MaxDay,         \* bound: the calendar is 1 .. MaxDay
    MaxEvents,      \* bound: entries ever appended to the stream
    MaxFaults,      \* bound: faults of any kind, and deletions, in a behaviour
    FaultKinds      \* the faults that may happen; "unlink" is the deletion of a link

AllFaultKinds == {"redis_err", "db_err", "crash", "redis_crash", "lock_loss", "shutdown", "unlink"}

ASSUME ConstantsAssumption ==
    /\ NoInstance \notin Instances
    /\ Global \notin Codes
    /\ Malformed \notin Codes \cup {Global}
    /\ WindowDays \in Nat /\ GraceDays \in Nat /\ BatchSize \in Nat \ {0}
    /\ MaxDay \in Nat \ {0} /\ MaxEvents \in Nat /\ MaxFaults \in Nat
    /\ FaultKinds \subseteq AllFaultKinds

(* The links are rows of a table: what is summed over them is a number.    *)
ASSUME LinksAreFinite == IsFiniteSet(Codes)

Days == 1 .. MaxDay
Keys == Codes \cup {Global}
Buckets == Keys \X Days
Absent == -1                    \* no last_clicked_at key, or a null column
Epoch == 0                      \* DateTime::UNIX_EPOCH
Zeros == [b \in Buckets |-> 0]
NoTimes == [c \in Codes |-> Absent]

VARIABLES
    log,        \* every entry XADDed so far; an entry's id is its position
    stream,     \* ids still in the Redis stream
    group,      \* does the consumer group exist
    lastId,     \* last-delivered-id of the group
    pel,        \* ids delivered and not acknowledged
    counts,     \* the stats hashes in Redis
    lastAt,     \* the last_clicked_at keys in Redis
    daily,      \* tables global_daily_clicks and link_daily_clicks
    lastClick,  \* column links.last_clicked_at
    lock,       \* holder of the writer advisory lock
    links,      \* codes that have a row in table links
    lost,       \* history: has Redis lost its data at some time
    undated,    \* history: codes that were without a row since then
    w,          \* each instance's control state and locals
    orphan,     \* is a read abandoned by select! still blocked in Redis
    processed,  \* metric analytics.events_processed
    today,
    faults

streamVars == <<log, stream, group, lastId, pel>>
statsVars  == <<counts, lastAt>>
linkVars   == <<links, lost, undated>>
dbVars     == <<daily, lastClick, lock, linkVars>>
envVars    == <<orphan, processed, today>>
vars       == <<streamVars, statsVars, dbVars, w, envVars, faults>>

(* The locals of an instance.  todo holds the HMAX and compare-and-delete  *)
(* calls a rehydration or reconciliation has still to make; snap their     *)
(* values; conn says whether the connection the running function took from *)
(* the pool is still up.                                                   *)
Idle == [pc |-> "acquire", phase |-> "start", shut |-> FALSE, conn |-> FALSE, batch |-> {},
         unread |-> {}, snap |-> Zeros, snapLast |-> NoTimes, todo |-> {}]

Init ==
    /\ log = <<>> /\ stream = {} /\ group = FALSE /\ lastId = 0 /\ pel = {}
    /\ counts = Zeros /\ lastAt = NoTimes
    /\ daily = Zeros /\ lastClick = NoTimes /\ lock = NoInstance
    /\ links = Codes /\ lost = FALSE /\ undated = {}
    /\ w = [i \in Instances |-> Idle]
    /\ orphan = FALSE /\ processed = 0 /\ today = 1 /\ faults = 0

-----------------------------------------------------------------------------
Max2(a, b) == IF a >= b THEN a ELSE b

Fault(kind) == kind \in FaultKinds /\ faults < MaxFaults /\ faults' = faults + 1
NoFault == UNCHANGED faults

At(i, l) == w[i].pc = l
Become(i, r) == w' = [w EXCEPT ![i] = r]
Goto(i, l) == Become(i, [w[i] EXCEPT !.pc = l])
(* Leaves a function: its locals go out of scope.                          *)
Return(i, l) == Become(i, [Idle EXCEPT !.pc = l, !.shut = w[i].shut])
BackToDrain(i) == Become(i, [Idle EXCEPT !.pc = "drain", !.phase = w[i].phase, !.shut = w[i].shut])

(* The n oldest ids of S: what COUNT n returns.                            *)
Oldest(S, n) == {e \in S : Cardinality({f \in S : f < e}) < n}
NewEntries == {e \in stream : e > lastId}

WindowStart == today - WindowDays
StaleCutoff == today - (WindowDays + GraceDays)

-----------------------------------------------------------------------------
(* EventConsumer::run                                                      *)

TryAcquire_Shared(i) == lock' = i
TryAcquire(i) == lock = NoInstance /\ lock' = i

Acquire(i) ==
    /\ At(i, "acquire")
    /\ \/ TryAcquire(i) /\ Goto(i, "ensure") /\ NoFault
       \/ lock # NoInstance /\ Goto(i, "pause") /\ UNCHANGED lock /\ NoFault
       \/ Fault("db_err") /\ Goto(i, "pause") /\ UNCHANGED lock
    /\ UNCHANGED <<streamVars, statsVars, daily, lastClick, linkVars, envVars>>

(* The advisory lock lives in a Postgres session: releasing one that was   *)
(* lost with its session does not touch the lock of its next holder.       *)
Release(i) ==
    /\ At(i, "release")
    /\ lock' = IF lock = i THEN NoInstance ELSE lock
    /\ Return(i, "pause")
    /\ UNCHANGED <<streamVars, statsVars, daily, lastClick, linkVars, envVars, faults>>

Pause(i) ==
    /\ At(i, "pause")
    /\ Return(i, IF w[i].shut THEN "down" ELSE "acquire")
    /\ UNCHANGED <<streamVars, statsVars, dbVars, envVars, faults>>

-----------------------------------------------------------------------------
(* EventConsumer::run_inner, up to the event loop                          *)

GroupStart_Latest == Len(log)
GroupStart == 0

EnsureConsumerGroup(i) ==
    /\ At(i, "ensure")
    /\ \/ /\ group' = TRUE
          /\ lastId' = IF group THEN lastId ELSE GroupStart
          /\ Goto(i, "load")
          /\ NoFault
       \/ Fault("redis_err") /\ Goto(i, "release") /\ UNCHANGED <<group, lastId>>
    /\ UNCHANGED <<log, stream, pel, statsVars, dbVars, envVars>>

RehydrationRows_OneDayShort == [b \in Buckets |-> IF b[2] > WindowStart THEN daily[b] ELSE 0]
RehydrationRows == [b \in Buckets |-> IF b[2] >= WindowStart THEN daily[b] ELSE 0]

HmaxCalls(rows) == {<<"hmax", b>> : b \in {x \in Buckets : rows[x] > 0}}

(* Persistence::rehydrate up to its loops: both selects, then a connection. *)
LoadDailyClicks(i) ==
    /\ At(i, "load")
    /\ \/ /\ Become(i, [w[i] EXCEPT !.pc = "hmax", !.conn = TRUE, !.snap = RehydrationRows,
                                    !.todo = HmaxCalls(RehydrationRows)])
          /\ NoFault
       \/ (Fault("db_err") \/ Fault("redis_err")) /\ Goto(i, "release")
    /\ UNCHANGED <<streamVars, statsVars, dbVars, envVars>>

-----------------------------------------------------------------------------
(* RedisStats                                                              *)

HMAX_SCRIPT_Adds(b, value) == counts' = [counts EXCEPT ![b] = @ + value]
HMAX_SCRIPT_Overwrites(b, value) == counts' = [counts EXCEPT ![b] = value]
HMAX_SCRIPT(b, value) == counts' = [counts EXCEPT ![b] = Max2(counts[b], value)]

(* The script reads the undefined Lua variable argv, so every call returns *)
(* an error and leaves the hash as it was.                                 *)
COMPARE_AND_DELETE_SCRIPT(b, expected) == UNCHANGED counts

EventBuckets(e) == {Global, log[e].code} \X {log[e].at}

CountClick(e) ==
    /\ pel' = pel \ {e}
    /\ counts' = [b \in Buckets |-> counts[b] + IF b \in EventBuckets(e) THEN 1 ELSE 0]
    /\ lastAt' = [lastAt EXCEPT ![log[e].code] = Max2(@, log[e].at)]
    /\ stream' = stream \ {e}

RECORD_CLICK_IgnoresAck(e) == CountClick(e)
RECORD_CLICK(e) == e \in pel /\ CountClick(e)

(* record_click_event maps the script's 0 (already handled) to Applied,    *)
(* and process_entry counts Applied in the metric.                         *)
RecordClickEvent(e) ==
    \/ RECORD_CLICK(e) /\ UNCHANGED processed
    \/ e \notin pel /\ processed' = processed + 1 /\ UNCHANGED <<pel, stream, statsVars>>

DropClickEvent_NoAck(e) == stream' = stream \ {e} /\ UNCHANGED <<pel, statsVars, processed>>

(* XACKDEL with policy ACKED                                               *)
DropClickEvent(e) ==
    /\ pel' = pel \ {e}
    /\ stream' = IF e \in pel THEN stream \ {e} ELSE stream
    /\ UNCHANGED <<statsVars, processed>>

-----------------------------------------------------------------------------
(* process_entry, once per entry of a batch, oldest first.  An error is    *)
(* logged and the entry stays in the PEL.                                  *)

ProcessEntry(i) ==
    /\ At(i, "process")
    /\ \E e \in Oldest(w[i].batch, 1) :
        /\ \/ /\ w[i].conn /\ NoFault
              /\ IF log[e].code = Malformed THEN DropClickEvent(e) ELSE RecordClickEvent(e)
           \/ /\ (~w[i].conn /\ NoFault) \/ Fault("redis_err")
              /\ UNCHANGED <<pel, stream, statsVars, processed>>
        /\ Become(i, [w[i] EXCEPT !.batch = @ \ {e}])
    /\ UNCHANGED <<log, group, lastId, dbVars, orphan, today>>

BatchDone(i) ==
    /\ At(i, "process") /\ w[i].batch = {}
    /\ IF w[i].phase = "read" THEN Return(i, "loop") ELSE BackToDrain(i)
    /\ UNCHANGED <<streamVars, statsVars, dbVars, envVars, faults>>

-----------------------------------------------------------------------------
(* drain_pending                                                           *)

(* Persistence::capture_snapshot begins: the cutoff is taken now.          *)
StaleBuckets == {b \in Buckets : b[2] < StaleCutoff}
FlushStart(i, phase) ==
    Become(i, [w[i] EXCEPT !.pc = "capture", !.phase = phase, !.conn = TRUE, !.unread = Keys,
                           !.snap = Zeros, !.snapLast = NoTimes, !.batch = {},
                           !.todo = {<<"cad", b>> : b \in StaleBuckets}])

(* At startup an error ends run_inner; at a tick it is logged and the      *)
(* flush goes ahead.                                                       *)
DrainDone(i) == IF w[i].phase = "start" THEN Return(i, "loop") ELSE FlushStart(i, "tick")
DrainFailed(i) == IF w[i].phase = "start" THEN Goto(i, "release") ELSE FlushStart(i, "tick")

DrainPendingBatch(i) ==
    /\ At(i, "drain")
    /\ \/ (w[i].shut \/ (group /\ pel = {})) /\ DrainDone(i) /\ NoFault
       \/ /\ ~w[i].shut /\ group /\ pel # {}
          /\ Become(i, [w[i] EXCEPT !.pc = "process", !.conn = TRUE, !.batch = Oldest(pel, BatchSize)])
          /\ NoFault
       \/ /\ ~w[i].shut
          /\ (~group /\ NoFault) \/ Fault("redis_err")
          /\ DrainFailed(i)
    /\ UNCHANGED <<streamVars, statsVars, dbVars, envVars>>

-----------------------------------------------------------------------------
(* event_loop: a biased select! between shutdown, the flush ticker and a   *)
(* blocked XREADGROUP.  The branch that wins drops the read: the command   *)
(* may still be blocked in Redis and take entries nobody will receive.     *)

AbandonRead == orphan' \in {orphan, group}

StopLoop_NoFlush(i) ==
    /\ At(i, "loop") /\ w[i].shut
    /\ Return(i, "release") /\ AbandonRead
    /\ UNCHANGED <<streamVars, statsVars, dbVars, processed, today, faults>>

StopLoop(i) ==
    /\ At(i, "loop") /\ w[i].shut
    /\ FlushStart(i, "final") /\ AbandonRead
    /\ UNCHANGED <<streamVars, statsVars, dbVars, processed, today, faults>>

Tick_NoDrain(i) ==
    /\ At(i, "loop") /\ ~w[i].shut
    /\ FlushStart(i, "tick") /\ AbandonRead
    /\ UNCHANGED <<streamVars, statsVars, dbVars, processed, today, faults>>

Tick(i) ==
    /\ At(i, "loop") /\ ~w[i].shut
    /\ Become(i, [w[i] EXCEPT !.pc = "drain", !.phase = "tick"]) /\ AbandonRead
    /\ UNCHANGED <<streamVars, statsVars, dbVars, processed, today, faults>>

Pending_NoAckMode(batch) == pel
Pending(batch) == pel \cup batch

Deliver ==
    /\ group /\ NewEntries # {}
    /\ pel' = Pending(Oldest(NewEntries, BatchSize))
    /\ \E e \in Oldest(NewEntries, BatchSize) :
        lastId' = e /\ \A f \in Oldest(NewEntries, BatchSize) : f <= e
    /\ UNCHANGED <<log, stream, group>>

(* A read that returns nothing or an error changes no state.               *)
ReadStream(i) ==
    /\ At(i, "loop") /\ ~w[i].shut
    /\ Deliver
    /\ Become(i, [w[i] EXCEPT !.pc = "connect", !.phase = "read", !.batch = Oldest(NewEntries, BatchSize)])
    /\ UNCHANGED <<statsVars, dbVars, envVars, faults>>

(* Without a connection to process it the batch stays in the PEL, as when  *)
(* the reply of the read is lost.                                          *)
ConnectForBatch(i) ==
    /\ At(i, "connect")
    /\ \/ Become(i, [w[i] EXCEPT !.pc = "process", !.conn = TRUE]) /\ NoFault
       \/ Fault("redis_err") /\ Return(i, "loop")
    /\ UNCHANGED <<streamVars, statsVars, dbVars, envVars>>

OrphanedRead ==
    /\ orphan /\ orphan' = FALSE
    /\ Deliver \/ UNCHANGED streamVars
    /\ UNCHANGED <<statsVars, dbVars, w, processed, today, faults>>

-----------------------------------------------------------------------------
(* Persistence::flush                                                      *)

AfterFlush(i) == Return(i, IF w[i].phase = "tick" THEN "loop" ELSE "release")

(* SCAN and one HGETALL per link hash, then the HGETALL of the global hash *)
NextHash_GlobalFirst(i) == IF Global \in w[i].unread THEN {Global} ELSE w[i].unread
NextHash(i) == IF w[i].unread = {Global} THEN {Global} ELSE w[i].unread \ {Global}

CaptureDailyCounts(i) ==
    /\ At(i, "capture") /\ w[i].conn
    /\ \E k \in NextHash(i) :
        Become(i, [w[i] EXCEPT !.unread = @ \ {k},
                               !.snap = [b \in Buckets |-> IF b[1] = k THEN counts[b] ELSE w[i].snap[b]]])
    /\ UNCHANGED <<streamVars, statsVars, dbVars, envVars, faults>>

(* MGET of the timestamps of the links that have a bucket.  A snapshot     *)
(* with no bucket at all ends the flush.                                   *)
LastClickedAtBatch(i) ==
    LET hasBucket(c) == \E d \in Days : w[i].snap[<<c, d>>] > 0
    IN  /\ At(i, "capture") /\ w[i].unread = {} /\ w[i].conn
        /\ IF w[i].snap = Zeros
           THEN AfterFlush(i)
           ELSE Become(i, [w[i] EXCEPT !.pc = "merge",
                            !.snapLast = [c \in Codes |-> IF hasBucket(c) THEN lastAt[c] ELSE Absent]])
        /\ UNCHANGED <<streamVars, statsVars, dbVars, envVars, faults>>

CaptureFailed(i) ==
    /\ At(i, "capture")
    /\ (~w[i].conn /\ NoFault) \/ Fault("redis_err")
    /\ AfterFlush(i)
    /\ UNCHANGED <<streamVars, statsVars, dbVars, envVars>>

(* SnapshotRepoPg::merge_snapshot.  Both statements on links skip a code   *)
(* that has no row any more.                                               *)
HasRow(b) == b[1] \in links \cup {Global}
Committed_DoNothing(snap) == [b \in Buckets |-> IF HasRow(b) /\ daily[b] = 0 THEN snap[b] ELSE daily[b]]
Committed(snap) == [b \in Buckets |-> IF HasRow(b) THEN Max2(daily[b], snap[b]) ELSE daily[b]]
LastClickUpdate_Overwrites(snap, last, c) == IF last[c] # Absent THEN last[c] ELSE lastClick[c]
LastClickUpdate(snap, last, c) ==
    IF last[c] # Absent THEN Max2(lastClick[c], last[c])
    ELSE IF \E d \in Days : snap[<<c, d>>] > daily[<<c, d>>] THEN Max2(lastClick[c], Epoch)
    ELSE lastClick[c]
CommitMerge(snap, last) ==
    /\ daily' = Committed(snap)
    /\ lastClick' = [c \in Codes |-> IF c \in links THEN LastClickUpdate(snap, last, c) ELSE lastClick[c]]

(* The merge and, once it is committed, the connection for reconciling.    *)
(* An error of the transaction leaves open whether it was committed.       *)
MergeSnapshot(i) ==
    LET s == w[i].snap
        present == {<<"cad", b>> : b \in {x \in Buckets : s[x] > 0}}
        values == [b \in Buckets |-> IF s[b] > 0 THEN Max2(daily[b], s[b]) ELSE 0]
    IN  /\ At(i, "merge")
        /\ \/ /\ CommitMerge(s, w[i].snapLast)
              /\ Become(i, [w[i] EXCEPT !.pc = "hmax", !.conn = TRUE, !.snap = values, !.snapLast = NoTimes,
                                        !.todo = HmaxCalls(s) \cup (@ \cap present)])
              /\ NoFault
           \/ /\ Fault("redis_err") \/ Fault("db_err")
              /\ CommitMerge(s, w[i].snapLast) /\ AfterFlush(i)
           \/ Fault("db_err") /\ UNCHANGED <<daily, lastClick>> /\ AfterFlush(i)
        /\ UNCHANGED <<streamVars, statsVars, lock, linkVars, envVars>>

-----------------------------------------------------------------------------
(* The loops of rehydrate and of reconcile_and_cleanup: the global hash    *)
(* before the link hashes, and in each all HMAX before the cleanup.        *)

Stage(call) == (IF call[2][1] = Global THEN 0 ELSE 2) + (IF call[1] = "hmax" THEN 0 ELSE 1)
Upcoming(i) == {call \in w[i].todo : \A other \in w[i].todo : Stage(call) <= Stage(other)}

(* A failed HMAX is logged and its bucket is not cleaned up.               *)
Hmax(i) ==
    /\ At(i, "hmax")
    /\ \E call \in Upcoming(i) :
        LET b == call[2] IN
        /\ call[1] = "hmax"
        /\ \/ /\ w[i].conn /\ HMAX_SCRIPT(b, w[i].snap[b]) /\ NoFault
              /\ Become(i, [w[i] EXCEPT !.todo = @ \ {call}])
           \/ /\ (~w[i].conn /\ NoFault) \/ Fault("redis_err")
              /\ Become(i, [w[i] EXCEPT !.todo = @ \ {call, <<"cad", b>>}])
              /\ UNCHANGED counts
    /\ UNCHANGED <<streamVars, lastAt, dbVars, envVars>>

CompareAndDelete(i) ==
    /\ At(i, "hmax")
    /\ \E call \in Upcoming(i) :
        /\ call[1] = "cad"
        /\ IF w[i].conn THEN COMPARE_AND_DELETE_SCRIPT(call[2], w[i].snap[call[2]]) ELSE UNCHANGED counts
        /\ Become(i, [w[i] EXCEPT !.todo = @ \ {call}])
    /\ UNCHANGED <<streamVars, lastAt, dbVars, envVars, faults>>

HmaxDone(i) ==
    /\ At(i, "hmax") /\ w[i].todo = {}
    /\ IF w[i].phase = "start" THEN BackToDrain(i) ELSE AfterFlush(i)
    /\ UNCHANGED <<streamVars, statsVars, dbVars, envVars, faults>>

-----------------------------------------------------------------------------
(* The surroundings                                                        *)

(* Gateway: the click is stamped, then appended by a task of its own, so a *)
(* stamp may be from before midnight.                                      *)
SendClickEvent ==
    /\ Len(log) < MaxEvents
    /\ \E event \in [code : Codes, at : Days \cap {today - 1, today}] \cup [code : {Malformed}, at : {today}] :
        log' = Append(log, event)
    /\ stream' = stream \cup {Len(log) + 1}
    /\ UNCHANGED <<group, lastId, pel, statsVars, dbVars, w, envVars, faults>>

NextDay ==
    /\ today < MaxDay /\ today' = today + 1
    /\ UNCHANGED <<streamVars, statsVars, dbVars, w, orphan, processed, faults>>

Shutdown(i) ==
    /\ w[i].pc # "down" /\ ~w[i].shut
    /\ Fault("shutdown")
    /\ Become(i, [w[i] EXCEPT !.shut = TRUE])
    /\ UNCHANGED <<streamVars, statsVars, dbVars, envVars>>

(* The process dies and its Postgres session with it.                      *)
Crash(i) ==
    /\ w[i].pc # "down"
    /\ Fault("crash")
    /\ Become(i, [Idle EXCEPT !.pc = "down"])
    /\ lock' = IF lock = i THEN NoInstance ELSE lock
    /\ UNCHANGED <<streamVars, statsVars, daily, lastClick, linkVars, envVars>>

Restart(i) ==
    /\ At(i, "down") /\ Become(i, Idle)
    /\ UNCHANGED <<streamVars, statsVars, dbVars, envVars, faults>>

(* The session that holds the lock breaks; its instance does not notice.   *)
LoseLock ==
    /\ lock # NoInstance /\ Fault("lock_loss") /\ lock' = NoInstance
    /\ UNCHANGED <<streamVars, statsVars, daily, lastClick, linkVars, w, envVars>>

(* Redis restarts empty (save "", appendonly no); connections break.       *)
RedisCrash ==
    /\ Fault("redis_crash")
    /\ stream' = {} /\ group' = FALSE /\ lastId' = 0 /\ pel' = {} /\ orphan' = FALSE
    /\ counts' = Zeros /\ lastAt' = NoTimes
    /\ lost' = TRUE /\ undated' = undated \cup (Codes \ links)
    /\ w' = [i \in Instances |-> [w[i] EXCEPT !.conn = FALSE]]
    /\ UNCHANGED <<log, daily, lastClick, lock, links, processed, today>>

(* The core service deletes a link, its days with it; the hashes in Redis  *)
(* and the snapshots on their way to Postgres still hold its clicks.       *)
DeleteLink(c) ==
    /\ c \in links /\ Fault("unlink")
    /\ links' = links \ {c} /\ undated' = IF lost THEN undated \cup {c} ELSE undated
    /\ daily' = [b \in Buckets |-> IF b[1] = c THEN 0 ELSE daily[b]]
    /\ lastClick' = [lastClick EXCEPT ![c] = Absent]
    /\ UNCHANGED <<streamVars, statsVars, lock, lost, w, envVars>>

(* It creates one with a code that is free.                                *)
CreateLink(c) ==
    /\ c \notin links /\ links' = links \cup {c}
    /\ UNCHANGED <<streamVars, statsVars, daily, lastClick, lock, lost, undated, w, envVars, faults>>

-----------------------------------------------------------------------------
Advance(i) ==
    \/ Acquire(i) \/ Release(i) \/ Pause(i) \/ EnsureConsumerGroup(i) \/ LoadDailyClicks(i)
    \/ ConnectForBatch(i) \/ ProcessEntry(i) \/ BatchDone(i) \/ DrainPendingBatch(i) \/ StopLoop(i)
    \/ CaptureDailyCounts(i) \/ LastClickedAtBatch(i) \/ CaptureFailed(i) \/ MergeSnapshot(i)
    \/ Hmax(i) \/ CompareAndDelete(i) \/ HmaxDone(i)

Next ==
    \/ \E i \in Instances : Advance(i) \/ Tick(i) \/ ReadStream(i) \/ Shutdown(i) \/ Crash(i) \/ Restart(i)
    \/ OrphanedRead \/ SendClickEvent \/ NextDay \/ LoseLock \/ RedisCrash
    \/ \E c \in Codes : DeleteLink(c) \/ CreateLink(c)

Spec == Init /\ [][Next]_vars

(* An instance keeps running and is restarted when it stops (compose sets  *)
(* restart: unless-stopped).  The ticker comes first in the select! and    *)
(* fires again and again; reads get their turn between ticks because a     *)
(* flush is shorter than flush_interval.                                   *)
Fairness ==
    /\ \A i \in Instances : WF_vars(Advance(i)) /\ WF_vars(Restart(i)) /\ SF_vars(Tick(i)) /\ SF_vars(ReadStream(i))
    /\ WF_vars(OrphanedRead)

FairSpec == Spec /\ Fairness

-----------------------------------------------------------------------------
(* Properties                                                              *)

PCs == {"acquire", "pause", "ensure", "load", "hmax", "drain", "process", "loop", "connect", "capture", "merge",
        "release", "down"}
Events == [code : Codes \cup {Malformed}, at : Days]
Calls == {"hmax", "cad"} \X Buckets
Times == {Absent, Epoch} \cup Days
Locals == [pc : PCs, phase : {"start", "tick", "final", "read"}, shut : BOOLEAN, conn : BOOLEAN,
           batch : SUBSET Nat, unread : SUBSET Keys, snap : [Buckets -> Nat], snapLast : [Codes -> Times],
           todo : SUBSET Calls]

WorkersOK ==
    w \in [Instances -> Locals] /\ \A i \in Instances : w[i].batch \subseteq DOMAIN log

(* Every variable has its type; the ids in use are those of appended       *)
(* entries, and what is pending for the group is still in the stream.      *)
TypeOK ==
    /\ log \in Seq(Events)
    /\ stream \subseteq DOMAIN log /\ pel \subseteq stream
    /\ group \in BOOLEAN /\ orphan \in BOOLEAN
    /\ lastId \in Nat /\ processed \in Nat /\ faults \in Nat
    /\ counts \in [Buckets -> Nat] /\ daily \in [Buckets -> Nat]
    /\ lastAt \in [Codes -> Times] /\ lastClick \in [Codes -> Times]
    /\ lock \in Instances \cup {NoInstance}
    /\ links \subseteq Codes /\ lost \in BOOLEAN /\ undated \subseteq Codes
    /\ today \in Days
    /\ WorkersOK

(* The clicks of a bucket, and how many of them have left the stream.      *)
Clicks(b) == {e \in DOMAIN log : log[e].code # Malformed /\ b \in EventBuckets(e)}
Handled(b) == Cardinality(Clicks(b) \ stream)

(* The pipeline is a ledger that counts every published click once and     *)
(* saves what it counted (runs without Redis data loss).                   *)
Ledger == INSTANCE ClickLedger WITH published <- log, pending <- stream, counted <- counts, saved <- daily
ImplementsLedger == Ledger!Spec

(* No click is ever counted twice, in Redis or in Postgres, whatever is    *)
(* retried: a batch claimed by two writers, entries left in the PEL, a     *)
(* snapshot merged again after a commit whose answer was lost, a           *)
(* rehydration on top of live counters.                                    *)
NoOvercount == \A b \in Buckets : counts[b] <= Handled(b) /\ daily[b] <= Handled(b)

(* As long as Redis keeps its data, every click that left the stream is in *)
(* the hashes exactly once: no error path and no second writer drops one.  *)
ExactCount == \A b \in Buckets : counts[b] = Handled(b)

(* The group's cursor never passes an entry that is not pending: what was  *)
(* delivered to a read nobody received, or to a process that died, can     *)
(* still be claimed.                                                       *)
NoEntryStranded == \A e \in stream : e \in pel \/ e > lastId

(* A writer at work holds the advisory lock, as long as its Postgres       *)
(* session lives.                                                          *)
SingleWriter == \A i \in Instances : w[i].pc \notin {"acquire", "pause", "down"} => lock = i

(* Postgres never shows more clicks on the links of a day than on the day: *)
(* a snapshot reads the link hashes before the global one, while a second  *)
(* writer may still be counting, and snapshots merge bucket by bucket.     *)
GlobalCoversLinks ==
    \A d \in Days : SumFunctionOnSet([c \in Codes |-> daily[<<c, d>>]], Codes) <= daily[<<Global, d>>]

(* A link with committed clicks of some day has a last click at least as   *)
(* late.  This outlasts a Redis restart that takes the timestamps, because *)
(* rehydrated counters are no news to Postgres, and it outlasts the        *)
(* deletion of the link and its creation anew, because the timestamps      *)
(* survive in Redis.  The one exception is a link that is created anew     *)
(* after such a restart, when counters without a timestamp are news to it. *)
LastClickCoversDays ==
    \A c \in Codes, d \in Days :
        daily[<<c, d>>] > 0 /\ c \notin undated => lastClick[c] >= d

(* After a Redis restart no click is counted on top of a bucket that lacks *)
(* what Postgres has of it: that click would be lost in the next merge.    *)
(* The consumer group dies with the counters, and only a writer about to   *)
(* rehydrate creates it again.                                             *)
RehydratedBeforeCounting ==
    [][\A e \in pel : e \notin stream' /\ group' =>
         \A b \in EventBuckets(e) : b \in Buckets /\ b[2] >= WindowStart => counts[b] >= daily[b]]_vars

(* When no instance is at work all that was counted is in Postgres: the    *)
(* final flush of a shutdown misses nothing, wherever the shutdown came.   *)
CleanHandover == lock = NoInstance => daily = counts

(* Whatever failed before, a flush that is committed leaves nothing in     *)
(* Redis that Postgres lacks, at least until it ends: the snapshot was     *)
(* read key by key and is written later, yet no click is counted meanwhile *)
(* and what is written back is not new to Postgres.                        *)
FlushSavesAll ==
    \A i \in Instances : At(i, "hmax") /\ w[i].phase # "start" => \A b \in Buckets : counts[b] <= daily[b]

(* As long as there is a consumer group every entry leaves the stream in   *)
(* the end, also one whose read was abandoned, whose processing failed, or *)
(* whose reader died.                                                      *)
EventuallyHandled == \A e \in 1 .. MaxEvents : (e \in stream /\ group) ~> e \notin stream

(* Whatever Redis lost before, a writer that takes over when nobody holds  *)
(* the lock handles the entries it finds: it creates the group anew from   *)
(* the start of the stream.  (A writer that was already in its loop when   *)
(* Redis restarted reads without a group until it restarts.)               *)
TakeoverHandlesBacklog ==
    \A e \in 1 .. MaxEvents : (e \in stream /\ lock = NoInstance) ~> e \notin stream

(* What was counted in Redis reaches Postgres, if Redis keeps it that long. *)
EventuallyPersisted ==
    \A b \in Buckets, n \in 1 .. MaxEvents : counts[b] >= n ~> daily[b] >= n \/ counts[b] < n

(* The metric counts the clicks the script processed.                      *)
EventsProcessedMetric ==
    processed = Cardinality({e \in DOMAIN log \ stream : log[e].code # Malformed})

(* A flush removes day buckets past the rolling window and the grace day.  *)
StaleBucketsCleanedUp ==
    \A b \in Buckets : (counts[b] > 0 /\ b \in StaleBuckets) ~> counts[b] = 0

=============================================================================
