----------------------------- MODULE LinkCache -----------------------------
(***************************************************************************)
(* Core's link service and its cache worker.  The gRPC handlers write the  *)
(* table links, and hand what the redirect cache shall hold to one worker  *)
(* through an unbounded queue; gateways redirect from the cache and ask    *)
(* core only when it misses.  Handlers run concurrently; one is dropped    *)
(* wherever it waits when its caller gives up.                             *)
(*                                                                         *)
(* Times are relative: what is stored is how long it still lasts.  A link  *)
(* is known by the number of its creation, which stands for its target.    *)
(***************************************************************************)
EXTENDS Integers, Sequences, FiniteSets

CONSTANTS
    Handlers,       \* requests core can be busy with
    Codes,
    Never,          \* a link without expiration
    Lifetimes,      \* expirations that links are created with, from now on
    Second,         \* ticks of a second
    CacheTtl,       \* config.redis.cache_ttl
    Retention,      \* how long after its expiration a link is purged (90 days)
    MaxWait,        \* bound: how long an operation waits for the worker
    MaxQueue,       \* bound: requests start while the queue is shorter
    MaxLinks,       \* bound: links ever asked for
    MaxFaults,      \* bound: faults of any kind in a behaviour
    FaultKinds      \* the faults that may happen

AllFaultKinds == {"cancel", "pool_err", "crash", "redis_crash", "shutdown"}

ASSUME ConstantsAssumption ==
    /\ Never \notin Int /\ Lifetimes \subseteq (Nat \ {0}) \cup {Never}
    /\ Second \in Nat \ {0} /\ CacheTtl \in Nat /\ MaxWait \in Nat /\ Retention \in Nat
    /\ MaxWait <= Retention
    /\ MaxQueue \in Nat /\ MaxLinks \in Nat /\ MaxFaults \in Nat
    /\ FaultKinds \subseteq AllFaultKinds

None == 0                       \* no link, or nothing cached
NoLink == [id |-> None, exp |-> Never]
NotCached == [id |-> None, ttl |-> 0]

VARIABLES
    links,      \* table links: each code's link and its expiration
    cache,      \* cache keys in Redis with their remaining TTL
    queue,      \* the channel to the cache worker
    worker,     \* what the worker does
    handlers,   \* each request's progress and what it read
    cancelled,  \* the shutdown token
    created,    \* numbers of the links asked for so far
    stored,     \* history: <<code, number>> of every row ever inserted
    raced,      \* history: codes with a Set that came too late or a lost Del
    faults

vars == <<links, cache, queue, worker, handlers, cancelled, created, stored, raced, faults>>

Free == [pc |-> "free", code |-> None, id |-> None, exp |-> Never]
NoOp == [op |-> "none", code |-> None, id |-> None, ttl |-> 0, age |-> 0]
Receiving == [pc |-> "recv", op |-> NoOp, closed |-> FALSE]

Init ==
    /\ links = [c \in Codes |-> NoLink] /\ cache = [c \in Codes |-> NotCached]
    /\ queue = <<>> /\ worker = Receiving
    /\ handlers = [h \in Handlers |-> Free]
    /\ cancelled = FALSE /\ created = 0 /\ stored = {} /\ raced = {} /\ faults = 0

-----------------------------------------------------------------------------
Min2(a, b) == IF a <= b THEN a ELSE b
Max2(a, b) == IF a >= b THEN a ELSE b

Fault(kind) == kind \in FaultKinds /\ faults < MaxFaults /\ faults' = faults + 1
At(h, l) == handlers[h].pc = l
Goto(h, l) == handlers' = [handlers EXCEPT ![h].pc = l]
Finish(h) == handlers' = [handlers EXCEPT ![h] = Free]

Expired(exp) == exp # Never /\ exp <= 0
WholeSeconds(ttl) == (ttl \div Second) * Second

(* A Del for the code is on its way: its row is gone, the cache will know. *)
DelAfter(c, k) == \E n \in DOMAIN queue : n > k /\ queue[n].op = "del" /\ queue[n].code = c
Deleting(c) == \E h \in Handlers : At(h, "deleted") /\ handlers[h].code = c
DelInWork(c) == worker.op.op = "del" /\ worker.op.code = c

-----------------------------------------------------------------------------
(* LinkService.  UnboundedSender::send fails when the worker closed the    *)
(* channel; the operation is lost.                                         *)

calculate_cache_ttl_Uncapped(exp) == IF exp = Never THEN CacheTtl ELSE Max2(exp, CacheTtl)
calculate_cache_ttl(exp) == IF exp = Never THEN CacheTtl ELSE Max2(0, Min2(exp, CacheTtl))

Cacheable_Any(ttl) == ttl >= 0
Cacheable(ttl) == WholeSeconds(ttl) > 0

SendSet(c, id, exp) ==
    LET ttl == calculate_cache_ttl(exp) IN
    IF Cacheable(ttl) /\ ~worker.closed
    THEN /\ queue' = Append(queue, [op |-> "set", code |-> c, id |-> id, ttl |-> ttl, age |-> 0])
         /\ raced' = IF links[c].id = id \/ Deleting(c) THEN raced ELSE raced \cup {c}
    ELSE UNCHANGED <<queue, raced>>

Del(c) == [op |-> "del", code |-> c, id |-> None, ttl |-> 0, age |-> 0]
SendDel(c) ==
    IF worker.closed
    THEN raced' = raced \cup {c} /\ UNCHANGED queue
    ELSE queue' = Append(queue, Del(c)) /\ UNCHANGED raced

Begin(h, r) ==
    /\ At(h, "free") /\ Len(queue) < MaxQueue
    /\ handlers' = [handlers EXCEPT ![h] = r]
    /\ UNCHANGED <<links, cache, queue, worker, cancelled, stored, raced, faults>>

(* create_link up to the insertion: the code is given or was seen to be    *)
(* free, an expiration in the past is refused.                             *)
CreateLink(h) ==
    /\ created < MaxLinks /\ created' = created + 1
    /\ \E c \in Codes, exp \in Lifetimes :
        Begin(h, [pc |-> "insert", code |-> c, id |-> created + 1, exp |-> exp])

InsertRow(h) ==
    LET c == handlers[h].code IN
    /\ At(h, "insert")
    /\ IF links[c] = NoLink
       THEN /\ links' = [links EXCEPT ![c] = [id |-> handlers[h].id, exp |-> handlers[h].exp]]
            /\ stored' = stored \cup {<<c, handlers[h].id>>}
            /\ Goto(h, "inserted")
       ELSE Finish(h) /\ UNCHANGED <<links, stored>>
    /\ UNCHANGED <<cache, queue, worker, cancelled, created, raced, faults>>

Inserted(h) ==
    /\ At(h, "inserted")
    /\ SendSet(handlers[h].code, handlers[h].id, handlers[h].exp) /\ Finish(h)
    /\ UNCHANGED <<links, cache, worker, cancelled, created, stored, faults>>

GetLink(h) ==
    /\ \E c \in Codes : Begin(h, [pc |-> "select", code |-> c, id |-> None, exp |-> Never])
    /\ UNCHANGED created

SelectRow(h) ==
    LET c == handlers[h].code
        row == links[c] IN
    /\ At(h, "select")
    /\ IF row = NoLink
       THEN Finish(h)
       ELSE handlers' = [handlers EXCEPT ![h] = [pc |-> "selected", code |-> c, id |-> row.id, exp |-> row.exp]]
    /\ UNCHANGED <<links, cache, queue, worker, cancelled, created, stored, raced, faults>>

Selected(h) ==
    /\ At(h, "selected") /\ Finish(h)
    /\ IF Expired(handlers[h].exp)
       THEN UNCHANGED <<queue, raced>>
       ELSE SendSet(handlers[h].code, handlers[h].id, handlers[h].exp)
    /\ UNCHANGED <<links, cache, worker, cancelled, created, stored, faults>>

DeleteLink(h) ==
    /\ \E c \in Codes : Begin(h, [pc |-> "delete", code |-> c, id |-> None, exp |-> Never])
    /\ UNCHANGED created

DeleteRow(h) ==
    LET c == handlers[h].code IN
    /\ At(h, "delete")
    /\ links' = [links EXCEPT ![c] = NoLink]
    /\ IF links[c] = NoLink THEN Finish(h) ELSE Goto(h, "deleted")
    /\ UNCHANGED <<cache, queue, worker, cancelled, created, stored, raced, faults>>

Deleted(h) ==
    /\ At(h, "deleted")
    /\ SendDel(handlers[h].code) /\ Finish(h)
    /\ UNCHANGED <<links, cache, worker, cancelled, created, stored, faults>>

(* The caller gave up (the gateway does after a second) or the database    *)
(* reports an error: the handler stops where it is.                        *)
Cancel(h) ==
    /\ ~At(h, "free") /\ Fault("cancel") /\ Finish(h)
    /\ raced' = IF At(h, "deleted") THEN raced \cup {handlers[h].code} ELSE raced
    /\ UNCHANGED <<links, cache, queue, worker, cancelled, created, stored>>

-----------------------------------------------------------------------------
(* The cache worker                                                        *)

NoExpiry == -1                  \* TTL of a key without one
SetEx_NoExpiry(ttl) == NoExpiry
SetEx(ttl) == WholeSeconds(ttl)
Executed_DelExpires(op, entry) ==
    IF op.op = "del" THEN [entry EXCEPT !.ttl = Min2(@, Second)]
    ELSE IF WholeSeconds(op.ttl) > 0 THEN [id |-> op.id, ttl |-> SetEx(op.ttl)]
    ELSE entry
Executed(op, entry) ==
    IF op.op = "del" THEN NotCached
    ELSE IF WholeSeconds(op.ttl) > 0 THEN [id |-> op.id, ttl |-> SetEx(op.ttl)]
    ELSE entry

Receive(op) ==
    /\ worker.pc = "recv"
    /\ worker' = [pc |-> "op", op |-> op, closed |-> worker.closed]

RecvOp ==
    /\ queue # <<>> /\ Receive(Head(queue)) /\ queue' = Tail(queue)
    /\ UNCHANGED <<links, cache, handlers, cancelled, created, stored, raced, faults>>

ProcessOp ==
    LET c == worker.op.code IN
    /\ worker.pc = "op"
    /\ worker' = [pc |-> "recv", op |-> NoOp, closed |-> worker.closed]
    /\ \/ /\ cache' = [cache EXCEPT ![c] = Executed(worker.op, @)]
          /\ UNCHANGED <<raced, faults>>
       \/ /\ Fault("pool_err")      \* no connection, or the command fails
          /\ raced' = IF worker.op.op = "del" THEN raced \cup {c} ELSE raced
          /\ UNCHANGED cache
    /\ UNCHANGED <<links, queue, handlers, cancelled, created, stored>>

(* The select prefers the queue to the token, but a request may still send *)
(* between the poll that found the queue empty and the close.              *)
CloseQueue ==
    /\ cancelled /\ worker.pc = "recv" /\ ~worker.closed
    /\ worker' = [worker EXCEPT !.closed = TRUE]
    /\ UNCHANGED <<links, cache, queue, handlers, cancelled, created, stored, raced, faults>>

Drained_Closed == worker.closed
Drained == worker.closed /\ queue = <<>>

WorkerExit ==
    /\ worker.pc = "recv" /\ Drained
    /\ worker' = [worker EXCEPT !.pc = "exited"]
    /\ UNCHANGED <<links, cache, queue, handlers, cancelled, created, stored, raced, faults>>

-----------------------------------------------------------------------------
(* The process and its surroundings                                        *)

Shutdown ==
    /\ ~cancelled /\ Fault("shutdown") /\ cancelled' = TRUE
    /\ UNCHANGED <<links, cache, queue, worker, handlers, created, stored, raced>>

StartAgain ==
    /\ queue' = <<>> /\ worker' = Receiving /\ cancelled' = FALSE
    /\ handlers' = [h \in Handlers |-> Free]
    /\ UNCHANGED <<links, cache, created, stored>>

(* The server stops once the worker has exited and the requests are done.  *)
ProcessEnds ==
    /\ worker.pc = "exited" /\ \A h \in Handlers : At(h, "free")
    /\ StartAgain /\ UNCHANGED <<raced, faults>>

Crash ==
    /\ Fault("crash") /\ StartAgain
    /\ raced' = raced \cup {c \in Codes : Deleting(c) \/ DelAfter(c, 0) \/ DelInWork(c)}

RedisCrash ==
    /\ Fault("redis_crash") /\ cache' = [c \in Codes |-> NotCached]
    /\ UNCHANGED <<links, queue, worker, handlers, cancelled, created, stored, raced>>

(* The pg_cron job delete-expired-links                                    *)
Purge(c) ==
    /\ links[c].exp = -Retention /\ links' = [links EXCEPT ![c] = NoLink]
    /\ UNCHANGED <<cache, queue, worker, handlers, cancelled, created, stored, raced, faults>>

Sooner(exp) == IF exp = Never THEN Never ELSE Max2(exp - 1, -Retention)
Older(op) == IF op.op = "set" THEN [op EXCEPT !.age = @ + 1] ELSE op
Remaining(entry) ==
    IF entry.ttl = NoExpiry THEN entry
    ELSE IF entry.ttl <= 1 THEN NotCached ELSE [entry EXCEPT !.ttl = @ - 1]

Tick ==
    /\ \A n \in DOMAIN queue : queue[n].age < MaxWait
    /\ worker.op.age < MaxWait
    /\ links' = [c \in Codes |-> [links[c] EXCEPT !.exp = Sooner(@)]]
    /\ cache' = [c \in Codes |-> Remaining(cache[c])]
    /\ queue' = [n \in DOMAIN queue |-> Older(queue[n])]
    /\ worker' = [worker EXCEPT !.op = Older(@)]
    /\ handlers' = [h \in Handlers |-> [handlers[h] EXCEPT !.exp = Sooner(@)]]
    /\ UNCHANGED <<cancelled, created, stored, raced, faults>>

Handle(h) ==
    \/ CreateLink(h) \/ InsertRow(h) \/ Inserted(h)
    \/ GetLink(h) \/ SelectRow(h) \/ Selected(h)
    \/ DeleteLink(h) \/ DeleteRow(h) \/ Deleted(h)

Work == RecvOp \/ ProcessOp \/ WorkerExit

Next ==
    \/ \E h \in Handlers : Handle(h) \/ Cancel(h)
    \/ Work \/ CloseQueue \/ ProcessEnds
    \/ Shutdown \/ Crash \/ RedisCrash \/ Tick
    \/ \E c \in Codes : Purge(c)

Spec == Init /\ [][Next]_vars

(* The worker is polled as long as it has something to do, time passes,    *)
(* and a process that ended is started again.                              *)
FairSpec == Spec /\ WF_vars(Work) /\ WF_vars(Tick) /\ WF_vars(ProcessEnds)

-----------------------------------------------------------------------------
(* Properties                                                              *)

Ids == 0 .. MaxLinks
Expirations == Int \cup {Never}
Ops == [op : {"none", "set", "del"}, code : Codes \cup {None}, id : Ids, ttl : Nat, age : Nat]

(* Every variable has its type; every Set in the queue has at least a      *)
(* whole second to live.                                                   *)
TypeOK ==
    /\ links \in [Codes -> [id : Ids, exp : Expirations]]
    /\ cache \in [Codes -> [id : Ids, ttl : Nat]]
    /\ queue \in Seq(Ops) /\ \A n \in DOMAIN queue : queue[n].op = "del" \/ WholeSeconds(queue[n].ttl) > 0
    /\ worker \in [pc : {"recv", "op", "exited"}, op : Ops, closed : BOOLEAN]
    /\ handlers \in [Handlers -> [pc : {"free", "insert", "inserted", "select", "selected", "delete", "deleted"},
                                  code : Codes \cup {None}, id : Ids, exp : Expirations]]
    /\ cancelled \in BOOLEAN /\ created \in Ids /\ stored \subseteq Codes \X Ids
    /\ raced \subseteq Codes /\ faults \in Nat

(* What a redirect of the code gets from the cache is what the code was    *)
(* created with at some time: the loser of two creations of one code never *)
(* reaches the cache.                                                      *)
OnlyStored == \A c \in Codes : cache[c].id # None => <<c, cache[c].id>> \in stored

(* A cached link that is not the code's link (any more) has a Del on its   *)
(* way, unless a Del was lost (a dropped handler, no connection, a closed  *)
(* channel, a crash) or a Set was sent for a row that was gone already.    *)
(* The queue and the single worker add no staleness of their own, and a    *)
(* shutdown loses nothing that was sent before the channel closed.         *)
StaleHasCause ==
    \A c \in Codes \ raced :
        cache[c].id \notin {None, links[c].id} => Deleting(c) \/ DelAfter(c, 0) \/ DelInWork(c)

(* The cache outlives the expiration of a link by no more than the time    *)
(* the Set waited for the worker.                                          *)
OverrunBoundedByWait ==
    \A c \in Codes :
        cache[c].id # None /\ cache[c].id = links[c].id /\ links[c].exp # Never
            => cache[c].ttl <= links[c].exp + MaxWait

(* Requests, queue and worker implement the cache of ServedLinks, which    *)
(* says what a step may do to an entry: it is filled only with a link of   *)
(* the code that has the time, with one that is gone only while a Del is   *)
(* coming, and a Del that came left it empty.                              *)
Removing == {c \in Codes : Deleting(c) \/ DelAfter(c, 0) \/ DelInWork(c)}
Served == INSTANCE ServedLinks WITH
    Empty <- NotCached, entry <- cache, known <- stored, removing <- Removing, astray <- raced
ImplementsServedLinks == Served!Spec

(* Whatever was lost or came too late, a code whose link is gone for good  *)
(* or has expired is not redirected from the cache for ever.               *)
DeadLinksLeaveCache ==
    \A c \in Codes :
        <>[](links[c] = NoLink \/ Expired(links[c].exp)) => <>[](cache[c] = NotCached)

=============================================================================
