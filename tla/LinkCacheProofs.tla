--------------------------- MODULE LinkCacheProofs ---------------------------
(***************************************************************************)
(* What the run cache checks of LinkCache, proved for any number of        *)
(* requests, codes, links and faults, and for all times to live.           *)
(***************************************************************************)
EXTENDS LinkCache, TLAPS

USE ConstantsAssumption DEF AllFaultKinds

-----------------------------------------------------------------------------
(* The inductive invariant, in five parts.                                 *)

Stored(c, id) == <<c, id>> \in stored

WorkOK(op) ==
    /\ op.op \in {"set", "del"} => op.code \in Codes
    /\ op.op = "set" => op.id # None /\ WholeSeconds(op.ttl) > 0
    /\ op.age <= MaxWait

(* Operations and requests are complete, and no cached key is out of time. *)
Requests == [pc : {"free", "insert", "inserted", "select", "selected", "delete", "deleted"},
             code : Codes \cup {None}, id : Ids, exp : Expirations]
RequestsOK ==
    /\ handlers \in [Handlers -> Requests]
    /\ \A h \in Handlers : ~At(h, "free") => handlers[h].code \in Codes
    /\ \A h \in Handlers : At(h, "insert") \/ At(h, "inserted") \/ At(h, "selected") => handlers[h].id # None
QueueOK ==
    /\ queue \in Seq(Ops)
    /\ \A n \in DOMAIN queue : queue[n].op # "none" /\ WorkOK(queue[n])
WorkerOK ==
    /\ worker \in [pc : {"recv", "op", "exited"}, op : Ops, closed : BOOLEAN]
    /\ WorkOK(worker.op) /\ (worker.pc = "op" <=> worker.op.op # "none")
    /\ worker.pc = "exited" => queue = <<>> /\ worker.closed
CacheOK ==
    /\ cache \in [Codes -> [id : Ids, ttl : Nat]]
    /\ \A c \in Codes : cache[c].id # None => cache[c].ttl > 0
TablesOK ==
    /\ links \in [Codes -> [id : Ids, exp : Expirations]] /\ \A c \in Codes : links[c].id = None <=> links[c] = NoLink
    /\ stored \subseteq Codes \X Ids /\ created \in Ids
    /\ raced \subseteq Codes /\ cancelled \in BOOLEAN /\ faults \in Nat
Formed == RequestsOK /\ QueueOK /\ WorkerOK /\ CacheOK /\ TablesOK

(* Only what was stored is ever on its way to the cache.                   *)
Known ==
    /\ \A c \in Codes : cache[c].id # None => Stored(c, cache[c].id)
    /\ \A c \in Codes : links[c] = NoLink \/ Stored(c, links[c].id)
    /\ \A n \in DOMAIN queue : queue[n].op = "set" => Stored(queue[n].code, queue[n].id)
    /\ worker.op.op = "set" => Stored(worker.op.code, worker.op.id)
    /\ \A h \in Handlers : At(h, "inserted") \/ At(h, "selected") => Stored(handlers[h].code, handlers[h].id)

(* The number of a link about to be inserted was not used before.          *)
NewIds ==
    /\ \A s \in stored : s[2] \in 1 .. created
    /\ \A h \in Handlers : At(h, "insert") =>
         /\ handlers[h].id \in 1 .. created
         /\ \A s \in stored : s[2] # handlers[h].id
         /\ \A g \in Handlers : At(g, "insert") /\ handlers[g].id = handlers[h].id => g = h

(* What is cached, or waits to be, was not given more time than the link   *)
(* has left, but for the time it waited.                                   *)
Due(c, id, ttl, slack) == links[c].id = id /\ links[c].exp # Never => ttl <= links[c].exp + slack
Timely ==
    /\ \A c \in Codes : cache[c].id # None => Due(c, cache[c].id, cache[c].ttl, MaxWait)
    /\ \A n \in DOMAIN queue : queue[n].op = "set" => Due(queue[n].code, queue[n].id, queue[n].ttl, queue[n].age)
    /\ worker.op.op = "set" => Due(worker.op.code, worker.op.id, worker.op.ttl, worker.op.age)
    /\ \A h \in Handlers : (At(h, "inserted") \/ At(h, "selected")) /\ links[handlers[h].code].id = handlers[h].id
          => handlers[h].exp = links[handlers[h].code].exp

(* Behind everything out of date that is cached, or waits to be, comes a   *)
(* Del.                                                                    *)
DelComing(c) == Deleting(c) \/ DelAfter(c, 0) \/ DelInWork(c)
TracedCache(c) == cache[c].id \in {None, links[c].id} \/ DelComing(c)
TracedQueue(c) == \A n \in DOMAIN queue : queue[n].op = "set" /\ queue[n].code = c =>
                     queue[n].id = links[c].id \/ Deleting(c) \/ DelAfter(c, n)
TracedWork(c) == worker.op.op = "set" /\ worker.op.code = c =>
                     worker.op.id = links[c].id \/ Deleting(c) \/ DelAfter(c, 0)
Traced == \A c \in Codes \ raced : TracedCache(c) /\ TracedQueue(c) /\ TracedWork(c)

-----------------------------------------------------------------------------
(* The units of TTLs and of the queue.                                     *)

(* Cutting a time to whole seconds makes it no longer.                     *)
LEMMA WholeSecondsBounds == \A t \in Nat : WholeSeconds(t) \in Nat /\ WholeSeconds(t) <= t
<1> SUFFICES ASSUME NEW t \in Nat PROVE WholeSeconds(t) \in Nat /\ WholeSeconds(t) <= t
  OBVIOUS
<1> DEFINE q == t \div Second
<1>1. q \in Nat /\ Second * q <= t
  OBVIOUS
<1>2. WholeSeconds(t) = Second * q
  BY <1>1 DEF WholeSeconds
<1>3. Second * q \in Nat
  BY <1>1
<1> QED BY <1>1, <1>2, <1>3

(* What the TTL of a Set is made of.                                       *)
LEMMA TtlBounds ==
  ASSUME NEW exp \in Expirations
  PROVE  /\ calculate_cache_ttl(exp) \in Nat
         /\ exp # Never /\ Cacheable(calculate_cache_ttl(exp)) => calculate_cache_ttl(exp) <= exp
<1>1. calculate_cache_ttl(exp) \in Nat
  BY DEF calculate_cache_ttl, Expirations, Max2, Min2
<1>2. Cacheable(calculate_cache_ttl(exp)) => calculate_cache_ttl(exp) > 0
  BY <1>1, WholeSecondsBounds DEF Cacheable
<1> QED BY <1>1, <1>2 DEF calculate_cache_ttl, Expirations, Max2, Min2

(* What a tick does to an expiration.                                      *)
LEMMA SoonerBounds ==
  ASSUME NEW exp \in Expirations
  PROVE  /\ exp # Never <=> Sooner(exp) # Never
         /\ exp # Never => exp \in Int /\ Sooner(exp) \in Int /\ exp - 1 <= Sooner(exp)
<1>1. CASE exp = Never
  BY <1>1 DEF Sooner
<1>2. CASE exp # Never
  BY <1>2 DEF Expirations, Sooner, Max2
<1> QED BY <1>1, <1>2

(* Sending.                                                                *)
LEMMA Sent ==
  ASSUME queue \in Seq(Ops), NEW op \in Ops, queue' = Append(queue, op)
  PROVE  /\ queue' \in Seq(Ops)
         /\ DOMAIN queue = 1 .. Len(queue) /\ DOMAIN queue' = 1 .. (Len(queue) + 1) /\ Len(queue) \in Nat
         /\ \A n \in DOMAIN queue : queue'[n] = queue[n]
         /\ queue'[Len(queue) + 1] = op
  OBVIOUS

(* Receiving.                                                              *)
LEMMA Received ==
  ASSUME queue \in Seq(Ops), queue # <<>>, queue' = Tail(queue)
  PROVE  /\ queue' \in Seq(Ops)
         /\ 1 \in DOMAIN queue /\ Head(queue) = queue[1] /\ DOMAIN queue \subseteq Nat
         /\ \A n \in DOMAIN queue' : n \in Nat /\ n > 0 /\ n + 1 \in DOMAIN queue /\ queue'[n] = queue[n + 1]
         /\ \A n \in DOMAIN queue : n > 1 => n - 1 \in DOMAIN queue'
  OBVIOUS

-----------------------------------------------------------------------------
(* Formed                                                                  *)

(* A Set that is sent has its link, and whole seconds to live.             *)
LEMMA SentSet ==
  ASSUME NEW c \in Codes, NEW id \in Ids \ {None}, NEW exp \in Expirations, SendSet(c, id, exp)
  PROVE  \/ UNCHANGED <<queue, raced>>
         \/ \E op \in Ops :
               /\ ~worker.closed /\ queue' = Append(queue, op)
               /\ op.op = "set" /\ op.code = c /\ op.id = id /\ op.age = 0 /\ WorkOK(op)
               /\ exp # Never => op.ttl <= exp
               /\ raced' = IF links[c].id = id \/ Deleting(c) THEN raced ELSE raced \cup {c}
<1> DEFINE ttl == calculate_cache_ttl(exp)
           op == [op |-> "set", code |-> c, id |-> id, ttl |-> ttl, age |-> 0]
<1>1. ttl \in Nat /\ (exp # Never /\ Cacheable(ttl) => ttl <= exp)
  BY TtlBounds
<1>2. op \in Ops /\ (Cacheable(ttl) => WorkOK(op))
  BY <1>1 DEF Ops, WorkOK, Cacheable
<1>3. CASE Cacheable(ttl) /\ ~worker.closed
  <2>1. /\ queue' = Append(queue, op)
        /\ raced' = IF links[c].id = id \/ Deleting(c) THEN raced ELSE raced \cup {c}
    BY <1>3 DEF SendSet
  <2>2. op.op = "set" /\ op.code = c /\ op.id = id /\ op.age = 0 /\ (exp # Never => op.ttl <= exp)
    BY <1>1, <1>3
  <2>3. op \in Ops /\ WorkOK(op) /\ ~worker.closed
    BY <1>2, <1>3
  <2> HIDE DEF op
  <2> QED BY <2>1, <2>2, <2>3
<1>4. CASE ~(Cacheable(ttl) /\ ~worker.closed)
  BY <1>4 DEF SendSet
<1> QED BY <1>3, <1>4

(* A Del that is sent.                                                     *)
LEMMA SentDel ==
  ASSUME NEW c \in Codes, SendDel(c)
  PROVE  \/ worker.closed /\ raced' = raced \cup {c} /\ UNCHANGED queue
         \/ \E op \in Ops :
               /\ ~worker.closed /\ queue' = Append(queue, op) /\ raced' = raced
               /\ op.op = "del" /\ op.code = c /\ WorkOK(op)
<1>1. Del(c) \in Ops /\ Del(c).op = "del" /\ Del(c).code = c /\ WorkOK(Del(c))
  BY DEF Del, Ops, WorkOK, Ids, None
<1> QED BY <1>1 DEF SendDel

(* Neither breaks the queue, or is sent to a worker that exited.           *)
LEMMA SentFormed ==
  ASSUME QueueOK, WorkerOK, NEW op \in Ops, queue' = Append(queue, op), op.op # "none", WorkOK(op),
         ~worker.closed, worker' = worker
  PROVE  QueueOK' /\ WorkerOK'
<1>1. /\ queue' \in Seq(Ops) /\ Len(queue) \in Nat
      /\ DOMAIN queue = 1 .. Len(queue) /\ DOMAIN queue' = 1 .. (Len(queue) + 1)
      /\ \A n \in DOMAIN queue : queue'[n] = queue[n]
      /\ queue'[Len(queue) + 1] = op
  BY Sent DEF QueueOK
<1>2. \A n \in DOMAIN queue' : (n \in DOMAIN queue /\ queue'[n] = queue[n]) \/ queue'[n] = op
  BY <1>1
<1>3. QueueOK'
  BY <1>1, <1>2 DEF QueueOK, WorkOK
<1> QED BY <1>3 DEF WorkerOK, WorkOK

(* A request moves on, or ends.                                            *)
LEMMA RequestMoves ==
  ASSUME RequestsOK, NEW h \in Handlers, NEW r \in Requests,
         r.pc # "free" => r.code \in Codes,
         r.pc = "insert" \/ r.pc = "inserted" \/ r.pc = "selected" => r.id # None,
         handlers' = [handlers EXCEPT ![h] = r]
  PROVE  RequestsOK'
BY DEF RequestsOK, At

(* A request that ended is free.                                           *)
LEMMA RequestEnds ==
  ASSUME RequestsOK, NEW h \in Handlers, Finish(h)
  PROVE  RequestsOK'
<1>1. Free \in Requests /\ Free.pc = "free"
  BY DEF Free, Requests, Ids, None, Expirations
<1> QED BY <1>1, RequestMoves DEF Finish

(* What a tick does to an operation.                                       *)
LEMMA OlderOp ==
  ASSUME NEW op \in Ops
  PROVE  /\ Older(op) \in Ops /\ Older(op).op = op.op /\ Older(op).code = op.code /\ Older(op).id = op.id
         /\ Older(op).ttl = op.ttl
         /\ Older(op).age = op.age + (IF op.op = "set" THEN 1 ELSE 0)
  BY DEF Older, Ops

(* Every step keeps operations, requests and keys complete.                *)
LEMMA FormedStep == Formed /\ [Next]_vars => Formed'
<1> SUFFICES ASSUME Formed, [Next]_vars PROVE Formed'
  OBVIOUS
<1> USE DEF Formed
<1>0. \A h \in Handlers : handlers[h] \in Requests
  BY DEF RequestsOK
<1>1. ASSUME NEW h \in Handlers, CreateLink(h) PROVE Formed'
  <2>1. PICK c \in Codes, exp \in Lifetimes : Begin(h, [pc |-> "insert", code |-> c, id |-> created + 1, exp |-> exp])
    BY <1>1 DEF CreateLink
  <2>2. created + 1 \in Ids \ {None} /\ created' = created + 1
    BY <1>1 DEF CreateLink, TablesOK, Ids, None
  <2>3. [pc |-> "insert", code |-> c, id |-> created + 1, exp |-> exp] \in Requests
    BY <2>2 DEF Requests, Expirations
  <2>4. RequestsOK'
    BY <2>1, <2>2, <2>3, RequestMoves, RequestEnds DEF Begin
  <2> QED BY <2>1, <2>2, <2>4 DEF Begin, QueueOK, WorkerOK, WorkOK, CacheOK, TablesOK
<1>2. ASSUME NEW h \in Handlers, InsertRow(h) PROVE Formed'
  <2>1. handlers[h].code \in Codes /\ handlers[h].id \in Ids \ {None} /\ handlers[h].exp \in Expirations
    BY <1>0, <1>2 DEF InsertRow, RequestsOK, At, Requests
  <2>2. [handlers[h] EXCEPT !.pc = "inserted"] \in Requests
    BY <1>0 DEF Requests
  <2>3. RequestsOK'
    BY <1>2, <2>1, <2>2, RequestMoves, RequestEnds DEF InsertRow, Goto, Requests
  <2>4. TablesOK'
    BY <1>2, <2>1 DEF InsertRow, TablesOK, NoLink
  <2> QED BY <1>2, <2>3, <2>4 DEF InsertRow, QueueOK, WorkerOK, WorkOK, CacheOK
<1>3. ASSUME NEW h \in Handlers, Inserted(h) \/ Selected(h) PROVE Formed'
  <2>1. handlers[h].code \in Codes /\ handlers[h].id \in Ids \ {None} /\ handlers[h].exp \in Expirations
    BY <1>0, <1>3 DEF Inserted, Selected, RequestsOK, At, Requests
  <2>2. RequestsOK' /\ CacheOK' /\ raced' \subseteq Codes => TablesOK'
    BY <1>3, RequestMoves, RequestEnds DEF Inserted, Selected, CacheOK, TablesOK
  <2>3. RequestsOK' /\ CacheOK'
    BY <1>3, RequestMoves, RequestEnds DEF Inserted, Selected, CacheOK
  <2>4. CASE UNCHANGED <<queue, raced>>
    BY <1>3, <2>3, <2>4 DEF Inserted, Selected, QueueOK, WorkerOK, WorkOK, TablesOK
  <2>5. CASE SendSet(handlers[h].code, handlers[h].id, handlers[h].exp)
    <3>1. QueueOK' /\ WorkerOK' /\ raced' \subseteq Codes
      BY <1>3, <2>1, <2>5, SentSet, SentFormed DEF Inserted, Selected, QueueOK, WorkerOK, WorkOK, TablesOK
    <3> QED BY <2>2, <2>3, <3>1, <1>3 DEF Inserted, Selected, TablesOK
  <2> QED BY <1>3, <2>4, <2>5 DEF Inserted, Selected
<1>4. ASSUME NEW h \in Handlers, GetLink(h) \/ DeleteLink(h) PROVE Formed'
  <2>1. PICK c \in Codes, l \in {"select", "delete"} : Begin(h, [pc |-> l, code |-> c, id |-> None, exp |-> Never])
    BY <1>4 DEF GetLink, DeleteLink
  <2> DEFINE r == [pc |-> l, code |-> c, id |-> None, exp |-> Never]
  <2>2. r \in Requests /\ r.code \in Codes /\ (r.pc = "select" \/ r.pc = "delete")
    BY DEF Requests, Ids, None, Expirations
  <2>5. handlers' = [handlers EXCEPT ![h] = r]
    BY <2>1 DEF Begin
  <2> HIDE DEF r
  <2>3. RequestsOK'
    BY <2>2, <2>5, RequestMoves, RequestEnds
  <2>4. created' = created
    BY <1>4 DEF GetLink, DeleteLink
  <2> QED BY <2>1, <2>3, <2>4 DEF Begin, QueueOK, WorkerOK, WorkOK, CacheOK, TablesOK
<1>5. ASSUME NEW h \in Handlers, SelectRow(h) PROVE Formed'
  <2> DEFINE row == links[handlers[h].code]
             r == [pc |-> "selected", code |-> handlers[h].code, id |-> row.id, exp |-> row.exp]
  <2>1. handlers[h].code \in Codes
    BY <1>0, <1>5 DEF SelectRow, RequestsOK, At
  <2>2. row \in [id : Ids, exp : Expirations] /\ (row # NoLink => row.id # None)
    BY <2>1 DEF TablesOK
  <2>3. r \in Requests /\ r.code \in Codes /\ r.id = row.id /\ r.pc = "selected"
    BY <1>0, <2>1, <2>2 DEF Requests
  <2>4. Finish(h) \/ (row.id # None /\ handlers' = [handlers EXCEPT ![h] = r])
    BY <1>5, <2>2 DEF SelectRow
  <2> HIDE DEF r
  <2>5. RequestsOK'
    BY <2>3, <2>4, RequestMoves, RequestEnds
  <2> QED BY <1>5, <2>5 DEF SelectRow, QueueOK, WorkerOK, WorkOK, CacheOK, TablesOK
<1>6. ASSUME NEW h \in Handlers, DeleteRow(h) PROVE Formed'
  <2>1. handlers[h].code \in Codes
    BY <1>0, <1>6 DEF DeleteRow, RequestsOK, At
  <2> DEFINE r == [handlers[h] EXCEPT !.pc = "deleted"]
  <2>2. r \in Requests /\ r.code \in Codes /\ r.pc = "deleted"
    BY <1>0, <2>1 DEF Requests
  <2>5. Finish(h) \/ handlers' = [handlers EXCEPT ![h] = r]
    BY <1>6 DEF DeleteRow, Goto
  <2> HIDE DEF r
  <2>3. RequestsOK'
    BY <2>2, <2>5, RequestMoves, RequestEnds
  <2>4. TablesOK'
    BY <1>6, <2>1 DEF DeleteRow, TablesOK, NoLink, Ids, None, Expirations
  <2> QED BY <1>6, <2>3, <2>4 DEF DeleteRow, QueueOK, WorkerOK, WorkOK, CacheOK
<1>7. ASSUME NEW h \in Handlers, Deleted(h) PROVE Formed'
  <2>1. handlers[h].code \in Codes
    BY <1>0, <1>7 DEF Deleted, RequestsOK, At
  <2>2. RequestsOK'
    BY <1>7, RequestMoves, RequestEnds DEF Deleted
  <2>3. QueueOK' /\ WorkerOK' /\ raced' \subseteq Codes
    BY <1>7, <2>1, SentDel, SentFormed DEF Deleted, QueueOK, WorkerOK, WorkOK, TablesOK
  <2> QED BY <1>7, <2>2, <2>3 DEF Deleted, CacheOK, TablesOK
<1>8. ASSUME NEW h \in Handlers, Cancel(h) PROVE Formed'
  <2>1. RequestsOK' /\ faults' \in Nat /\ raced' \subseteq Codes
    BY <1>0, <1>8, RequestMoves, RequestEnds DEF Cancel, Fault, TablesOK, RequestsOK, At
  <2> QED BY <1>8, <2>1 DEF Cancel, QueueOK, WorkerOK, WorkOK, CacheOK, TablesOK
<1>9. ASSUME RecvOp PROVE Formed'
  <2>1. /\ queue' \in Seq(Ops) /\ Head(queue) \in Ops /\ Head(queue) = queue[1] /\ 1 \in DOMAIN queue
        /\ \A n \in DOMAIN queue' : n + 1 \in DOMAIN queue /\ queue'[n] = queue[n + 1]
    BY <1>9, Received DEF RecvOp, QueueOK
  <2>2. QueueOK'
    BY <2>1 DEF QueueOK, WorkOK
  <2>3. WorkerOK'
    BY <1>9, <2>1 DEF RecvOp, Receive, WorkerOK, QueueOK, WorkOK
  <2> QED BY <1>9, <2>2, <2>3 DEF RecvOp, RequestsOK, At, CacheOK, TablesOK
<1>10. ASSUME ProcessOp PROVE Formed'
  <2>1. WorkerOK' /\ QueueOK'
    BY <1>10 DEF ProcessOp, WorkerOK, QueueOK, WorkOK, NoOp, Ops, Ids, None
  <2>2. worker.op \in Ops /\ WorkOK(worker.op) /\ worker.op.op \in {"set", "del"} /\ worker.op.code \in Codes
    BY <1>10 DEF ProcessOp, WorkerOK, WorkOK, Ops
  <2>3. \A entry \in [id : Ids, ttl : Nat] :
          /\ Executed(worker.op, entry) \in [id : Ids, ttl : Nat]
          /\ Executed(worker.op, entry).id # None => Executed(worker.op, entry).ttl > 0
    BY <2>2, WholeSecondsBounds DEF Executed, SetEx, WorkOK, Ops, NotCached, Ids, None
  <2>4. CacheOK'
    BY <1>10, <2>2, <2>3 DEF ProcessOp, CacheOK
  <2>5. raced' \subseteq Codes /\ faults' \in Nat
    BY <1>10, <2>2 DEF ProcessOp, TablesOK, Fault
  <2> QED BY <1>10, <2>1, <2>4, <2>5 DEF ProcessOp, RequestsOK, At, TablesOK
<1>11. ASSUME WorkerExit \/ CloseQueue \/ Shutdown PROVE Formed'
  <2>1. WorkerOK'
    <3>1. CASE WorkerExit
      <4>1. worker'.op = worker.op /\ worker'.closed = worker.closed /\ worker'.pc = "exited" /\ worker.pc = "recv"
        BY <3>1 DEF WorkerExit, WorkerOK
      <4>2. worker' \in [pc : {"recv", "op", "exited"}, op : Ops, closed : BOOLEAN]
        BY <3>1 DEF WorkerExit, WorkerOK
      <4> QED BY <3>1, <4>1, <4>2 DEF WorkerExit, Drained, WorkerOK, WorkOK
    <3>2. CASE CloseQueue
      <4>1. worker'.op = worker.op /\ worker'.closed = TRUE /\ worker'.pc = worker.pc /\ worker.pc = "recv"
        BY <3>2 DEF CloseQueue, WorkerOK
      <4>2. worker' \in [pc : {"recv", "op", "exited"}, op : Ops, closed : BOOLEAN]
        BY <3>2 DEF CloseQueue, WorkerOK
      <4> QED BY <3>2, <4>1, <4>2 DEF WorkerOK, WorkOK
    <3>3. CASE Shutdown
      BY <3>3 DEF Shutdown, WorkerOK, WorkOK
    <3> QED BY <1>11, <3>1, <3>2, <3>3
  <2>2. TablesOK'
    <3>1. faults' \in Nat /\ UNCHANGED <<links, stored, created, raced>>
      BY <1>11 DEF WorkerExit, CloseQueue, Shutdown, Fault, TablesOK
    <3>2. cancelled' = TRUE \/ cancelled' = cancelled
      BY <1>11 DEF WorkerExit, CloseQueue, Shutdown
    <3>3. cancelled' \in BOOLEAN
      BY <3>2 DEF TablesOK
    <3> QED BY <3>1, <3>3 DEF TablesOK
  <2> QED BY <1>11, <2>1, <2>2 DEF WorkerExit, CloseQueue, Shutdown, RequestsOK, QueueOK, WorkOK, At, CacheOK
<1>12. ASSUME StartAgain, raced' \subseteq Codes, faults' \in Nat PROVE Formed'
  <2>1. RequestsOK'
    BY <1>12 DEF StartAgain, RequestsOK, At, Requests, Free, Ids, None, Expirations
  <2>2. QueueOK' /\ WorkerOK'
    BY <1>12 DEF StartAgain, QueueOK, WorkerOK, WorkOK, Receiving, NoOp, Ops, Ids, None
  <2> QED BY <1>12, <2>1, <2>2 DEF StartAgain, CacheOK, TablesOK
<1>13. ASSUME ProcessEnds \/ Crash PROVE Formed'
  <2>1. raced' \subseteq Codes /\ faults' \in Nat
    BY <1>13 DEF ProcessEnds, Crash, Fault, TablesOK
  <2> QED BY <1>12, <1>13, <2>1 DEF ProcessEnds, Crash
<1>14. ASSUME RedisCrash PROVE Formed'
  <2>1. CacheOK'
    BY <1>14 DEF RedisCrash, CacheOK, NotCached, Ids, None
  <2> QED BY <1>14, <2>1 DEF RedisCrash, Fault, RequestsOK, QueueOK, WorkerOK, WorkOK, At, TablesOK
<1>15. ASSUME NEW c \in Codes, Purge(c) PROVE Formed'
  <2>1. TablesOK'
    BY <1>15 DEF Purge, TablesOK, NoLink, Ids, None, Expirations
  <2> QED BY <1>15, <2>1 DEF Purge, RequestsOK, QueueOK, WorkerOK, WorkOK, At, CacheOK
<1>16. ASSUME Tick PROVE Formed'
  <2>1. \A exp \in Expirations : Sooner(exp) \in Expirations /\ (exp = Never <=> Sooner(exp) = Never)
    BY DEF Expirations, Sooner, Max2
  <2>2. RequestsOK'
    BY <1>0, <1>16, <2>1 DEF Tick, RequestsOK, At, Requests
  <2>3. QueueOK'
    <3>1. queue' \in Seq(Ops) /\ DOMAIN queue' = DOMAIN queue
      BY <1>16, OlderOp DEF Tick, QueueOK
    <3>2. ASSUME NEW n \in DOMAIN queue PROVE queue'[n].op # "none" /\ WorkOK(queue[n])'
      <4>1. queue[n] \in Ops /\ queue'[n] = Older(queue[n]) /\ queue[n].age < MaxWait
        BY <1>16 DEF Tick, QueueOK
      <4> QED BY <4>1, OlderOp DEF QueueOK, WorkOK, Ops
    <3> QED BY <3>1, <3>2 DEF QueueOK
  <2>4. WorkerOK'
    <3>1. worker'.pc = worker.pc /\ worker'.closed = worker.closed /\ worker'.op = Older(worker.op)
      BY <1>16 DEF Tick, WorkerOK
    <3>2. worker.op \in Ops /\ worker.op.age < MaxWait
      BY <1>16 DEF Tick, WorkerOK
    <3>3. Older(worker.op) \in Ops /\ WorkOK(Older(worker.op))
      BY <3>2, OlderOp DEF WorkerOK, WorkOK, Ops
    <3>4. worker' \in [pc : {"recv", "op", "exited"}, op : Ops, closed : BOOLEAN]
      BY <1>16, <3>3 DEF Tick, WorkerOK
    <3>5. queue = <<>> => queue' = <<>>
      BY <1>16 DEF Tick
    <3> QED BY <3>1, <3>2, <3>3, <3>4, <3>5, OlderOp DEF WorkerOK, WorkOK
  <2>5. CacheOK'
    BY <1>16 DEF Tick, CacheOK, Remaining, NoExpiry, NotCached, Ids, None
  <2>6. TablesOK'
    BY <1>16, <2>1 DEF Tick, TablesOK, NoLink, None
  <2> QED BY <2>2, <2>3, <2>4, <2>5, <2>6
<1>17. CASE UNCHANGED vars
  BY <1>17 DEF vars, RequestsOK, QueueOK, WorkerOK, WorkOK, At, CacheOK, TablesOK
<1> QED
  BY <1>1, <1>2, <1>3, <1>4, <1>5, <1>6, <1>7, <1>8, <1>9, <1>10, <1>11, <1>13, <1>14, <1>15, <1>16, <1>17
     DEF Next, Handle, Work

(* Core starts with an idle worker and free requests.                      *)
LEMMA InitFormed == Init => Formed
<1> SUFFICES ASSUME Init PROVE Formed
  OBVIOUS
<1>1. RequestsOK
  BY DEF Init, RequestsOK, At, Requests, Free, Ids, None, Expirations
<1>2. QueueOK /\ WorkerOK
  BY DEF Init, QueueOK, WorkerOK, WorkOK, Receiving, NoOp, Ops, Ids, None
<1>3. CacheOK /\ TablesOK
  <2>1. CacheOK
    BY DEF Init, CacheOK, NotCached, Ids, None
  <2>2. links \in [Codes -> [id : Ids, exp : Expirations]] /\ \A c \in Codes : links[c] = NoLink
    BY DEF Init, NoLink, Ids, None, Expirations
  <2>3. created \in Ids /\ faults \in Nat
    BY DEF Init, Ids
  <2>5. cancelled \in BOOLEAN
    BY DEF Init
  <2>4. stored \subseteq Codes \X Ids /\ raced \subseteq Codes
    BY DEF Init
  <2> QED BY <2>1, <2>2, <2>3, <2>4, <2>5 DEF TablesOK, NoLink
<1> QED BY <1>1, <1>2, <1>3 DEF Formed

(* No step of core, its callers or its surroundings leaves a variable      *)
(* outside its type, and no Set without a whole second to live is sent.    *)
THEOREM TypeCorrect == Spec => []TypeOK
<1>1. Spec => []Formed
  BY InitFormed, FormedStep, PTL DEF Spec
<1>2. Formed => TypeOK
  <2> SUFFICES ASSUME Formed PROVE TypeOK
    OBVIOUS
  <2>1. queue \in Seq(Ops) /\ \A n \in DOMAIN queue : queue[n].op = "del" \/ WholeSeconds(queue[n].ttl) > 0
    <3>1. \A n \in DOMAIN queue : queue[n] \in Ops
      BY DEF Formed, QueueOK
    <3> QED BY <3>1 DEF Formed, QueueOK, WorkOK, Ops
  <2>2. handlers \in [Handlers -> [pc : {"free", "insert", "inserted", "select", "selected", "delete", "deleted"},
                                  code : Codes \cup {None}, id : Ids, exp : Expirations]]
    BY DEF Formed, RequestsOK, Requests
  <2> QED BY <2>1, <2>2 DEF Formed, WorkerOK, CacheOK, TablesOK, TypeOK
<1> QED BY <1>1, <1>2, PTL

-----------------------------------------------------------------------------
(* Known                                                                   *)

(* What the proofs below use of a formed state: of a request,              *)
LEMMA RequestFacts ==
  ASSUME Formed, NEW h \in Handlers
  PROVE  /\ handlers[h] \in Requests /\ handlers[h].exp \in Expirations
         /\ handlers[h].pc # "free" => handlers[h].code \in Codes
         /\ handlers[h].pc = "insert" \/ handlers[h].pc = "inserted" \/ handlers[h].pc = "selected"
              => handlers[h].id \in Ids \ {None}
BY DEF Formed, RequestsOK, Requests, At

(* of an operation in the queue,                                           *)
LEMMA QueueFacts ==
  ASSUME Formed, NEW n \in DOMAIN queue
  PROVE  /\ queue[n] \in Ops /\ queue[n].op \in {"set", "del"} /\ queue[n].code \in Codes
         /\ queue[n].op = "set" => queue[n].id # None /\ queue[n].ttl > 0
         /\ queue[n].ttl \in Nat /\ queue[n].age \in Nat /\ queue[n].age <= MaxWait
<1>1. queue[n] \in Ops /\ queue[n].op # "none" /\ WorkOK(queue[n])
  BY DEF Formed, QueueOK
<1>2. queue[n].ttl \in Nat
  BY <1>1 DEF Ops
<1>3. WholeSeconds(queue[n].ttl) > 0 => queue[n].ttl > 0
  BY <1>2, WholeSecondsBounds
<1> QED BY <1>1, <1>3 DEF WorkOK, Ops

(* and of the operation in work.                                           *)
LEMMA WorkFacts ==
  ASSUME Formed
  PROVE  /\ worker.op \in Ops
         /\ worker.op.op \in {"set", "del"} => worker.op.code \in Codes
         /\ worker.op.op = "set" => worker.op.id # None /\ worker.op.ttl > 0 /\ WholeSeconds(worker.op.ttl) > 0
         /\ worker.op.ttl \in Nat /\ worker.op.age \in Nat /\ worker.op.age <= MaxWait
         /\ worker.pc = "op" <=> worker.op.op # "none"
<1>1. worker.op \in Ops /\ WorkOK(worker.op) /\ (worker.pc = "op" <=> worker.op.op # "none")
  BY DEF Formed, WorkerOK
<1>2. worker.op.ttl \in Nat
  BY <1>1 DEF Ops
<1>3. WholeSeconds(worker.op.ttl) > 0 => worker.op.ttl > 0
  BY <1>2, WholeSecondsBounds
<1> QED BY <1>1, <1>3 DEF WorkOK, Ops

(* No step makes up a link: rows are recorded when they are inserted, and  *)
(* requests pass on what they read.                                        *)
LEMMA KnownStep == Formed /\ Known /\ [Next]_vars => Known'
<1> SUFFICES ASSUME Formed, Known, [Next]_vars PROVE Known'
  OBVIOUS
<1> DEFINE KnownTables == /\ \A c \in Codes : cache[c].id # None => Stored(c, cache[c].id)
                          /\ \A c \in Codes : links[c] = NoLink \/ Stored(c, links[c].id)
           KnownQueue == \A n \in DOMAIN queue : queue[n].op = "set" => Stored(queue[n].code, queue[n].id)
           KnownWork == worker.op.op = "set" => Stored(worker.op.code, worker.op.id)
           KnownRead == \A h \in Handlers : At(h, "inserted") \/ At(h, "selected")
                           => Stored(handlers[h].code, handlers[h].id)
<1>0. Known <=> KnownTables /\ KnownQueue /\ KnownWork /\ KnownRead
  BY DEF Known
<1>n. Known' <=> KnownTables' /\ KnownQueue' /\ KnownWork' /\ KnownRead'
  BY DEF Known
<1>1. ASSUME NEW h \in Handlers, NEW r, Begin(h, r), r.pc \in {"insert", "select", "delete"} PROVE Known'
  <2>1. KnownRead'
    BY <1>0, <1>1 DEF Begin, At, Stored, Formed, RequestsOK
  <2> QED BY <1>0, <1>n, <1>1, <2>1 DEF Begin, Stored
<1>2. ASSUME NEW h \in Handlers, InsertRow(h) PROVE Known'
  <2>1. stored \subseteq stored' /\ handlers[h].code \in Codes
    BY <1>2, RequestFacts DEF InsertRow, At
  <2>2. KnownTables'
    BY <1>0, <1>2, <2>1 DEF InsertRow, Stored, Formed, TablesOK
  <2>3. KnownRead'
    BY <1>0, <1>2, <2>1 DEF InsertRow, Goto, Finish, Free, At, Stored, Formed, RequestsOK, Requests
  <2> QED BY <1>0, <1>n, <1>2, <2>1, <2>2, <2>3 DEF InsertRow, Stored
<1>3. ASSUME NEW h \in Handlers, Finish(h), UNCHANGED <<cache, worker, stored>>,
             links' = links \/ \E c \in Codes : links' = [links EXCEPT ![c] = NoLink],
             \/ queue' = queue
             \/ \E op \in Ops : queue' = Append(queue, op) /\ (op.op = "set" => Stored(op.code, op.id))
      PROVE  Known'
  <2>1. KnownRead'
    BY <1>0, <1>3 DEF Finish, Free, At, Stored, Formed, RequestsOK
  <2>2. KnownQueue'
    <3>1. CASE queue' = queue
      BY <1>0, <1>3, <3>1 DEF Stored
    <3>2. ASSUME NEW op \in Ops, queue' = Append(queue, op), op.op = "set" => Stored(op.code, op.id)
          PROVE  KnownQueue'
      <4>1. \A n \in DOMAIN queue' : (n \in DOMAIN queue /\ queue'[n] = queue[n]) \/ queue'[n] = op
        BY <3>2, Sent DEF Formed, QueueOK
      <4> QED BY <1>0, <1>3, <3>2, <4>1 DEF Stored
    <3> QED BY <1>3, <3>1, <3>2
  <2>3. KnownTables'
    BY <1>0, <1>3 DEF Stored, Formed, TablesOK
  <2> QED BY <1>0, <1>n, <1>3, <2>1, <2>2, <2>3 DEF Stored
<1>4. ASSUME NEW h \in Handlers, Inserted(h) \/ Selected(h) PROVE Known'
  <2>1. /\ handlers[h].code \in Codes /\ handlers[h].id \in Ids \ {None} /\ handlers[h].exp \in Expirations
        /\ Stored(handlers[h].code, handlers[h].id)
    BY <1>0, <1>4, RequestFacts DEF Inserted, Selected, At
  <2>2. \/ queue' = queue
        \/ \E op \in Ops : queue' = Append(queue, op) /\ Stored(op.code, op.id)
    BY <1>4, <2>1, SentSet DEF Inserted, Selected
  <2> QED BY <1>3, <1>4, <2>2 DEF Inserted, Selected
<1>5. ASSUME NEW h \in Handlers, SelectRow(h) PROVE Known'
  <2>1. handlers[h].code \in Codes
    BY <1>5, RequestFacts DEF SelectRow, At
  <2>2. CASE links[handlers[h].code] = NoLink
    BY <1>3, <1>5, <2>2 DEF SelectRow
  <2>3. CASE links[handlers[h].code] # NoLink
    <3>1. KnownRead'
      BY <1>0, <1>5, <2>1, <2>3 DEF SelectRow, At, Stored, Formed, RequestsOK
    <3> QED BY <1>0, <1>n, <1>5, <3>1 DEF SelectRow, Stored
  <2> QED BY <2>2, <2>3
<1>6. ASSUME NEW h \in Handlers, DeleteRow(h) PROVE Known'
  <2>1. handlers[h].code \in Codes
    BY <1>6, RequestFacts DEF DeleteRow, At
  <2>2. KnownTables'
    BY <1>0, <1>6, <2>1 DEF DeleteRow, Stored, Formed, TablesOK
  <2>3. KnownRead'
    <3>1. \A g \in Handlers : handlers'[g] = handlers[g] \/ handlers'[g].pc \notin {"inserted", "selected"}
      BY <1>6, RequestFacts DEF DeleteRow, Goto, Finish, Free, Requests, Formed, RequestsOK
    <3> QED BY <1>0, <1>6, <3>1 DEF DeleteRow, At, Stored
  <2> QED BY <1>0, <1>n, <1>6, <2>2, <2>3 DEF DeleteRow, Stored
<1>7. ASSUME NEW h \in Handlers, Deleted(h) PROVE Known'
  <2>1. handlers[h].code \in Codes
    BY <1>7, RequestFacts DEF Deleted, At
  <2>2. \/ queue' = queue
        \/ \E op \in Ops : queue' = Append(queue, op) /\ op.op = "del"
    BY <1>7, <2>1, SentDel DEF Deleted
  <2> QED BY <1>3, <1>7, <2>2 DEF Deleted
<1>8. ASSUME NEW h \in Handlers, Cancel(h) PROVE Known'
  BY <1>3, <1>8 DEF Cancel
<1>9. ASSUME RecvOp PROVE Known'
  <2>1. /\ 1 \in DOMAIN queue /\ worker'.op = queue[1]
        /\ \A n \in DOMAIN queue' : n + 1 \in DOMAIN queue /\ queue'[n] = queue[n + 1]
    BY <1>9, Received DEF RecvOp, Receive, Formed, QueueOK
  <2> QED BY <1>0, <1>n, <1>9, <2>1 DEF RecvOp, Stored, At
<1>10. ASSUME ProcessOp PROVE Known'
  <2>1. worker.op \in Ops /\ worker.op.op \in {"set", "del"} /\ worker.op.code \in Codes
    BY <1>10, WorkFacts DEF ProcessOp, Ops
  <2>2. KnownTables'
    BY <1>0, <1>10, <2>1 DEF ProcessOp, Executed, NotCached, Stored, Formed, CacheOK
  <2> QED BY <1>0, <1>n, <1>10, <2>2 DEF ProcessOp, NoOp, Stored, At
<1>11. ASSUME WorkerExit \/ CloseQueue \/ Shutdown PROVE Known'
  <2>1. worker'.op = worker.op
    BY <1>11 DEF WorkerExit, CloseQueue, Shutdown, Formed, WorkerOK
  <2> QED BY <1>0, <1>n, <1>11, <2>1 DEF WorkerExit, CloseQueue, Shutdown, Stored, At
<1>12. ASSUME ProcessEnds \/ Crash PROVE Known'
  BY <1>0, <1>n, <1>12 DEF ProcessEnds, Crash, StartAgain, Stored, At, Free, Receiving, NoOp
<1>13. ASSUME RedisCrash PROVE Known'
  BY <1>0, <1>n, <1>13 DEF RedisCrash, NotCached, Stored, At
<1>14. ASSUME NEW c \in Codes, Purge(c) PROVE Known'
  BY <1>0, <1>n, <1>14 DEF Purge, Stored, At, Formed, TablesOK
<1>15. ASSUME Tick PROVE Known'
  <2>1. KnownTables'
    BY <1>0, <1>15 DEF Tick, Remaining, NotCached, Stored, Formed, CacheOK, TablesOK, Sooner, NoLink
  <2>2. KnownQueue'
    <3>1. ASSUME NEW n \in DOMAIN queue
          PROVE  queue'[n].op = queue[n].op /\ queue'[n].code = queue[n].code /\ queue'[n].id = queue[n].id
      BY <1>15, OlderOp, QueueFacts DEF Tick
    <3>2. DOMAIN queue' = DOMAIN queue
      BY <1>15 DEF Tick
    <3>3. stored' = stored
      BY <1>15 DEF Tick
    <3> QED BY <1>0, <3>1, <3>2, <3>3 DEF Stored
  <2>3. KnownWork'
    BY <1>0, <1>15, OlderOp, WorkFacts DEF Tick, Stored, Formed, WorkerOK
  <2>4. KnownRead'
    <3>1. ASSUME NEW h \in Handlers
          PROVE  handlers'[h].pc = handlers[h].pc /\ handlers'[h].code = handlers[h].code /\ handlers'[h].id = handlers[h].id
      BY <1>15, RequestFacts DEF Tick, Requests
    <3>2. stored' = stored
      BY <1>15 DEF Tick
    <3> QED BY <1>0, <3>1, <3>2 DEF Stored, At
  <2> QED BY <1>n, <2>1, <2>2, <2>3, <2>4
<1>16. CASE UNCHANGED vars
  BY <1>0, <1>n, <1>16 DEF vars, Stored, At
<1>17. ASSUME NEW h \in Handlers, CreateLink(h) \/ GetLink(h) \/ DeleteLink(h) PROVE Known'
  BY <1>1, <1>17 DEF CreateLink, GetLink, DeleteLink
<1> QED
  BY <1>2, <1>4, <1>5, <1>6, <1>7, <1>8, <1>9, <1>10, <1>11, <1>12, <1>13, <1>14, <1>15, <1>16, <1>17
     DEF Next, Handle, Work

(* Nothing is cached or on its way at the start.                           *)
LEMMA InitKnown == Init => Known
BY DEF Init, Known, NotCached, NoLink, Receiving, NoOp, Free, At

(* Whatever is served from the cache was stored under that code.           *)
THEOREM NothingForeignServed == Spec => []OnlyStored
<1>1. Known => OnlyStored
  BY DEF Known, OnlyStored, Stored
<1> QED BY <1>1, InitFormed, FormedStep, InitKnown, KnownStep, PTL DEF Spec

-----------------------------------------------------------------------------
(* NewIds                                                                  *)

(* Every step keeps the numbers of links to be inserted new.               *)
LEMMA NewIdsStep == Formed /\ NewIds /\ [Next]_vars => NewIds'
<1> SUFFICES ASSUME Formed, NewIds, [Next]_vars PROVE NewIds'
  OBVIOUS
<1>0. \A h \in Handlers : handlers[h].pc = "insert" => handlers[h].id \in Nat
  BY RequestFacts DEF Ids
<1>1. ASSUME NEW h \in Handlers, CreateLink(h) PROVE NewIds'
  <2>1. PICK c \in Codes, exp \in Lifetimes : Begin(h, [pc |-> "insert", code |-> c, id |-> created + 1, exp |-> exp])
    BY <1>1 DEF CreateLink
  <2>2. created \in Nat /\ created' = created + 1 /\ stored' = stored /\ stored \subseteq Codes \X Nat
    BY <1>1, <2>1 DEF CreateLink, Begin, Formed, TablesOK, Ids
  <2>3. handlers'[h].id = created + 1 /\ \A g \in Handlers \ {h} : handlers'[g] = handlers[g]
    BY <2>1 DEF Begin, Formed, RequestsOK
  <2> QED BY <1>0, <2>2, <2>3 DEF NewIds, At
<1>2. ASSUME NEW h \in Handlers, InsertRow(h) PROVE NewIds'
  <2>1. /\ handlers'[h].pc # "insert" /\ \A g \in Handlers \ {h} : handlers'[g] = handlers[g]
    BY <1>2 DEF InsertRow, Goto, Finish, Free, Formed, RequestsOK, Requests
  <2>2. stored' = stored \/ stored' = stored \cup {<<handlers[h].code, handlers[h].id>>}
    BY <1>2 DEF InsertRow
  <2> QED BY <1>2, <2>1, <2>2 DEF InsertRow, NewIds, At
<1>3. ASSUME UNCHANGED <<created, stored>>,
             \A h \in Handlers : handlers'[h].pc = "insert" => handlers[h].pc = "insert" /\ handlers'[h].id = handlers[h].id
      PROVE  NewIds'
  BY <1>3 DEF NewIds, At
<1>4. ASSUME NEW h \in Handlers, UNCHANGED <<created, stored>>,
             handlers'[h].pc # "insert", \A g \in Handlers \ {h} : handlers'[g] = handlers[g]
      PROVE  NewIds'
  BY <1>3, <1>4
<1>5. ASSUME NEW h \in Handlers, Finish(h), UNCHANGED <<created, stored>> PROVE NewIds'
  BY <1>4, <1>5 DEF Finish, Free, Formed, RequestsOK
<1>6. ASSUME NEW h \in Handlers, Inserted(h) \/ Selected(h) \/ Deleted(h) \/ Cancel(h) PROVE NewIds'
  BY <1>5, <1>6 DEF Inserted, Selected, Deleted, Cancel
<1>7. ASSUME NEW h \in Handlers, GetLink(h) \/ DeleteLink(h) PROVE NewIds'
  BY <1>4, <1>7 DEF GetLink, DeleteLink, Begin, Formed, RequestsOK
<1>8. ASSUME NEW h \in Handlers, SelectRow(h) PROVE NewIds'
  BY <1>4, <1>8 DEF SelectRow, Finish, Free, Formed, RequestsOK
<1>9. ASSUME NEW h \in Handlers, DeleteRow(h) PROVE NewIds'
  BY <1>4, <1>9 DEF DeleteRow, Goto, Finish, Free, Formed, RequestsOK, Requests
<1>10. ASSUME ProcessEnds \/ Crash PROVE NewIds'
  BY <1>3, <1>10 DEF ProcessEnds, Crash, StartAgain, Free
<1>11. ASSUME Tick PROVE NewIds'
  BY <1>3, <1>11, RequestFacts DEF Tick, Requests
<1>12. ASSUME UNCHANGED <<handlers, created, stored>> PROVE NewIds'
  BY <1>3, <1>12
<1>13. CASE RecvOp \/ ProcessOp \/ WorkerExit \/ CloseQueue \/ Shutdown \/ RedisCrash \/ UNCHANGED vars
  BY <1>12, <1>13 DEF RecvOp, ProcessOp, WorkerExit, CloseQueue, Shutdown, RedisCrash, vars
<1>14. ASSUME NEW c \in Codes, Purge(c) PROVE NewIds'
  BY <1>12, <1>14 DEF Purge
<1> QED
  BY <1>1, <1>2, <1>6, <1>7, <1>8, <1>9, <1>10, <1>11, <1>13, <1>14 DEF Next, Handle, Work

(* A link that was just inserted is not cached, and not on its way there.  *)
LEMMA NewLink ==
  ASSUME Known, NewIds, NEW h \in Handlers, At(h, "insert")
  PROVE  /\ \A c \in Codes : cache[c].id = None \/ cache[c].id # handlers[h].id
         /\ \A n \in DOMAIN queue : queue[n].op = "set" => queue[n].id # handlers[h].id
         /\ worker.op.op = "set" => worker.op.id # handlers[h].id
         /\ \A g \in Handlers : At(g, "inserted") \/ At(g, "selected") => handlers[g].id # handlers[h].id
BY DEF Known, NewIds, Stored

(* No link is to be inserted at the start.                                 *)
LEMMA InitNewIds == Init => NewIds
BY DEF Init, NewIds, Free, At

-----------------------------------------------------------------------------
(* Timely                                                                  *)

(* No step gives a copy of a link more time than its link has left and the *)
(* copy has waited.                                                        *)
LEMMA TimelyStep == Formed /\ Formed' /\ Known /\ NewIds /\ Timely /\ [Next]_vars => Timely'
<1> SUFFICES ASSUME Formed, Formed', Known, NewIds, Timely, [Next]_vars PROVE Timely'
  OBVIOUS
<1> DEFINE TimelyCache == \A c \in Codes : cache[c].id # None => Due(c, cache[c].id, cache[c].ttl, MaxWait)
           TimelyQueue == \A n \in DOMAIN queue : queue[n].op = "set" => Due(queue[n].code, queue[n].id, queue[n].ttl, queue[n].age)
           TimelyWork == worker.op.op = "set" => Due(worker.op.code, worker.op.id, worker.op.ttl, worker.op.age)
           TimelyRead == \A h \in Handlers :
              (At(h, "inserted") \/ At(h, "selected")) /\ links[handlers[h].code].id = handlers[h].id
                => handlers[h].exp = links[handlers[h].code].exp
<1>0. Timely <=> TimelyCache /\ TimelyQueue /\ TimelyWork /\ TimelyRead
  BY DEF Timely
<1>n. Timely' <=> TimelyCache' /\ TimelyQueue' /\ TimelyWork' /\ TimelyRead'
  BY DEF Timely
<1>1. ASSUME NEW h \in Handlers, UNCHANGED <<links, cache, queue, worker>>,
             handlers'[h].pc \notin {"inserted", "selected"}, \A g \in Handlers \ {h} : handlers'[g] = handlers[g]
      PROVE  Timely'
  <2>1. TimelyRead'
    BY <1>0, <1>1 DEF At
  <2> QED BY <1>0, <1>n, <1>1, <2>1 DEF Due
<1>b. ASSUME NEW h \in Handlers, NEW r, Begin(h, r), r.pc \in {"insert", "select", "delete"} PROVE Timely'
  BY <1>1, <1>b DEF Begin, Formed, RequestsOK
<1>2. ASSUME NEW h \in Handlers, CreateLink(h) \/ GetLink(h) \/ DeleteLink(h) PROVE Timely'
  BY <1>2, <1>b DEF CreateLink, GetLink, DeleteLink
<1>3. ASSUME NEW h \in Handlers, InsertRow(h) PROVE Timely'
  <2>1. handlers[h].code \in Codes /\ handlers[h].id \in Ids \ {None} /\ handlers[h] \in Requests
    BY <1>3, RequestFacts DEF InsertRow, At
  <2>2. CASE links[handlers[h].code] # NoLink
    BY <1>1, <1>3, <2>2 DEF InsertRow, Finish, Free, Formed, RequestsOK
  <2>3. CASE links[handlers[h].code] = NoLink
    <3>1. \A c \in Codes : \/ links'[c] = links[c]
                           \/ c = handlers[h].code /\ links'[c].id = handlers[h].id /\ links'[c].exp = handlers[h].exp
      <4>1. links' = [links EXCEPT ![handlers[h].code] = [id |-> handlers[h].id, exp |-> handlers[h].exp]]
        BY <1>3, <2>3 DEF InsertRow
      <4>2. ASSUME NEW c \in Codes, c # handlers[h].code PROVE links'[c] = links[c]
        BY <4>1, <4>2 DEF Formed, TablesOK
      <4>3. links'[handlers[h].code].id = handlers[h].id /\ links'[handlers[h].code].exp = handlers[h].exp
        BY <2>1, <4>1 DEF Formed, TablesOK
      <4> SUFFICES ASSUME NEW c \in Codes
                   PROVE  \/ links'[c] = links[c]
                          \/ c = handlers[h].code /\ links'[c].id = handlers[h].id /\ links'[c].exp = handlers[h].exp
        OBVIOUS
      <4>4. CASE c = handlers[h].code
        BY <4>3, <4>4
      <4>5. CASE c # handlers[h].code
        BY <4>2, <4>5
      <4> QED BY <4>4, <4>5
    <3>2. UNCHANGED <<cache, queue, worker>>
      BY <1>3 DEF InsertRow
    <3>3. /\ \A c \in Codes : cache[c].id = None \/ cache[c].id # handlers[h].id
          /\ \A n \in DOMAIN queue : queue[n].op = "set" => queue[n].id # handlers[h].id
          /\ worker.op.op = "set" => worker.op.id # handlers[h].id
          /\ \A g \in Handlers : At(g, "inserted") \/ At(g, "selected") => handlers[g].id # handlers[h].id
      BY <1>3, NewLink DEF InsertRow
    <3>4. TimelyCache'
      BY <1>0, <3>1, <3>2, <3>3 DEF Due
    <3>5. TimelyQueue'
      BY <1>0, <3>1, <3>2, <3>3, QueueFacts DEF Due
    <3>6. TimelyWork'
      BY <1>0, <3>1, <3>2, <3>3, WorkFacts DEF Due
    <3>7. handlers'[h].exp = handlers[h].exp /\ handlers'[h].code = handlers[h].code /\ handlers'[h].id = handlers[h].id
          /\ \A g \in Handlers \ {h} : handlers'[g] = handlers[g]
      BY <1>3, <2>1, <2>3 DEF InsertRow, Goto, Formed, RequestsOK, Requests
    <3>8. links'[handlers[h].code].exp = handlers[h].exp
      BY <1>3, <2>1, <2>3 DEF InsertRow, Formed, TablesOK
    <3>9. TimelyRead'
      BY <1>0, <2>1, <3>1, <3>3, <3>7, <3>8, RequestFacts DEF At
    <3> QED BY <1>n, <3>4, <3>5, <3>6, <3>9
  <2> QED BY <2>2, <2>3
<1>4. ASSUME NEW h \in Handlers, Inserted(h) \/ Selected(h) PROVE Timely'
  <2>1. /\ handlers[h].code \in Codes /\ handlers[h].id \in Ids \ {None} /\ handlers[h].exp \in Expirations
        /\ links[handlers[h].code].id = handlers[h].id => handlers[h].exp = links[handlers[h].code].exp
    BY <1>0, <1>4, RequestFacts DEF Inserted, Selected, At
  <2>2. /\ UNCHANGED <<links, cache, worker>> /\ handlers'[h].pc = "free"
        /\ \A g \in Handlers \ {h} : handlers'[g] = handlers[g]
    BY <1>4 DEF Inserted, Selected, Finish, Free, Formed, RequestsOK
  <2>3. CASE queue' = queue
    BY <1>1, <2>2, <2>3
  <2> DEFINE Sends(op) == /\ queue' = Append(queue, op) /\ op.op = "set" /\ op.code = handlers[h].code
                          /\ op.id = handlers[h].id /\ op.age = 0
                          /\ handlers[h].exp # Never => op.ttl <= handlers[h].exp
  <2>4. ASSUME NEW op \in Ops, Sends(op) PROVE Timely'
    <3>1. Due(op.code, op.id, op.ttl, op.age)
      BY <2>1, <2>4 DEF Due, Expirations, Ops
    <3>2. \A n \in DOMAIN queue' : (n \in DOMAIN queue /\ queue'[n] = queue[n]) \/ queue'[n] = op
      BY <2>4, Sent DEF Formed, QueueOK
    <3>3. TimelyQueue'
      BY <1>0, <2>2, <3>1, <3>2 DEF Due
    <3>4. TimelyRead'
      BY <1>0, <2>2 DEF At
    <3> QED BY <1>0, <1>n, <2>2, <3>3, <3>4 DEF Due
  <2>5. queue' = queue \/ \E op \in Ops : Sends(op)
    BY <1>4, <2>1, SentSet DEF Inserted, Selected
  <2> HIDE DEF Sends
  <2> QED BY <2>3, <2>4, <2>5
<1>5. ASSUME NEW h \in Handlers, SelectRow(h) PROVE Timely'
  <2>1. handlers[h].code \in Codes /\ UNCHANGED <<links, cache, queue, worker>>
    BY <1>5, RequestFacts DEF SelectRow, At
  <2>2. CASE links[handlers[h].code] = NoLink
    BY <1>1, <1>5, <2>1, <2>2 DEF SelectRow, Finish, Free, Formed, RequestsOK
  <2>3. CASE links[handlers[h].code] # NoLink
    <3>1. /\ handlers'[h].code = handlers[h].code /\ handlers'[h].exp = links[handlers[h].code].exp
          /\ \A g \in Handlers \ {h} : handlers'[g] = handlers[g]
      BY <1>5, <2>3 DEF SelectRow, Formed, RequestsOK
    <3>2. TimelyRead'
      BY <1>0, <2>1, <3>1 DEF At
    <3> QED BY <1>0, <1>n, <2>1, <3>2 DEF Due
  <2> QED BY <2>2, <2>3
<1>6. ASSUME NEW c \in Codes, links' = [links EXCEPT ![c] = NoLink], UNCHANGED <<cache, queue, worker>>,
             \A g \in Handlers : handlers'[g] = handlers[g] \/ handlers'[g].pc \notin {"inserted", "selected"}
      PROVE  Timely'
  <2>1. \A d \in Codes : links'[d] = links[d] \/ links'[d].id = None
    BY <1>6 DEF NoLink, Formed, TablesOK
  <2>2. TimelyCache'
    BY <1>0, <1>6, <2>1 DEF Due
  <2>3. TimelyQueue'
    BY <1>0, <1>6, <2>1, QueueFacts DEF Due
  <2>4. TimelyWork'
    BY <1>0, <1>6, <2>1, WorkFacts DEF Due
  <2>5. TimelyRead'
    BY <1>0, <1>6, <2>1, RequestFacts DEF At
  <2> QED BY <1>n, <2>2, <2>3, <2>4, <2>5
<1>7. ASSUME NEW h \in Handlers, DeleteRow(h) PROVE Timely'
  <2>1. \A g \in Handlers : handlers'[g] = handlers[g] \/ handlers'[g].pc \notin {"inserted", "selected"}
    BY <1>7, RequestFacts DEF DeleteRow, Goto, Finish, Free, Requests, Formed, RequestsOK
  <2>2. handlers[h].code \in Codes
    BY <1>7, RequestFacts DEF DeleteRow, At
  <2> QED BY <1>6, <1>7, <2>1, <2>2 DEF DeleteRow
<1>8. ASSUME NEW h \in Handlers, Deleted(h) PROVE Timely'
  <2>1. /\ UNCHANGED <<links, cache, worker>> /\ handlers'[h].pc = "free"
        /\ \A g \in Handlers \ {h} : handlers'[g] = handlers[g]
    BY <1>8 DEF Deleted, Finish, Free, Formed, RequestsOK
  <2>2. CASE queue' = queue
    BY <1>1, <2>1, <2>2
  <2>3. ASSUME NEW op \in Ops, queue' = Append(queue, op), op.op = "del" PROVE Timely'
    <3>1. \A n \in DOMAIN queue' : (n \in DOMAIN queue /\ queue'[n] = queue[n]) \/ queue'[n] = op
      BY <2>3, Sent DEF Formed, QueueOK
    <3>2. TimelyQueue'
      BY <1>0, <2>1, <2>3, <3>1 DEF Due
    <3>3. TimelyRead'
      BY <1>0, <2>1 DEF At
    <3> QED BY <1>0, <1>n, <2>1, <3>2, <3>3 DEF Due
  <2>4. handlers[h].code \in Codes
    BY <1>8, RequestFacts DEF Deleted, At
  <2> QED BY <1>8, <2>2, <2>3, <2>4, SentDel DEF Deleted
<1>9. ASSUME NEW h \in Handlers, Cancel(h) PROVE Timely'
  BY <1>1, <1>9 DEF Cancel, Finish, Free, Formed, RequestsOK
<1>10. ASSUME RecvOp PROVE Timely'
  <2>1. /\ 1 \in DOMAIN queue /\ worker'.op = queue[1] /\ UNCHANGED <<links, cache, handlers>>
        /\ \A n \in DOMAIN queue' : n + 1 \in DOMAIN queue /\ queue'[n] = queue[n + 1]
    BY <1>10, Received DEF RecvOp, Receive, Formed, QueueOK
  <2> QED BY <1>0, <1>n, <2>1 DEF Due, At
<1>11. ASSUME ProcessOp PROVE Timely'
  <2>1. worker.op \in Ops /\ worker.op.op \in {"set", "del"} /\ worker.op.code \in Codes /\ worker.op.ttl \in Nat
    BY <1>11, WorkFacts DEF ProcessOp, Ops
  <2>2. worker'.op.op = "none" /\ UNCHANGED <<links, queue, handlers>>
    BY <1>11 DEF ProcessOp, NoOp
  <2>3. \A c \in Codes :
          \/ cache'[c] = cache[c] \/ cache'[c].id = None
          \/ /\ worker.op.op = "set" /\ worker.op.code = c
             /\ cache'[c].id = worker.op.id /\ cache'[c].ttl = WholeSeconds(worker.op.ttl)
    BY <1>11, <2>1 DEF ProcessOp, Executed, SetEx, NotCached, Formed, CacheOK
  <2>4. \A c \in Codes : links[c].exp \in Expirations
    BY DEF Formed, TablesOK
  <2>5. TimelyCache'
    <3> SUFFICES ASSUME NEW c \in Codes, cache'[c].id # None PROVE Due(c, cache[c].id, cache[c].ttl, MaxWait)'
      OBVIOUS
    <3>1. CASE cache'[c] = cache[c]
      BY <1>0, <2>2, <3>1 DEF Due
    <3>2. CASE /\ worker.op.op = "set" /\ worker.op.code = c
               /\ cache'[c].id = worker.op.id /\ cache'[c].ttl = WholeSeconds(worker.op.ttl)
      <4>1. Due(c, worker.op.id, worker.op.ttl, worker.op.age)
        BY <1>0, <3>2
      <4>2. WholeSeconds(worker.op.ttl) \in Nat /\ WholeSeconds(worker.op.ttl) <= worker.op.ttl
        BY <2>1, WholeSecondsBounds
      <4> QED BY <2>1, <2>2, <2>4, <3>2, <4>1, <4>2, WorkFacts DEF Due, Expirations
    <3> QED BY <2>3, <3>1, <3>2
  <2> QED BY <1>0, <1>n, <2>2, <2>5 DEF Due, At
<1>12. ASSUME WorkerExit \/ CloseQueue \/ Shutdown PROVE Timely'
  <2>1. worker'.op = worker.op /\ UNCHANGED <<links, cache, queue, handlers>>
    BY <1>12 DEF WorkerExit, CloseQueue, Shutdown, Formed, WorkerOK
  <2> QED BY <1>0, <1>n, <2>1 DEF Due, At
<1>13. ASSUME ProcessEnds \/ Crash PROVE Timely'
  <2>1. /\ queue' = <<>> /\ worker'.op.op = "none" /\ UNCHANGED <<links, cache>>
        /\ \A h \in Handlers : handlers'[h].pc = "free"
    BY <1>13 DEF ProcessEnds, Crash, StartAgain, Receiving, NoOp, Free
  <2> QED BY <1>0, <1>n, <2>1 DEF Due, At
<1>14. ASSUME RedisCrash PROVE Timely'
  BY <1>0, <1>n, <1>14 DEF RedisCrash, NotCached, Due, At
<1>15. ASSUME NEW c \in Codes, Purge(c) PROVE Timely'
  BY <1>6, <1>15 DEF Purge
<1>16. ASSUME Tick PROVE Timely'
  <2>1. \A c \in Codes : /\ links[c].exp \in Expirations /\ links'[c].id = links[c].id
                         /\ links'[c].exp = Sooner(links[c].exp)
    BY <1>16 DEF Tick, Formed, TablesOK
  <2>3. \A c \in Codes : links'[c].exp # Never =>
          links[c].exp # Never /\ links[c].exp \in Int /\ links'[c].exp \in Int /\ links[c].exp - 1 <= links'[c].exp
    BY <2>1, SoonerBounds
  <2>4. TimelyCache'
    <3> SUFFICES ASSUME NEW c \in Codes, cache'[c].id # None PROVE Due(c, cache[c].id, cache[c].ttl, MaxWait)'
      OBVIOUS
    <3>1. cache[c] \in [id : Ids, ttl : Nat] /\ cache'[c] = Remaining(cache[c])
      BY <1>16 DEF Tick, Formed, CacheOK
    <3>2. cache'[c].id = cache[c].id /\ cache'[c].ttl = cache[c].ttl - 1
      BY <3>1 DEF Remaining, NoExpiry, NotCached
    <3> QED BY <1>0, <2>1, <2>3, <3>1, <3>2 DEF Due
  <2>5. TimelyQueue'
    <3>1. DOMAIN queue' = DOMAIN queue /\ \A n \in DOMAIN queue : queue'[n] = Older(queue[n])
      BY <1>16 DEF Tick
    <3>2. ASSUME NEW n \in DOMAIN queue', queue'[n].op = "set"
          PROVE  Due(queue[n].code, queue[n].id, queue[n].ttl, queue[n].age)'
      <4>1. n \in DOMAIN queue /\ queue'[n] = Older(queue[n])
        BY <3>1
      <4>2. /\ queue'[n].op = queue[n].op /\ queue'[n].code = queue[n].code /\ queue'[n].id = queue[n].id
            /\ queue'[n].ttl = queue[n].ttl /\ queue'[n].age = queue[n].age + 1
        BY <3>2, <4>1, OlderOp, QueueFacts
      <4>3. queue[n].code \in Codes /\ queue[n].ttl \in Nat /\ queue[n].age \in Nat
        BY <4>1, QueueFacts
      <4>4. Due(queue[n].code, queue[n].id, queue[n].ttl, queue[n].age)
        BY <1>0, <3>2, <4>1, <4>2
      <4> QED BY <2>1, <2>3, <4>2, <4>3, <4>4 DEF Due
    <3> QED BY <3>2
  <2>6. TimelyWork'
    <3> SUFFICES ASSUME worker'.op.op = "set" PROVE Due(worker.op.code, worker.op.id, worker.op.ttl, worker.op.age)'
      OBVIOUS
    <3>1. worker'.op = Older(worker.op)
      BY <1>16 DEF Tick, Formed, WorkerOK
    <3>2. /\ worker'.op.op = worker.op.op /\ worker'.op.code = worker.op.code /\ worker'.op.id = worker.op.id
          /\ worker'.op.ttl = worker.op.ttl /\ worker'.op.age = worker.op.age + 1
      BY <3>1, OlderOp, WorkFacts
    <3>3. worker.op.code \in Codes /\ worker.op.ttl \in Nat /\ worker.op.age \in Nat
      BY <3>2, WorkFacts
    <3>4. Due(worker.op.code, worker.op.id, worker.op.ttl, worker.op.age)
      BY <1>0, <3>2
    <3> QED BY <2>1, <2>3, <3>2, <3>3, <3>4 DEF Due
  <2>7. TimelyRead'
    <3>1. ASSUME NEW h \in Handlers
          PROVE  /\ handlers'[h].pc = handlers[h].pc /\ handlers'[h].code = handlers[h].code
                 /\ handlers'[h].id = handlers[h].id /\ handlers'[h].exp = Sooner(handlers[h].exp)
      BY <1>16, RequestFacts DEF Tick, Requests
    <3> QED BY <1>0, <2>1, <3>1, RequestFacts DEF At
  <2> QED BY <1>n, <2>4, <2>5, <2>6, <2>7
<1>17. CASE UNCHANGED vars
  BY <1>0, <1>n, <1>17 DEF vars, Due, At
<1> QED
  BY <1>2, <1>3, <1>4, <1>5, <1>7, <1>8, <1>9, <1>10, <1>11, <1>12, <1>13, <1>14, <1>15, <1>16, <1>17
     DEF Next, Handle, Work

(* Nothing can be late at the start.                                       *)
LEMMA InitTimely == Init => Timely
BY DEF Init, Timely, NotCached, Receiving, NoOp, Free, At

(* The first four parts, which do not depend on the fifth.                 *)
InvCache == Formed /\ Known /\ NewIds /\ Timely

(* They hold throughout.                                                   *)
LEMMA InvCacheHolds == Spec => []InvCache
<1>1. Init => InvCache
  BY InitFormed, InitKnown, InitNewIds, InitTimely DEF InvCache
<1>2. InvCache /\ [Next]_vars => InvCache'
  BY FormedStep, KnownStep, NewIdsStep, TimelyStep DEF InvCache
<1> QED BY <1>1, <1>2, PTL DEF Spec

(* A cached link outlives its expiration by no more than the time a Set    *)
(* may wait for the worker.                                                *)
THEOREM OverrunBounded == Spec => []OverrunBoundedByWait
<1>1. InvCache => OverrunBoundedByWait
  BY DEF InvCache, Timely, Due, OverrunBoundedByWait
<1> QED BY <1>1, InvCacheHolds, PTL

-----------------------------------------------------------------------------
(* Traced                                                                  *)

(* A code whose links, queue, operation and deletions are as before.       *)
LEMMA TracedUnchanged ==
  ASSUME NEW c \in Codes, TracedCache(c), TracedQueue(c), TracedWork(c),
         links'[c] = links[c], UNCHANGED queue, worker'.op = worker.op,
         cache'[c].id \in {None, cache[c].id}, Deleting(c) => Deleting(c)'
  PROVE  TracedCache(c)' /\ TracedQueue(c)' /\ TracedWork(c)'
<1>1. DelAfter(c, 0)' <=> DelAfter(c, 0)
  BY DEF DelAfter
<1>2. DelInWork(c)' <=> DelInWork(c)
  BY DEF DelInWork
<1>3. TracedCache(c)'
  BY <1>1, <1>2 DEF TracedCache, DelComing
<1>4. TracedWork(c)'
  BY <1>1 DEF TracedWork
<1>5. \A n \in DOMAIN queue : DelAfter(c, n)' <=> DelAfter(c, n)
  BY DEF DelAfter
<1>6. TracedQueue(c)'
  BY <1>5 DEF TracedQueue
<1> QED BY <1>3, <1>4, <1>6

(* A request that is no deletion comes or goes.                            *)
LEMMA DeletingKept ==
  ASSUME RequestsOK, NEW h \in Handlers, handlers[h].pc # "deleted",
         \A g \in Handlers \ {h} : handlers'[g] = handlers[g]
  PROVE  \A c \in Codes : Deleting(c) => Deleting(c)'
BY DEF Deleting, At

(* Another operation at the end of the queue.                              *)
LEMMA DelsAfterSend ==
  ASSUME QueueOK, NEW op \in Ops, queue' = Append(queue, op), NEW c \in Codes
  PROVE  /\ \A n \in Nat : DelAfter(c, n) => DelAfter(c, n)'
         /\ op.op = "del" /\ op.code = c => \A n \in DOMAIN queue \cup {0} : DelAfter(c, n)'
         /\ \A n \in DOMAIN queue' : (n \in DOMAIN queue /\ queue'[n] = queue[n]) \/ queue'[n] = op
         /\ DOMAIN queue \subseteq Nat
<1>1. /\ Len(queue) \in Nat /\ DOMAIN queue = 1 .. Len(queue) /\ DOMAIN queue' = 1 .. (Len(queue) + 1)
      /\ \A n \in DOMAIN queue : queue'[n] = queue[n]
      /\ queue'[Len(queue) + 1] = op
  BY Sent DEF QueueOK
<1>2. \A n \in Nat : DelAfter(c, n) => DelAfter(c, n)'
  BY <1>1 DEF DelAfter
<1>3. ASSUME op.op = "del", op.code = c, NEW n \in DOMAIN queue \cup {0} PROVE DelAfter(c, n)'
  BY <1>1, <1>3 DEF DelAfter
<1>4. \A n \in DOMAIN queue' : (n \in DOMAIN queue /\ queue'[n] = queue[n]) \/ queue'[n] = op
  BY <1>1
<1> QED BY <1>1, <1>2, <1>3, <1>4

(* The oldest operation leaves the queue.                                  *)
LEMMA DelsAfterReceive ==
  ASSUME QueueOK, queue # <<>>, queue' = Tail(queue), NEW c \in Codes
  PROVE  /\ \A n \in DOMAIN queue' : n \in Nat /\ n + 1 \in DOMAIN queue /\ queue'[n] = queue[n + 1]
         /\ \A n \in DOMAIN queue' : DelAfter(c, n + 1) => DelAfter(c, n)'
         /\ DelAfter(c, 1) => DelAfter(c, 0)'
         /\ DelAfter(c, 0) => DelAfter(c, 0)' \/ (queue[1].op = "del" /\ queue[1].code = c)
         /\ 1 \in DOMAIN queue /\ Head(queue) = queue[1]
<1>1. /\ 1 \in DOMAIN queue /\ Head(queue) = queue[1] /\ DOMAIN queue \subseteq Nat
      /\ \A n \in DOMAIN queue' : n \in Nat /\ n > 0 /\ n + 1 \in DOMAIN queue /\ queue'[n] = queue[n + 1]
      /\ \A n \in DOMAIN queue : n > 1 => n - 1 \in DOMAIN queue'
  BY Received DEF QueueOK
<1>2. \A n \in DOMAIN queue : n > 1 => n - 1 \in DOMAIN queue' /\ queue'[n - 1] = queue[n]
  BY <1>1
<1>3. ASSUME NEW k \in Nat, DelAfter(c, k + 1) PROVE DelAfter(c, k)'
  <2>1. PICK n \in DOMAIN queue : n > k + 1 /\ queue[n].op = "del" /\ queue[n].code = c
    BY <1>3 DEF DelAfter
  <2>2. n - 1 \in DOMAIN queue' /\ n - 1 > k /\ queue'[n - 1] = queue[n]
    BY <1>1, <1>2, <2>1
  <2> QED BY <2>1, <2>2 DEF DelAfter
<1>4. DelAfter(c, 0) => DelAfter(c, 1) \/ (queue[1].op = "del" /\ queue[1].code = c)
  BY <1>1 DEF DelAfter
<1>5. DelAfter(c, 1) => DelAfter(c, 0)'
  BY <1>3
<1> QED BY <1>1, <1>3, <1>4, <1>5

(* Behind everything out of date that is cached or on its way comes a Del, *)
(* unless the code is recorded in raced.                                   *)
LEMMA TracedStep == InvCache /\ Traced /\ [Next]_vars => Traced'
<1> SUFFICES ASSUME InvCache, Traced, [Next]_vars PROVE Traced'
  OBVIOUS
<1> DEFINE Parts(c) == TracedCache(c) /\ TracedQueue(c) /\ TracedWork(c)
<1>0. Formed /\ Known /\ NewIds /\ Timely /\ RequestsOK /\ QueueOK
  BY DEF InvCache, Formed
<1>p. \A c \in Codes \ raced : Parts(c)
  BY DEF Traced
<1>q. (\A c \in Codes \ raced' : Parts(c)') => Traced'
  BY DEF Traced
<1> HIDE DEF Parts
<1>1. ASSUME UNCHANGED <<links, queue>>, worker'.op = worker.op, raced \subseteq raced',
             \A c \in Codes \ raced' : cache'[c].id \in {None, cache[c].id} /\ (Deleting(c) => Deleting(c)')
      PROVE  Traced'
  <2> SUFFICES ASSUME NEW c \in Codes \ raced' PROVE Parts(c)'
    BY <1>q
  <2>1. TracedCache(c) /\ TracedQueue(c) /\ TracedWork(c)
    BY <1>1, <1>p DEF Parts
  <2> QED BY <1>1, <2>1, TracedUnchanged DEF Parts
<1>2. ASSUME NEW h \in Handlers, handlers[h].pc # "deleted", \A g \in Handlers \ {h} : handlers'[g] = handlers[g],
             UNCHANGED <<links, cache, queue, worker, raced>>
      PROVE  Traced'
  BY <1>0, <1>1, <1>2, DeletingKept
<1>3. ASSUME NEW h \in Handlers, NEW r, Begin(h, r) PROVE Traced'
  <2>1. handlers[h].pc # "deleted" /\ \A g \in Handlers \ {h} : handlers'[g] = handlers[g]
    BY <1>0, <1>3 DEF Begin, At, RequestsOK
  <2> QED BY <1>2, <1>3, <2>1 DEF Begin
<1>4. ASSUME NEW h \in Handlers, CreateLink(h) \/ GetLink(h) \/ DeleteLink(h) PROVE Traced'
  BY <1>3, <1>4 DEF CreateLink, GetLink, DeleteLink
<1>5. ASSUME NEW h \in Handlers, InsertRow(h) PROVE Traced'
  <2>1. /\ handlers[h].pc # "deleted" /\ \A g \in Handlers \ {h} : handlers'[g] = handlers[g]
        /\ UNCHANGED <<cache, queue, worker, raced>>
    BY <1>0, <1>5 DEF InsertRow, At, Goto, Finish, RequestsOK
  <2>2. CASE links' = links
    BY <1>2, <2>1, <2>2
  <2>3. CASE links' # links
    <3>1. /\ links[handlers[h].code] = NoLink
          /\ links' = [links EXCEPT ![handlers[h].code] = [id |-> handlers[h].id, exp |-> handlers[h].exp]]
      BY <1>5, <2>3 DEF InsertRow
    <3> SUFFICES ASSUME NEW c \in Codes \ raced' PROVE Parts(c)'
      BY <1>q
    <3>2. TracedCache(c) /\ TracedQueue(c) /\ TracedWork(c)
      BY <2>1, <1>p DEF Parts
    <3>3. Deleting(c) => Deleting(c)'
      BY <1>0, <2>1, DeletingKept
    <3>4. CASE c # handlers[h].code
      <4>1. links'[c] = links[c]
        BY <1>0, <3>1, <3>4 DEF Formed, TablesOK
      <4> QED BY <2>1, <3>2, <3>3, <4>1, TracedUnchanged DEF Parts
    <3>5. CASE c = handlers[h].code
      <4>1. links[c].id = None
        BY <3>1, <3>5 DEF NoLink
      <4>2. DelAfter(c, 0)' <=> DelAfter(c, 0)
        BY <2>1 DEF DelAfter
      <4>3. DelInWork(c)' <=> DelInWork(c)
        BY <2>1 DEF DelInWork
      <4>4. TracedCache(c)'
        BY <2>1, <3>2, <3>3, <4>1, <4>2, <4>3 DEF TracedCache, DelComing
      <4>5. TracedWork(c)'
        BY <1>0, <2>1, <3>2, <3>3, <4>1, <4>2, WorkFacts DEF TracedWork
      <4>6. \A n \in DOMAIN queue : DelAfter(c, n)' <=> DelAfter(c, n)
        BY <2>1 DEF DelAfter
      <4>7. TracedQueue(c)'
        BY <1>0, <2>1, <3>2, <3>3, <4>1, <4>6, QueueFacts DEF TracedQueue
      <4> QED BY <4>4, <4>5, <4>7 DEF Parts
    <3> QED BY <3>4, <3>5
  <2> QED BY <2>2, <2>3
<1>6. ASSUME NEW h \in Handlers, Inserted(h) \/ Selected(h) PROVE Traced'
  <2>1. /\ handlers[h].pc # "deleted" /\ \A g \in Handlers \ {h} : handlers'[g] = handlers[g]
        /\ UNCHANGED <<links, cache, worker>>
    BY <1>0, <1>6 DEF Inserted, Selected, At, Finish, RequestsOK
  <2>2. CASE UNCHANGED <<queue, raced>>
    BY <1>2, <2>1, <2>2
  <2> DEFINE Sends(op) == /\ queue' = Append(queue, op) /\ op.op = "set" /\ op.code = handlers[h].code
                          /\ op.id = handlers[h].id
                          /\ raced' = IF links[handlers[h].code].id = handlers[h].id \/ Deleting(handlers[h].code)
                                      THEN raced ELSE raced \cup {handlers[h].code}
  <2>3. ASSUME NEW op \in Ops, Sends(op) PROVE Traced'
    <3> SUFFICES ASSUME NEW c \in Codes \ raced' PROVE Parts(c)'
      BY <1>q
    <3>1. raced \subseteq raced' /\ (c = handlers[h].code => links[c].id = handlers[h].id \/ Deleting(c))
      BY <2>3
    <3>2. TracedCache(c) /\ TracedQueue(c) /\ TracedWork(c)
      BY <3>1, <1>p DEF Parts
    <3>3. Deleting(c) => Deleting(c)'
      BY <1>0, <2>1, DeletingKept
    <3>4. /\ \A n \in Nat : DelAfter(c, n) => DelAfter(c, n)'
          /\ \A n \in DOMAIN queue' : (n \in DOMAIN queue /\ queue'[n] = queue[n]) \/ queue'[n] = op
          /\ DOMAIN queue \subseteq Nat
      BY <1>0, <2>3, DelsAfterSend
    <3>5. TracedCache(c)'
      BY <2>1, <3>2, <3>3, <3>4 DEF TracedCache, DelComing, DelInWork
    <3>6. TracedWork(c)'
      BY <2>1, <3>2, <3>3, <3>4 DEF TracedWork
    <3>7. TracedQueue(c)'
      <4> SUFFICES ASSUME NEW n \in DOMAIN queue', queue'[n].op = "set", queue'[n].code = c
                   PROVE  queue'[n].id = links'[c].id \/ Deleting(c)' \/ DelAfter(c, n)'
        BY DEF TracedQueue
      <4>1. CASE n \in DOMAIN queue /\ queue'[n] = queue[n]
        BY <2>1, <3>2, <3>3, <3>4, <4>1 DEF TracedQueue
      <4>2. CASE queue'[n] = op
        BY <2>1, <2>3, <3>1, <3>3, <4>2
      <4> QED BY <3>4, <4>1, <4>2
    <3> QED BY <3>5, <3>6, <3>7 DEF Parts
  <2>4. handlers[h].code \in Codes /\ handlers[h].id \in Ids \ {None} /\ handlers[h].exp \in Expirations
    BY <1>0, <1>6, RequestFacts DEF Inserted, Selected, At
  <2>5. UNCHANGED <<queue, raced>> \/ \E op \in Ops : Sends(op)
    BY <1>6, <2>4, SentSet DEF Inserted, Selected
  <2> HIDE DEF Sends
  <2> QED BY <2>2, <2>3, <2>5
<1>7. ASSUME NEW h \in Handlers, SelectRow(h) PROVE Traced'
  <2>1. handlers[h].pc # "deleted" /\ \A g \in Handlers \ {h} : handlers'[g] = handlers[g]
    BY <1>0, <1>7 DEF SelectRow, Finish, At, RequestsOK
  <2> QED BY <1>2, <1>7, <2>1 DEF SelectRow
<1>8. ASSUME NEW h \in Handlers, DeleteRow(h) PROVE Traced'
  <2>1. /\ handlers[h].code \in Codes /\ handlers[h].pc = "delete"
        /\ \A g \in Handlers \ {h} : handlers'[g] = handlers[g]
        /\ UNCHANGED <<cache, queue, worker, raced>>
        /\ links' = [links EXCEPT ![handlers[h].code] = NoLink]
    BY <1>0, <1>8, RequestFacts DEF DeleteRow, Goto, Finish, At, RequestsOK
  <2>2. CASE links[handlers[h].code] = NoLink
    <3>1. links' = links
      BY <1>0, <2>1, <2>2 DEF Formed, TablesOK
    <3> QED BY <1>2, <2>1, <3>1
  <2>3. CASE links[handlers[h].code] # NoLink
    <3> SUFFICES ASSUME NEW c \in Codes \ raced' PROVE Parts(c)'
      BY <1>q
    <3>1. CASE c = handlers[h].code
      <4>1. handlers'[h].pc = "deleted" /\ handlers'[h].code = c
        BY <1>0, <1>8, <2>3, <3>1, RequestFacts DEF DeleteRow, Goto, RequestsOK, Requests
      <4>2. Deleting(c)'
        BY <4>1 DEF Deleting, At
      <4> QED BY <4>2 DEF Parts, TracedCache, TracedQueue, TracedWork, DelComing
    <3>2. CASE c # handlers[h].code
      <4>1. TracedCache(c) /\ TracedQueue(c) /\ TracedWork(c)
        BY <2>1, <1>p DEF Parts
      <4>2. links'[c] = links[c]
        BY <1>0, <2>1, <3>2 DEF Formed, TablesOK
      <4>3. Deleting(c) => Deleting(c)'
        BY <1>0, <2>1, DeletingKept
      <4> QED BY <2>1, <4>1, <4>2, <4>3, TracedUnchanged DEF Parts
    <3> QED BY <3>1, <3>2
  <2> QED BY <2>2, <2>3
<1>9. ASSUME NEW h \in Handlers, Finish(h), \A c \in Codes \ raced' : handlers[h].code # c
      PROVE  \A c \in Codes \ raced' : Deleting(c) => Deleting(c)'
  <2>1. \A g \in Handlers \ {h} : handlers'[g] = handlers[g]
    BY <1>0, <1>9 DEF Finish, RequestsOK
  <2> QED BY <1>9, <2>1 DEF Deleting, At
<1>10. ASSUME NEW h \in Handlers, Deleted(h) PROVE Traced'
  <2>1. /\ handlers[h].code \in Codes /\ SendDel(handlers[h].code) /\ Finish(h) /\ UNCHANGED <<links, cache, worker>>
    BY <1>0, <1>10, RequestFacts DEF Deleted, At
  <2>2. CASE raced' = raced \cup {handlers[h].code} /\ UNCHANGED queue
    <3>1. \A c \in Codes \ raced' : handlers[h].code # c
      BY <2>2
    <3>2. \A c \in Codes \ raced' : Deleting(c) => Deleting(c)'
      BY <1>9, <2>1, <3>1
    <3> QED BY <1>1, <2>1, <2>2, <3>2
  <2> DEFINE Sends(op) == queue' = Append(queue, op) /\ raced' = raced /\ op.op = "del" /\ op.code = handlers[h].code
  <2>3. ASSUME NEW op \in Ops, Sends(op) PROVE Traced'
    <3> SUFFICES ASSUME NEW c \in Codes \ raced' PROVE Parts(c)'
      BY <1>q
    <3>1. TracedCache(c) /\ TracedQueue(c) /\ TracedWork(c)
      BY <2>3, <1>p DEF Parts
    <3>2. /\ \A n \in Nat : DelAfter(c, n) => DelAfter(c, n)'
          /\ op.code = c => \A n \in DOMAIN queue \cup {0} : DelAfter(c, n)'
          /\ \A n \in DOMAIN queue' : (n \in DOMAIN queue /\ queue'[n] = queue[n]) \/ queue'[n] = op
          /\ DOMAIN queue \subseteq Nat
      BY <1>0, <2>3, DelsAfterSend
    <3>3. Deleting(c) => Deleting(c)' \/ op.code = c
      <4>1. \A g \in Handlers \ {h} : handlers'[g] = handlers[g]
        BY <1>0, <2>1 DEF Finish, RequestsOK
      <4> QED BY <2>3, <4>1 DEF Deleting, At
    <3>4. TracedCache(c)'
      BY <2>1, <3>1, <3>2, <3>3 DEF TracedCache, DelComing, DelInWork
    <3>5. TracedWork(c)'
      BY <2>1, <3>1, <3>2, <3>3 DEF TracedWork
    <3>6. TracedQueue(c)'
      <4> SUFFICES ASSUME NEW n \in DOMAIN queue', queue'[n].op = "set", queue'[n].code = c
                   PROVE  queue'[n].id = links'[c].id \/ Deleting(c)' \/ DelAfter(c, n)'
        BY DEF TracedQueue
      <4>1. n \in DOMAIN queue /\ queue'[n] = queue[n]
        BY <2>3, <3>2
      <4> QED BY <2>1, <3>1, <3>2, <3>3, <4>1 DEF TracedQueue
    <3> QED BY <3>4, <3>5, <3>6 DEF Parts
  <2>4. (raced' = raced \cup {handlers[h].code} /\ UNCHANGED queue) \/ \E op \in Ops : Sends(op)
    BY <2>1, SentDel
  <2> HIDE DEF Sends
  <2> QED BY <2>2, <2>3, <2>4
<1>11. ASSUME NEW h \in Handlers, Cancel(h) PROVE Traced'
  <2>1. Finish(h) /\ UNCHANGED <<links, cache, queue, worker>>
    BY <1>11 DEF Cancel
  <2>2. \A g \in Handlers \ {h} : handlers'[g] = handlers[g]
    BY <1>0, <2>1 DEF Finish, RequestsOK
  <2>3. CASE handlers[h].pc # "deleted"
    BY <1>2, <1>11, <2>1, <2>2, <2>3 DEF Cancel, At
  <2>4. CASE handlers[h].pc = "deleted"
    <3>1. raced' = raced \cup {handlers[h].code}
      BY <1>11, <2>4 DEF Cancel, At
    <3>2. \A c \in Codes \ raced' : handlers[h].code # c
      BY <3>1
    <3>3. \A c \in Codes \ raced' : Deleting(c) => Deleting(c)'
      BY <1>9, <2>1, <3>2
    <3> QED BY <1>1, <2>1, <3>1, <3>3
  <2> QED BY <2>3, <2>4
<1>12. ASSUME RecvOp PROVE Traced'
  <2>1. queue # <<>> /\ queue' = Tail(queue) /\ worker.op.op = "none" /\ UNCHANGED <<links, cache, handlers, raced>>
    BY <1>0, <1>12, WorkFacts DEF RecvOp, Receive
  <2> SUFFICES ASSUME NEW c \in Codes \ raced PROVE Parts(c)'
    BY <1>q, <2>1
  <2>2. TracedCache(c) /\ TracedQueue(c) /\ TracedWork(c)
    BY <1>p DEF Parts
  <2>3. /\ \A n \in DOMAIN queue' : n \in Nat /\ n + 1 \in DOMAIN queue /\ queue'[n] = queue[n + 1]
        /\ \A n \in DOMAIN queue' : DelAfter(c, n + 1) => DelAfter(c, n)'
        /\ DelAfter(c, 1) => DelAfter(c, 0)'
        /\ DelAfter(c, 0) => DelAfter(c, 0)' \/ (queue[1].op = "del" /\ queue[1].code = c)
        /\ 1 \in DOMAIN queue /\ Head(queue) = queue[1]
    BY <1>0, <2>1, DelsAfterReceive
  <2>4. worker'.op = queue[1]
    BY <1>12, <2>3 DEF RecvOp, Receive
  <2>5. Deleting(c)' <=> Deleting(c)
    BY <2>1 DEF Deleting, At
  <2>6. TracedCache(c)'
    BY <2>1, <2>2, <2>3, <2>4, <2>5 DEF TracedCache, DelComing, DelInWork
  <2>7. TracedWork(c)'
    BY <2>1, <2>2, <2>3, <2>4, <2>5 DEF TracedWork, TracedQueue
  <2>8. TracedQueue(c)'
    BY <2>1, <2>2, <2>3, <2>5 DEF TracedQueue
  <2> QED BY <2>6, <2>7, <2>8 DEF Parts
<1>13. ASSUME ProcessOp PROVE Traced'
  <2>1. /\ worker.op \in Ops /\ worker.op.op \in {"set", "del"} /\ worker.op.code \in Codes
        /\ worker.op.op = "set" => WholeSeconds(worker.op.ttl) > 0
        /\ worker'.op.op = "none" /\ UNCHANGED <<links, queue, handlers>>
    BY <1>0, <1>13, WorkFacts DEF ProcessOp, NoOp, Ops
  <2> SUFFICES ASSUME NEW c \in Codes \ raced' PROVE Parts(c)'
    BY <1>q
  <2>2. raced \subseteq raced'
    BY <1>13 DEF ProcessOp
  <2>3. TracedCache(c) /\ TracedQueue(c) /\ TracedWork(c)
    BY <1>p, <2>2 DEF Parts
  <2>4. Deleting(c)' <=> Deleting(c)
    BY <2>1 DEF Deleting, At
  <2>5. \A n : DelAfter(c, n)' <=> DelAfter(c, n)
    BY <2>1 DEF DelAfter
  <2>6. \/ cache'[c] = cache[c] /\ ~(worker.op.op = "del" /\ worker.op.code = c)
        \/ cache'[c].id = None
        \/ worker.op.op = "set" /\ worker.op.code = c /\ cache'[c].id = worker.op.id
    <3>1. CASE cache' = [cache EXCEPT ![worker.op.code] = Executed(worker.op, @)]
      <4>1. CASE worker.op.code = c
        BY <1>0, <2>1, <3>1, <4>1 DEF Executed, NotCached, Formed, CacheOK
      <4>2. CASE worker.op.code # c
        BY <1>0, <2>1, <3>1, <4>2 DEF Formed, CacheOK
      <4> QED BY <4>1, <4>2
    <3>2. CASE cache' = cache /\ raced' = IF worker.op.op = "del" THEN raced \cup {worker.op.code} ELSE raced
      BY <3>2
    <3> QED BY <1>13, <3>1, <3>2 DEF ProcessOp
  <2>7. TracedCache(c)'
    BY <2>1, <2>3, <2>4, <2>5, <2>6 DEF TracedCache, DelComing, DelInWork, TracedWork
  <2>8. TracedWork(c)'
    BY <2>1 DEF TracedWork
  <2>9. TracedQueue(c)'
    BY <2>1, <2>3, <2>4, <2>5 DEF TracedQueue
  <2> QED BY <2>7, <2>8, <2>9 DEF Parts
<1>14. ASSUME UNCHANGED <<links, queue, handlers>>, worker'.op = worker.op, raced' = raced,
              \A c \in Codes : cache'[c].id \in {None, cache[c].id}
       PROVE  Traced'
  BY <1>1, <1>14 DEF Deleting, At
<1>15. ASSUME WorkerExit \/ CloseQueue \/ Shutdown \/ RedisCrash PROVE Traced'
  <2>1. worker'.op = worker.op
    BY <1>0, <1>15 DEF WorkerExit, CloseQueue, Shutdown, RedisCrash, Formed, WorkerOK
  <2>2. \A c \in Codes : cache'[c].id \in {None, cache[c].id}
    BY <1>15 DEF WorkerExit, CloseQueue, Shutdown, RedisCrash, NotCached
  <2> QED BY <1>14, <1>15, <2>1, <2>2 DEF WorkerExit, CloseQueue, Shutdown, RedisCrash
<1>16. ASSUME StartAgain, raced \subseteq raced', \A c \in Codes \ raced' : ~DelComing(c) PROVE Traced'
  <2> SUFFICES ASSUME NEW c \in Codes \ raced' PROVE Parts(c)'
    BY <1>q
  <2>1. TracedCache(c) /\ ~DelComing(c)
    BY <1>p, <1>16 DEF Parts
  <2>2. queue' = <<>> /\ worker'.op.op = "none" /\ UNCHANGED <<links, cache>>
    BY <1>16 DEF StartAgain, Receiving, NoOp
  <2>3. TracedCache(c)'
    BY <2>1, <2>2 DEF TracedCache
  <2> QED BY <2>2, <2>3 DEF Parts, TracedQueue, TracedWork
<1>17. ASSUME Crash PROVE Traced'
  BY <1>16, <1>17 DEF Crash, DelComing
<1>18. ASSUME ProcessEnds PROVE Traced'
  <2>1. queue = <<>> /\ worker.op.op = "none" /\ \A h \in Handlers : handlers[h].pc = "free"
    BY <1>0, <1>18, WorkFacts DEF ProcessEnds, Formed, WorkerOK, At
  <2>2. \A c \in Codes : ~DelComing(c)
    BY <2>1 DEF DelComing, Deleting, At, DelAfter, DelInWork
  <2> QED BY <1>16, <1>18, <2>2 DEF ProcessEnds
<1>19. ASSUME NEW d \in Codes, Purge(d) PROVE Traced'
  <2>1. links' = [links EXCEPT ![d] = NoLink] /\ UNCHANGED <<cache, queue, worker, handlers, raced>>
    BY <1>19 DEF Purge
  <2>2. links[d].exp = -Retention /\ links[d].exp \in Int /\ links[d].exp # Never /\ links[d].exp + MaxWait <= 0
    BY <1>19 DEF Purge
  <2> SUFFICES ASSUME NEW c \in Codes \ raced PROVE Parts(c)'
    BY <1>q, <2>1
  <2>3. TracedCache(c) /\ TracedQueue(c) /\ TracedWork(c)
    BY <1>p DEF Parts
  <2>4. CASE c # d
    <3>1. links'[c] = links[c]
      BY <1>0, <2>1, <2>4 DEF Formed, TablesOK
    <3>2. Deleting(c) => Deleting(c)'
      BY <2>1 DEF Deleting, At
    <3> QED BY <2>1, <2>3, <3>1, <3>2, TracedUnchanged DEF Parts
  <2>5. CASE c = d
    <3>1. Deleting(c)' <=> Deleting(c)
      BY <2>1 DEF Deleting, At
    <3>2. \A n : DelAfter(c, n)' <=> DelAfter(c, n)
      BY <2>1 DEF DelAfter
    <3>3. DelInWork(c)' <=> DelInWork(c)
      BY <2>1 DEF DelInWork
    <3>4. cache[c].id = None \/ cache[c].id # links[c].id
      <4> SUFFICES ASSUME cache[c].id # None, cache[c].id = links[c].id PROVE FALSE
        OBVIOUS
      <4>1. cache[c].ttl \in Nat /\ cache[c].ttl > 0
        BY <1>0 DEF Formed, CacheOK
      <4>2. cache[c].ttl <= links[c].exp + MaxWait
        BY <1>0, <2>2, <2>5 DEF Timely, Due
      <4> QED BY <2>2, <2>5, <4>1, <4>2
    <3>5. \A n \in DOMAIN queue : queue[n].op = "set" /\ queue[n].code = c => queue[n].id # links[c].id
      <4> SUFFICES ASSUME NEW n \in DOMAIN queue, queue[n].op = "set", queue[n].code = c, queue[n].id = links[c].id
                   PROVE  FALSE
        OBVIOUS
      <4>1. queue[n].ttl \in Nat /\ queue[n].ttl > 0 /\ queue[n].age \in Nat /\ queue[n].age <= MaxWait
        BY <1>0, QueueFacts
      <4>2. queue[n].ttl <= links[c].exp + queue[n].age
        BY <1>0, <2>2, <2>5 DEF Timely, Due
      <4> QED BY <2>2, <2>5, <4>1, <4>2
    <3>6. worker.op.op = "set" /\ worker.op.code = c => worker.op.id # links[c].id
      <4> SUFFICES ASSUME worker.op.op = "set", worker.op.code = c, worker.op.id = links[c].id PROVE FALSE
        OBVIOUS
      <4>1. worker.op.ttl \in Nat /\ worker.op.ttl > 0 /\ worker.op.age \in Nat /\ worker.op.age <= MaxWait
        BY <1>0, WorkFacts
      <4>2. worker.op.ttl <= links[c].exp + worker.op.age
        BY <1>0, <2>2, <2>5 DEF Timely, Due
      <4> QED BY <2>2, <2>5, <4>1, <4>2
    <3>7. TracedCache(c)'
      BY <2>1, <2>3, <3>1, <3>2, <3>3, <3>4 DEF TracedCache, DelComing
    <3>8. TracedQueue(c)'
      BY <2>1, <2>3, <3>1, <3>2, <3>5 DEF TracedQueue
    <3>9. TracedWork(c)'
      BY <2>1, <2>3, <3>1, <3>2, <3>6 DEF TracedWork
    <3> QED BY <3>7, <3>8, <3>9 DEF Parts
  <2> QED BY <2>4, <2>5
<1>20. ASSUME Tick PROVE Traced'
  <2> SUFFICES ASSUME NEW c \in Codes \ raced' PROVE Parts(c)'
    BY <1>q
  <2>1. TracedCache(c) /\ TracedQueue(c) /\ TracedWork(c)
    BY <1>20, <1>p DEF Parts, Tick
  <2>2. links'[c].id = links[c].id
    BY <1>0, <1>20 DEF Tick, Formed, TablesOK
  <2>3. cache'[c].id \in {None, cache[c].id}
    <3>1. cache[c] \in [id : Ids, ttl : Nat] /\ cache'[c] = Remaining(cache[c])
      BY <1>0, <1>20 DEF Tick, Formed, CacheOK
    <3> QED BY <3>1 DEF Remaining, NoExpiry, NotCached
  <2>4. /\ DOMAIN queue' = DOMAIN queue
        /\ \A n \in DOMAIN queue : /\ queue'[n].op = queue[n].op /\ queue'[n].code = queue[n].code
                                  /\ queue'[n].id = queue[n].id
    <3>1. DOMAIN queue' = DOMAIN queue /\ \A n \in DOMAIN queue : queue'[n] = Older(queue[n])
      BY <1>20 DEF Tick
    <3> QED BY <1>0, <3>1, OlderOp, QueueFacts
  <2>5. worker'.op.op = worker.op.op /\ worker'.op.code = worker.op.code /\ worker'.op.id = worker.op.id
    <3>1. worker'.op = Older(worker.op)
      BY <1>0, <1>20 DEF Tick, Formed, WorkerOK
    <3> QED BY <1>0, <3>1, OlderOp, WorkFacts
  <2>6. Deleting(c)' <=> Deleting(c)
    <3>1. \A h \in Handlers : handlers'[h].pc = handlers[h].pc /\ handlers'[h].code = handlers[h].code
      BY <1>0, <1>20, RequestFacts DEF Tick, Requests
    <3> QED BY <3>1 DEF Deleting, At
  <2>7. \A n : DelAfter(c, n)' <=> DelAfter(c, n)
    BY <2>4 DEF DelAfter
  <2>8. DelInWork(c)' <=> DelInWork(c)
    BY <2>5 DEF DelInWork
  <2>9. TracedCache(c)'
    BY <2>1, <2>2, <2>3, <2>6, <2>7, <2>8 DEF TracedCache, DelComing
  <2>10. TracedQueue(c)'
    BY <2>1, <2>2, <2>4, <2>6, <2>7 DEF TracedQueue
  <2>11. TracedWork(c)'
    BY <2>1, <2>2, <2>5, <2>6, <2>7 DEF TracedWork
  <2> QED BY <2>9, <2>10, <2>11 DEF Parts
<1>21. CASE UNCHANGED vars
  BY <1>14, <1>21 DEF vars
<1> QED
  BY <1>4, <1>5, <1>6, <1>7, <1>8, <1>10, <1>11, <1>12, <1>13, <1>15, <1>17, <1>18, <1>19, <1>20, <1>21
     DEF Next, Handle, Work

(* Nothing is out of date at the start.                                    *)
LEMMA InitTraced == Init => Traced
BY DEF Init, Traced, TracedCache, TracedQueue, TracedWork, NotCached, Receiving, NoOp

(* A cached link that is not the code's link has a Del on its way, unless  *)
(* a Del was lost or a Set came too late.                                  *)
THEOREM StaleIsTraced == Spec => []StaleHasCause
<1>1. Traced => StaleHasCause
  BY DEF Traced, TracedCache, DelComing, StaleHasCause
<1>2. Spec => []Traced
  BY InvCacheHolds, InitTraced, TracedStep, PTL DEF Spec
<1> QED BY <1>1, <1>2, PTL

-----------------------------------------------------------------------------
(* The cache of ServedLinks.  Removing is seen through two lemmas: what a  *)
(* request, and what an operation in the queue, adds to it or takes off.   *)

LEMMA RemovingIs == Removing = {c \in Codes : DelComing(c)}
BY DEF Removing, DelComing

(* Every code but some has a Del coming as before.                         *)
LEMMA RemovingKept ==
  ASSUME \A c \in Codes : DelComing(c)' <=> DelComing(c)
  PROVE  UNCHANGED Removing
<1>1. Removing = {c \in Codes : DelComing(c)} /\ Removing' = {c \in Codes : DelComing(c)'}
  BY DEF Removing, DelComing
<1> QED BY <1>1

LEMMA RemovingAllBut ==
  ASSUME NEW c \in Codes, \A d \in Codes \ {c} : DelComing(d)' <=> DelComing(d), DelComing(c)' => DelComing(c)
  PROVE  Removing' \in {Removing, Removing \ {c}}
<1>1. Removing = {d \in Codes : DelComing(d)} /\ Removing' = {d \in Codes : DelComing(d)'}
  BY DEF Removing, DelComing
<1>2. CASE DelComing(c)'
  BY <1>1, <1>2
<1>3. CASE ~DelComing(c)'
  BY <1>1, <1>3
<1> QED BY <1>2, <1>3

(* A request that comes, goes on or ends.                                  *)
LEMMA DeletionsMove ==
  ASSUME RequestsOK, NEW h \in Handlers, NEW r, handlers' = [handlers EXCEPT ![h] = r], NEW c \in Codes
  PROVE  /\ r.pc # "deleted" => (Deleting(c)' => Deleting(c))
         /\ r.pc # "deleted" /\ (handlers[h].pc # "deleted" \/ handlers[h].code # c) => (Deleting(c) => Deleting(c)')
         /\ r.pc = "deleted" /\ handlers[h].pc # "deleted" => (Deleting(c)' <=> Deleting(c) \/ c = r.code)
<1>1. handlers'[h] = r /\ \A g \in Handlers \ {h} : handlers'[g] = handlers[g]
  BY DEF RequestsOK
<1> QED BY <1>1 DEF Deleting, At

(* Operations that wait or are in work, with one more in the queue,        *)
LEMMA DelsSent ==
  ASSUME QueueOK, NEW op \in Ops, queue' = Append(queue, op), UNCHANGED worker, NEW c \in Codes
  PROVE  DelAfter(c, 0)' \/ DelInWork(c)' <=> DelAfter(c, 0) \/ DelInWork(c) \/ (op.op = "del" /\ op.code = c)
<1>1. /\ DelAfter(c, 0) => DelAfter(c, 0)'
      /\ op.op = "del" /\ op.code = c => DelAfter(c, 0)'
      /\ \A n \in DOMAIN queue' : (n \in DOMAIN queue /\ queue'[n] = queue[n]) \/ queue'[n] = op
  BY DelsAfterSend
<1>2. DelAfter(c, 0)' => DelAfter(c, 0) \/ (op.op = "del" /\ op.code = c)
  BY <1>1 DEF DelAfter
<1>3. DelInWork(c)' <=> DelInWork(c)
  BY DEF DelInWork
<1> QED BY <1>1, <1>2, <1>3

(* and with the oldest one in work.                                        *)
LEMMA DelsReceived ==
  ASSUME QueueOK, queue # <<>>, queue' = Tail(queue), worker.op.op = "none", worker'.op = Head(queue), NEW c \in Codes
  PROVE  DelAfter(c, 0)' \/ DelInWork(c)' <=> DelAfter(c, 0) \/ DelInWork(c)
<1>1. /\ \A n \in DOMAIN queue' : n \in Nat /\ n + 1 \in DOMAIN queue /\ queue'[n] = queue[n + 1]
      /\ DelAfter(c, 0) => DelAfter(c, 0)' \/ (queue[1].op = "del" /\ queue[1].code = c)
      /\ 1 \in DOMAIN queue /\ Head(queue) = queue[1]
  BY DelsAfterReceive
<1>2. DelAfter(c, 0)' => DelAfter(c, 0)
  BY <1>1 DEF DelAfter
<1>3. queue[1].op = "del" /\ queue[1].code = c => DelAfter(c, 0)
  BY <1>1 DEF DelAfter
<1>4. DelInWork(c)' <=> queue[1].op = "del" /\ queue[1].code = c
  BY <1>1 DEF DelInWork
<1>5. ~DelInWork(c)
  BY DEF DelInWork
<1> QED BY <1>1, <1>2, <1>3, <1>4, <1>5

(* Neither, when both are as before.                                       *)
LEMMA DelsKept ==
  ASSUME UNCHANGED queue, worker'.op = worker.op, NEW c
  PROVE  DelAfter(c, 0)' \/ DelInWork(c)' <=> DelAfter(c, 0) \/ DelInWork(c)
<1>1. DelAfter(c, 0)' <=> DelAfter(c, 0)
  BY DEF DelAfter
<1>2. DelInWork(c)' <=> DelInWork(c)
  BY DEF DelInWork
<1> QED BY <1>1, <1>2

(* Nothing is seen of a step that changes what is coming for no code,      *)
LEMMA Unseen ==
  ASSUME UNCHANGED <<links, cache, stored, raced>>, \A c \in Codes : DelComing(c)' <=> DelComing(c)
  PROVE  UNCHANGED Served!vars
BY RemovingKept DEF Served!vars

(* and a code goes astray when its Del gets lost or a Set comes too late.  *)
LEMMA GoesAstray ==
  ASSUME NEW c \in Codes, UNCHANGED <<links, cache, stored>>, raced' = raced \cup {c},
         \A d \in Codes \ {c} : DelComing(d)' <=> DelComing(d), DelComing(c)' => DelComing(c)
  PROVE  Served!Next
<1>1. Removing' \in {Removing, Removing \ {c}}
  BY RemovingAllBut
<1>2. Served!Stray(c)
  BY <1>1 DEF Served!Stray
<1> QED BY <1>2 DEF Served!Next

(* A request that leaves table and queue alone, and is at no deletion.     *)
LEMMA RequestUnseen ==
  ASSUME RequestsOK, NEW h \in Handlers, handlers[h].pc # "deleted",
         NEW r, r.pc # "deleted", handlers' = [handlers EXCEPT ![h] = r],
         UNCHANGED <<links, cache, stored, raced, queue, worker>>
  PROVE  UNCHANGED Served!vars
<1>1. \A c \in Codes : Deleting(c)' <=> Deleting(c)
  BY DeletionsMove
<1>2. \A c \in Codes : DelComing(c)' <=> DelComing(c)
  BY <1>1, DelsKept DEF DelComing
<1> QED BY <1>2, Unseen

(* Requests that come, read or are dropped at no deletion are not seen.    *)
LEMMA ReadersUnseen ==
  ASSUME Formed, NEW h \in Handlers,
         CreateLink(h) \/ GetLink(h) \/ DeleteLink(h) \/ SelectRow(h) \/ (Cancel(h) /\ ~At(h, "deleted"))
  PROVE  UNCHANGED Served!vars
<1>0. RequestsOK /\ Free.pc = "free"
  BY DEF Formed, Free
<1>1. CASE CreateLink(h)
  <2>1. PICK c \in Codes, exp \in Lifetimes : Begin(h, [pc |-> "insert", code |-> c, id |-> created + 1, exp |-> exp])
    BY <1>1 DEF CreateLink
  <2> QED BY <1>0, <2>1, RequestUnseen DEF Begin, At
<1>2. CASE GetLink(h) \/ DeleteLink(h)
  <2>1. PICK c \in Codes, l \in {"select", "delete"} : Begin(h, [pc |-> l, code |-> c, id |-> None, exp |-> Never])
    BY <1>2 DEF GetLink, DeleteLink
  <2> QED BY <1>0, <2>1, RequestUnseen DEF Begin, At
<1>3. CASE SelectRow(h)
  <2>1. PICK r : handlers' = [handlers EXCEPT ![h] = r] /\ r.pc # "deleted"
    <3> DEFINE row == links[handlers[h].code]
               r == [pc |-> "selected", code |-> handlers[h].code, id |-> row.id, exp |-> row.exp]
    <3>1. Finish(h) \/ handlers' = [handlers EXCEPT ![h] = r]
      BY <1>3 DEF SelectRow
    <3> QED BY <1>0, <3>1 DEF Finish
  <2> QED BY <1>0, <1>3, <2>1, RequestUnseen DEF SelectRow, At
<1>4. CASE Cancel(h) /\ ~At(h, "deleted")
  BY <1>0, <1>4, RequestUnseen DEF Cancel, Finish, At
<1> QED BY <1>1, <1>2, <1>3, <1>4

(* A row is inserted: a link is stored, or the code was taken.             *)
LEMMA InsertionStores ==
  ASSUME InvCache, NEW h \in Handlers, InsertRow(h)
  PROVE  [Served!Next]_(Served!vars)
<1> DEFINE c == handlers[h].code
           new == [id |-> handlers[h].id, exp |-> handlers[h].exp]
<1>0. Formed /\ RequestsOK /\ NewIds /\ Free.pc = "free"
  BY DEF InvCache, Formed, Free
<1>1. c \in Codes /\ handlers[h].pc = "insert" /\ handlers[h].id # None
  BY <1>0, RequestFacts DEF InsertRow, At
<1>2. CASE links[c] # NoLink
  <2>1. handlers' = [handlers EXCEPT ![h] = Free] /\ UNCHANGED <<links, cache, stored, raced, queue, worker>>
    BY <1>2 DEF InsertRow, Finish
  <2> QED BY <1>0, <1>1, <2>1, RequestUnseen
<1>3. CASE links[c] = NoLink
  <2>1. /\ links' = [links EXCEPT ![c] = new] /\ stored' = stored \cup {<<c, new.id>>}
        /\ handlers' = [handlers EXCEPT ![h].pc = "inserted"] /\ UNCHANGED <<cache, raced, queue, worker>>
    BY <1>3 DEF InsertRow, Goto
  <2>2. \A d \in Codes : Deleting(d)' <=> Deleting(d)
    <3>1. [handlers[h] EXCEPT !.pc = "inserted"].pc = "inserted"
      BY <1>0, RequestFacts DEF Requests
    <3>2. handlers' = [handlers EXCEPT ![h] = [handlers[h] EXCEPT !.pc = "inserted"]]
      BY <2>1
    <3> QED BY <1>0, <1>1, <3>1, <3>2, DeletionsMove
  <2>3. UNCHANGED Removing
    BY <2>1, <2>2, DelsKept, RemovingKept DEF DelComing
  <2>4. \A k \in stored : k[2] # new.id
    BY <1>0, <1>1 DEF NewIds, At
  <2>5. links'[c] = new /\ new.id # None
    BY <1>0, <1>1, <2>1 DEF Formed, TablesOK
  <2> HIDE DEF c, new
  <2>6. Served!Store(c, links'[c])
    BY <1>3, <2>1, <2>3, <2>4, <2>5 DEF Served!Store
  <2> QED BY <1>1, <2>6 DEF Served!Next
<1> QED BY <1>2, <1>3

(* A Set is sent: the cache does not see it, or the code goes astray.      *)
LEMMA SetSentUnseen ==
  ASSUME Formed, NEW h \in Handlers, Inserted(h) \/ Selected(h)
  PROVE  [Served!Next]_(Served!vars)
<1>1. /\ handlers[h].code \in Codes /\ handlers[h].id \in Ids \ {None} /\ handlers[h].exp \in Expirations
      /\ handlers[h].pc # "deleted" /\ Free.pc # "deleted" /\ RequestsOK /\ QueueOK
  BY RequestFacts DEF Inserted, Selected, At, Free, Formed
<1>2. handlers' = [handlers EXCEPT ![h] = Free] /\ UNCHANGED <<links, cache, stored, worker>>
  BY DEF Inserted, Selected, Finish
<1>3. \A c \in Codes : Deleting(c)' <=> Deleting(c)
  BY <1>1, <1>2, DeletionsMove
<1>4. CASE UNCHANGED <<queue, raced>>
  BY <1>1, <1>2, <1>4, RequestUnseen
<1>5. CASE SendSet(handlers[h].code, handlers[h].id, handlers[h].exp)
  <2> DEFINE c == handlers[h].code
             Sends(op) == queue' = Append(queue, op) /\ op.op = "set"
  <2>1. UNCHANGED <<queue, raced>> \/ ((raced' = raced \/ raced' = raced \cup {c}) /\ \E op \in Ops : Sends(op))
    BY <1>1, <1>5, SentSet
  <2>2. ASSUME NEW op \in Ops, Sends(op) PROVE \A d \in Codes : DelComing(d)' <=> DelComing(d)
    BY <1>1, <1>2, <1>3, <2>2, DelsSent DEF DelComing
  <2> HIDE DEF c, Sends
  <2>3. CASE UNCHANGED <<queue, raced>>
    BY <1>4, <2>3
  <2>4. CASE raced' = raced /\ \E op \in Ops : Sends(op)
    BY <1>2, <2>2, <2>4, Unseen
  <2>5. CASE raced' = raced \cup {c} /\ \E op \in Ops : Sends(op)
    BY <1>1, <1>2, <2>2, <2>5, GoesAstray DEF c
  <2> QED BY <2>1, <2>3, <2>4, <2>5
<1> QED BY <1>4, <1>5 DEF Inserted, Selected

(* A row is deleted: the removal of its link has begun.                    *)
LEMMA DeletionRemoves ==
  ASSUME Formed, NEW h \in Handlers, DeleteRow(h)
  PROVE  [Served!Next]_(Served!vars)
<1> DEFINE c == handlers[h].code
           r == [handlers[h] EXCEPT !.pc = "deleted"]
<1>1. RequestsOK /\ c \in Codes /\ handlers[h].pc = "delete" /\ Free.pc = "free"
  BY RequestFacts DEF DeleteRow, At, Formed, Free
<1>2. r.pc = "deleted" /\ r.code = c
  BY RequestFacts DEF Requests
<1>3. CASE links[c] = NoLink
  <2>1. links' = links
    BY <1>3 DEF DeleteRow, Formed, TablesOK
  <2>2. handlers' = [handlers EXCEPT ![h] = Free] /\ UNCHANGED <<cache, stored, raced, queue, worker>>
    BY <1>3 DEF DeleteRow, Finish
  <2> QED BY <1>1, <2>1, <2>2, RequestUnseen
<1>4. CASE links[c] # NoLink
  <2>1. links' = [links EXCEPT ![c] = NoLink] /\ UNCHANGED <<cache, stored, raced, queue, worker>>
    BY DEF DeleteRow
  <2>2. handlers' = [handlers EXCEPT ![h] = r]
    BY <1>4 DEF DeleteRow, Goto
  <2> HIDE DEF r
  <2>3. \A d \in Codes : Deleting(d)' <=> Deleting(d) \/ d = c
    BY <1>1, <1>2, <2>2, DeletionsMove
  <2> HIDE DEF c
  <2>4. \A d \in Codes : DelComing(d)' <=> DelComing(d) \/ d = c
    BY <2>1, <2>3, DelsKept DEF DelComing
  <2>5. Removing' = Removing \cup {c}
    <3>1. Removing = {d \in Codes : DelComing(d)} /\ Removing' = {d \in Codes : DelComing(d)'}
      BY DEF Removing, DelComing
    <3> QED BY <1>1, <2>4, <3>1
  <2>6. Served!Remove(c)
    BY <1>4, <2>1, <2>5 DEF Served!Remove
  <2> QED BY <1>1, <2>6 DEF Served!Next
<1> QED BY <1>3, <1>4

(* Its Del is sent, and follows the request; or it is lost, and the code   *)
(* goes astray.                                                            *)
LEMMA DelSentUnseen ==
  ASSUME Formed, NEW h \in Handlers, Deleted(h) \/ (Cancel(h) /\ At(h, "deleted"))
  PROVE  [Served!Next]_(Served!vars)
<1>0. PICK c \in Codes : c = handlers[h].code
  BY RequestFacts DEF Deleted, At
<1> DEFINE Sends(op) == queue' = Append(queue, op) /\ raced' = raced /\ op.op = "del" /\ op.code = c
<1>1. RequestsOK /\ QueueOK /\ Free.pc # "deleted"
  BY DEF Formed, Free
<1>2. handlers' = [handlers EXCEPT ![h] = Free] /\ UNCHANGED <<links, cache, stored, worker>>
  BY DEF Deleted, Cancel, Finish
<1>3. (raced' = raced \cup {c} /\ UNCHANGED queue) \/ \E op \in Ops : Sends(op)
  BY <1>0, SentDel DEF Deleted, Cancel
<1>4. \A d \in Codes : /\ Deleting(d)' => Deleting(d)
                       /\ d # c => (Deleting(d) => Deleting(d)')
  BY <1>0, <1>1, <1>2, DeletionsMove
<1>5. CASE raced' = raced \cup {c} /\ UNCHANGED queue
  <2>1. /\ \A d \in Codes \ {c} : DelComing(d)' <=> DelComing(d)
        /\ DelComing(c)' => DelComing(c)
    BY <1>2, <1>4, <1>5, DelsKept DEF DelComing
  <2> QED BY <1>2, <1>5, <2>1, GoesAstray
<1>6. ASSUME NEW op \in Ops, Sends(op) PROVE UNCHANGED Served!vars
  <2>1. \A d \in Codes : DelAfter(d, 0)' \/ DelInWork(d)' <=> DelAfter(d, 0) \/ DelInWork(d) \/ d = c
    BY <1>1, <1>2, <1>6, DelsSent
  <2>2. Deleting(c)
    BY <1>0 DEF Deleted, Deleting, At
  <2>3. \A d \in Codes : DelComing(d)' <=> DelComing(d)
    BY <1>4, <2>1, <2>2 DEF DelComing
  <2> QED BY <1>2, <1>6, <2>3, Unseen
<1> HIDE DEF Sends
<1> QED BY <1>3, <1>5, <1>6

(* The worker takes an operation, or only changes what it does itself.     *)
LEMMA WorkerUnseen ==
  ASSUME Formed, RecvOp \/ CloseQueue \/ WorkerExit \/ Shutdown \/ UNCHANGED vars
  PROVE  UNCHANGED Served!vars
<1>1. UNCHANGED <<links, cache, stored, raced, handlers>>
  BY DEF RecvOp, CloseQueue, WorkerExit, Shutdown, vars
<1>2. \A c \in Codes : Deleting(c)' <=> Deleting(c)
  BY <1>1 DEF Deleting, At
<1>3. \A c \in Codes : DelAfter(c, 0)' \/ DelInWork(c)' <=> DelAfter(c, 0) \/ DelInWork(c)
  <2>1. CASE RecvOp
    <3>1. queue # <<>> /\ queue' = Tail(queue) /\ worker.op.op = "none" /\ worker'.op = Head(queue) /\ QueueOK
      BY <2>1, WorkFacts DEF RecvOp, Receive, Formed
    <3> QED BY <3>1, DelsReceived
  <2>2. CASE CloseQueue \/ WorkerExit \/ Shutdown \/ UNCHANGED vars
    <3>1. UNCHANGED queue /\ worker'.op = worker.op
      BY <2>2 DEF CloseQueue, WorkerExit, Shutdown, vars, Formed, WorkerOK
    <3> QED BY <3>1, DelsKept
  <2> QED BY <2>1, <2>2
<1> QED BY <1>1, <1>2, <1>3, Unseen DEF DelComing

(* A Set fills the entry of its code, with a link that is the code's, or   *)
(* has a Del behind it, or went astray.                                    *)
LEMMA SetFills ==
  ASSUME InvCache, Traced, ProcessOp, worker.op.op = "set",
         cache' = [cache EXCEPT ![worker.op.code] = Executed(worker.op, @)], UNCHANGED raced
  PROVE  Served!Next
<1> DEFINE c == worker.op.code
           new == [id |-> worker.op.id, ttl |-> WholeSeconds(worker.op.ttl)]
<1>0. Formed /\ Known /\ Timely
  BY DEF InvCache
<1>1. /\ c \in Codes /\ WholeSeconds(worker.op.ttl) > 0 /\ worker.op.ttl \in Nat
      /\ worker.op.age \in Nat /\ worker.op.age <= MaxWait
  BY <1>0, WorkFacts
<1>2. UNCHANGED <<links, queue, handlers, stored>> /\ worker'.op.op = "none"
  BY DEF ProcessOp, NoOp
<1>3. cache' = [cache EXCEPT ![c] = new] /\ cache'[c] = new
  BY <1>0, <1>1 DEF Executed, SetEx, Formed, CacheOK
<1>4. <<c, new.id>> \in stored
  BY <1>0 DEF Known, Stored
<1>5. new.id = links[c].id \/ c \in Removing \cup raced
  BY <1>1 DEF Traced, TracedWork, Removing
<1>6. new.id = links[c].id /\ links[c].exp # Never => new.ttl <= links[c].exp + MaxWait
  <2> SUFFICES ASSUME new.id = links[c].id, links[c].exp # Never PROVE new.ttl <= links[c].exp + MaxWait
    OBVIOUS
  <2>1. worker.op.ttl <= links[c].exp + worker.op.age
    BY <1>0 DEF Timely, Due
  <2>2. links[c].exp \in Int /\ new.ttl \in Nat /\ new.ttl <= worker.op.ttl
    BY <1>0, <1>1, WholeSecondsBounds DEF Formed, TablesOK, Expirations
  <2> QED BY <1>1, <2>1, <2>2
<1>7. UNCHANGED Removing
  <2>1. \A d \in Codes : Deleting(d)' <=> Deleting(d)
    BY <1>2 DEF Deleting, At
  <2>2. \A d \in Codes : DelAfter(d, 0)' <=> DelAfter(d, 0)
    BY <1>2 DEF DelAfter
  <2>3. \A d \in Codes : ~DelInWork(d) /\ ~DelInWork(d)'
    BY <1>2 DEF DelInWork
  <2> QED BY <2>1, <2>2, <2>3, RemovingKept DEF DelComing
<1>8. new.ttl > 0
  BY <1>1
<1> HIDE DEF c, new
<1>9. Served!Fill(c, cache'[c])
  BY <1>2, <1>3, <1>4, <1>5, <1>6, <1>7, <1>8 DEF Served!Fill, Served!Current
<1> QED BY <1>1, <1>9 DEF Served!Next, c

(* A Del leaves the entry of its code empty, or the code goes astray.      *)
LEMMA DelDrops ==
  ASSUME Formed, ProcessOp, worker.op.op = "del"
  PROVE  Served!Next
<1>0. PICK c \in Codes : c = worker.op.code
  BY WorkFacts
<1>1. UNCHANGED <<links, queue, handlers, stored>> /\ worker'.op.op = "none"
  BY DEF ProcessOp, NoOp
<1>2. /\ \A d \in Codes : Deleting(d)' <=> Deleting(d)
      /\ \A d \in Codes : DelAfter(d, 0)' <=> DelAfter(d, 0)
  BY <1>1 DEF Deleting, At, DelAfter
<1>3. \A d \in Codes : ~DelInWork(d)' /\ (DelInWork(d) <=> d = c)
  BY <1>0, <1>1 DEF DelInWork
<1>4. /\ \A d \in Codes \ {c} : DelComing(d)' <=> DelComing(d)
      /\ DelComing(c)' => DelComing(c)
  BY <1>2, <1>3 DEF DelComing
<1>5. CASE cache' = [cache EXCEPT ![c] = NotCached] /\ UNCHANGED raced
  <2>1. Removing' \in {Removing, Removing \ {c}} /\ c \in Removing
    BY <1>3, <1>4, RemovingAllBut DEF Removing
  <2>2. Served!Drop(c)
    BY <1>1, <1>5, <2>1 DEF Served!Drop
  <2> QED BY <2>2 DEF Served!Next
<1>6. CASE UNCHANGED cache /\ raced' = raced \cup {c}
  BY <1>1, <1>4, <1>6, GoesAstray
<1>7. \/ cache' = [cache EXCEPT ![c] = NotCached] /\ UNCHANGED raced
      \/ UNCHANGED cache /\ raced' = raced \cup {c}
  BY <1>0 DEF ProcessOp, Executed
<1> QED BY <1>5, <1>6, <1>7

LEMMA WorkerServes ==
  ASSUME InvCache, Traced, ProcessOp
  PROVE  [Served!Next]_(Served!vars)
<1>0. Formed /\ worker.op.op \in {"set", "del"}
  BY WorkFacts DEF InvCache, ProcessOp, Ops
<1>1. CASE worker.op.op = "del"
  BY <1>0, <1>1, DelDrops
<1>2. CASE worker.op.op = "set"
  <2>1. \/ cache' = [cache EXCEPT ![worker.op.code] = Executed(worker.op, @)] /\ UNCHANGED raced
        \/ UNCHANGED <<cache, raced>>
    BY <1>2 DEF ProcessOp
  <2>2. CASE UNCHANGED <<cache, raced>>
    <3>1. UNCHANGED <<links, queue, handlers, stored>> /\ worker'.op.op = "none"
      BY DEF ProcessOp, NoOp
    <3>2. \A d \in Codes : DelComing(d)' <=> DelComing(d)
      BY <1>2, <3>1 DEF DelComing, Deleting, At, DelAfter, DelInWork
    <3> QED BY <2>2, <3>1, <3>2, Unseen
  <2> QED BY <1>2, <2>1, <2>2, SetFills
<1> QED BY <1>0, <1>1, <1>2

(* The process ends with nothing to do, or loses the removals it knows.    *)
LEMMA ProcessRestarts ==
  ASSUME Formed, ProcessEnds \/ Crash
  PROVE  [Served!Next]_(Served!vars)
<1>1. UNCHANGED <<links, cache, stored>> /\ \A c \in Codes : ~DelComing(c)'
  BY DEF ProcessEnds, Crash, StartAgain, Receiving, NoOp, Free, DelComing, Deleting, At, DelAfter, DelInWork
<1>2. CASE ProcessEnds
  <2>1. queue = <<>> /\ worker.op.op = "none" /\ \A h \in Handlers : handlers[h].pc = "free"
    BY <1>2, WorkFacts DEF ProcessEnds, Formed, WorkerOK, At
  <2>2. \A c \in Codes : ~DelComing(c)
    BY <2>1 DEF DelComing, Deleting, At, DelAfter, DelInWork
  <2> QED BY <1>1, <1>2, <2>2, Unseen DEF ProcessEnds
<1>3. CASE Crash
  <2>1. Removing' = {}
    BY <1>1 DEF Removing, DelComing
  <2>2. raced' = raced \cup Removing
    BY <1>3 DEF Crash, Removing
  <2>3. Served!LoseRemovals
    BY <1>1, <2>1, <2>2 DEF Served!LoseRemovals
  <2> QED BY <2>3 DEF Served!Next
<1> QED BY <1>2, <1>3

LEMMA EntriesLost ==
  ASSUME RedisCrash
  PROVE  Served!Next
<1>1. UNCHANGED <<links, stored, raced, Removing>> /\ cache' = [c \in Codes |-> NotCached]
  BY DEF RedisCrash, Removing, Deleting, At, DelAfter, DelInWork
<1>2. Served!LoseEntries
  BY <1>1 DEF Served!LoseEntries
<1> QED BY <1>2 DEF Served!Next

(* Of a link that is purged nothing is served any more.                    *)
LEMMA PurgedUnserved ==
  ASSUME InvCache, NEW c \in Codes, Purge(c)
  PROVE  Served!Next
<1>1. /\ links[c].exp = -Retention /\ links' = [links EXCEPT ![c] = NoLink]
      /\ UNCHANGED <<cache, stored, raced, queue, worker, handlers>>
  BY DEF Purge
<1>2. cache[c].id = None \/ cache[c].id # links[c].id
  <2> SUFFICES ASSUME cache[c].id # None, cache[c].id = links[c].id PROVE FALSE
    OBVIOUS
  <2>1. cache[c].ttl \in Nat /\ cache[c].ttl > 0
    BY DEF InvCache, Formed, CacheOK
  <2>2. cache[c].ttl <= links[c].exp + MaxWait
    BY <1>1 DEF InvCache, Timely, Due
  <2> QED BY <1>1, <2>1, <2>2
<1>3. UNCHANGED Removing
  BY <1>1 DEF Removing, Deleting, At, DelAfter, DelInWork
<1>4. Served!Purge(c)
  BY <1>1, <1>2, <1>3 DEF Served!Purge, Served!Serves, Served!Current
<1> QED BY <1>4 DEF Served!Next

(* Time passes for links and entries, and no Del ages.                     *)
LEMMA TimeServed ==
  ASSUME Formed, Tick
  PROVE  Served!Next
<1>1. UNCHANGED <<stored, raced>>
  BY DEF Tick
<1>2. links' = [c \in Codes |-> [links[c] EXCEPT !.exp = Served!Elapsed(@)]]
  <2>1. \A c \in Codes : links[c].exp \in Expirations
    BY DEF Formed, TablesOK
  <2>2. \A exp \in Expirations : Sooner(exp) = Served!Elapsed(exp)
    BY DEF Expirations, Sooner, Max2, Served!Elapsed
  <2>3. \A c \in Codes : Sooner(links[c].exp) = Served!Elapsed(links[c].exp)
    BY <2>1, <2>2
  <2>4. \A c \in Codes : [links[c] EXCEPT !.exp = Sooner(@)] = [links[c] EXCEPT !.exp = Served!Elapsed(@)]
    BY <2>3
  <2> QED BY <2>4 DEF Tick
<1>3. cache' = [c \in Codes |-> IF cache[c].ttl <= 1 THEN NotCached ELSE [cache[c] EXCEPT !.ttl = @ - 1]]
  <2>1. \A c \in Codes : cache[c].ttl \in Nat
    BY DEF Formed, CacheOK
  <2>2. \A c \in Codes : Remaining(cache[c]) = IF cache[c].ttl <= 1 THEN NotCached ELSE [cache[c] EXCEPT !.ttl = @ - 1]
    BY <2>1 DEF Remaining, NoExpiry
  <2> QED BY <2>2 DEF Tick
<1>4. UNCHANGED Removing
  <2>1. \A h \in Handlers : handlers'[h].pc = handlers[h].pc /\ handlers'[h].code = handlers[h].code
    BY RequestFacts DEF Tick, Requests
  <2>2. /\ DOMAIN queue' = DOMAIN queue
        /\ \A n \in DOMAIN queue : queue'[n].op = queue[n].op /\ queue'[n].code = queue[n].code
    <3>1. DOMAIN queue' = DOMAIN queue /\ \A n \in DOMAIN queue : queue'[n] = Older(queue[n])
      BY DEF Tick
    <3> QED BY <3>1, OlderOp, QueueFacts
  <2>3. worker'.op.op = worker.op.op /\ worker'.op.code = worker.op.code
    <3>1. worker'.op = Older(worker.op)
      BY DEF Tick, Formed, WorkerOK
    <3> QED BY <3>1, OlderOp, WorkFacts
  <2>4. \A c \in Codes : /\ Deleting(c)' <=> Deleting(c)
                         /\ DelAfter(c, 0)' <=> DelAfter(c, 0)
                         /\ DelInWork(c)' <=> DelInWork(c)
    BY <2>1, <2>2, <2>3 DEF Deleting, At, DelAfter, DelInWork
  <2> QED BY <2>4, RemovingKept DEF DelComing
<1>5. Served!Tick
  BY <1>1, <1>2, <1>3, <1>4 DEF Served!Tick
<1> QED BY <1>5 DEF Served!Next

(* Requests, queue and worker implement the cache of ServedLinks: an entry *)
(* is filled only with a link its code has, or that a Del will follow, for *)
(* no longer than that link has left and may wait; a Del that came left it *)
(* empty; and only what went astray is excused.                            *)
THEOREM CoreImplementsServedLinks == Spec => ImplementsServedLinks
<1>1. Init => Served!Init
  BY DEF Init, Served!Init, Removing, Deleting, At, DelAfter, DelInWork, Receiving, NoOp, Free
<1>2. ASSUME InvCache, Traced, [Next]_vars
      PROVE  [Served!Next]_(Served!vars)
  <2>0. Formed
    BY <1>2 DEF InvCache
  <2>1. ASSUME NEW h \in Handlers, Handle(h) \/ Cancel(h) PROVE [Served!Next]_(Served!vars)
    BY <1>2, <2>0, <2>1, ReadersUnseen, InsertionStores, SetSentUnseen, DeletionRemoves, DelSentUnseen DEF Handle
  <2>2. CASE Work \/ CloseQueue \/ Shutdown \/ UNCHANGED vars
    BY <1>2, <2>0, <2>2, WorkerUnseen, WorkerServes DEF Work
  <2>3. CASE ProcessEnds \/ Crash \/ RedisCrash \/ Tick \/ \E c \in Codes : Purge(c)
    BY <1>2, <2>0, <2>3, ProcessRestarts, EntriesLost, TimeServed, PurgedUnserved
  <2> QED BY <1>2, <2>1, <2>2, <2>3 DEF Next
<1>3. Spec => []Traced
  BY InvCacheHolds, InitTraced, TracedStep, PTL DEF Spec
<1>4. Spec => Served!Spec
  BY <1>1, <1>2, <1>3, InvCacheHolds, PTL DEF Spec, Served!Spec
<1> QED BY <1>4 DEF ImplementsServedLinks

=============================================================================
