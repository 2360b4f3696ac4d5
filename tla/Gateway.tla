------------------------------ MODULE Gateway ------------------------------
(***************************************************************************)
(* The gateway: its start, its HTTP handlers with the calls they make, its *)
(* click tasks and its shutdown, on top of CoreClient (SingleFlight) and   *)
(* of the retries at its start (Retry).                                    *)
(*                                                                         *)
(* Core is a table and three calls that act on it in one step; its awaits  *)
(* and its cache are in LinkCache.  What a redirect finds in the cache is  *)
(* any link the code ever had, which is what LinkCache promises.           *)
(***************************************************************************)
EXTENDS Retry, FiniteSets

CONSTANTS
    Requests,       \* HTTP requests; a create is also the name of its link
    Codes,          \* a code is also the name of the link it had at first
    Linked,         \* bound: the codes that have links; redirects ask for any
    Flights,
    NoLink, NoFlight, NoCode,
    MaxInFlight,
    MaxEnds         \* bound: ends of the process once it has served

ASSUME GatewayAssumption ==
    /\ Linked \subseteq Codes
    /\ NoLink \notin Requests \cup Codes /\ Requests \cap Codes = {}
    /\ NoFlight \notin Flights /\ NoCode \notin Codes
    /\ MaxInFlight \in Nat \ {0} /\ MaxEnds \in Nat

VARIABLES
    process,        \* "connecting", "serving" or "draining"
    ends,
    rows,           \* the table links: the link of each code
    stored, expired, removed,   \* links ever inserted, past their time, deleted
    requests,       \* the handler of each request
    calls,          \* the call to core or analytics of each handler
    clicks,         \* the click task each handler spawned
    found,          \* what core's get_link answered each task
    inFlight, flights, waits, permits   \* of CoreClient

client == <<inFlight, flights, waits, permits>>
table == <<rows, stored, expired, removed>>
gateVars == <<process, ends, loops, table, requests, calls, clicks, found, client>>

(* Nothing in the gateway aborts a task, or closes the semaphore, before   *)
(* the process ends: Stop and Unavailable of SingleFlight do not occur.    *)
Client == INSTANCE SingleFlight WITH Callers <- Requests, MaxFaults <- 0, faults <- 0

Links == Requests \cup Codes
CodeOf(l) == IF l \in Codes THEN l ELSE requests[l].code

Pending == [res |-> "pending", link |-> NoLink]
Error == [res |-> "error", link |-> NoLink]

(* past is history: the links that were over or deleted when a redirect    *)
(* asked CoreClient.                                                       *)
Handler(pc, kind, c, status, past) ==
    [pc |-> pc, kind |-> kind, code |-> c, status |-> status, link |-> NoLink, past |-> past]

GateInit ==
    /\ RetryInit /\ Client!Init
    /\ process = "connecting" /\ ends = 0
    /\ rows \in {f \in [Codes -> Linked \cup {NoLink}] : \A c \in Codes : f[c] \in {c, NoLink}}
    /\ stored = {c \in Codes : rows[c] = c} /\ expired = {} /\ removed = {}
    /\ requests = [r \in Requests |-> Handler("new", "none", NoCode, "none", {})]
    /\ calls = [r \in Requests |-> "none"] /\ clicks = [r \in Requests |-> "none"]
    /\ found = [f \in Flights |-> Pending]

-----------------------------------------------------------------------------
(* Start: try_join of the three connection loops; expect() ends a process  *)
(* that could not connect, and it is started again.                        *)
Connect ==
    /\ process = "connecting"
    /\ \A l \in Loops : loops[l].pc # "failed"
    /\ RetryNext
    /\ UNCHANGED <<process, ends, table, requests, calls, clicks, found, client>>

NoConnection ==
    /\ process = "connecting"
    /\ \E l \in Loops : loops[l].pc = "failed"
    /\ RetryAgain
    /\ UNCHANGED <<process, ends, table, requests, calls, clicks, found, client>>

Serve ==
    /\ process = "connecting"
    /\ \A l \in Loops : loops[l].pc = "ok"
    /\ process' = "serving"
    /\ UNCHANGED <<ends, loops, table, requests, calls, clicks, found, client>>

-----------------------------------------------------------------------------
(* The handlers.  Open is where one can be between two awaits.  Before that *)
(* its request is being read, and the client says for how long: neither    *)
(* serve nor the Json extractors of create and delete have a timeout.      *)
Running == process \in {"serving", "draining"}
Open == {"looking", "waiting", "calling"}
Connected == Open \cup {"reading"}
Frame == UNCHANGED <<process, ends, loops>>

Handle(r, h) == requests' = [requests EXCEPT ![r] = h]

(* The response, with the link it speaks of; a handler that is dropped, or *)
(* panics, leaves its request "closed".                                    *)
Respond(r, status, l) ==
    Handle(r, [pc |-> "done", kind |-> requests[r].kind, code |-> requests[r].code,
               status |-> status, link |-> l, past |-> {}])

Accept(r) ==
    /\ process = "serving" /\ requests[r].pc = "new"
    /\ Handle(r, Handler("reading", "none", NoCode, "none", {}))
    /\ Frame /\ UNCHANGED <<table, calls, clicks, found, client>>

Arrive(r, pc, kind, c, status, call) ==
    /\ Running /\ requests[r].pc = "reading"
    /\ Handle(r, Handler(pc, kind, c, status, {}))
    /\ calls' = [calls EXCEPT ![r] = call]
    /\ Frame /\ UNCHANGED <<table, clicks, found, client>>

RedirectReq(r, c) == Arrive(r, "looking", "redirect", c, "none", "none")
CreateReq(r, c) == Arrive(r, "calling", "create", c, "none", "sent")
DeleteReq(r, c) == Arrive(r, "calling", "delete", c, "none", "sent")
StatsReq(r, c) == Arrive(r, "calling", "stats", c, "none", "sent")

(* CreateLinkRequest::try_from: an expiration in the past, or no URL.      *)
BadRequest(r, c) == Arrive(r, "done", "create", c, "400", "none")

(* send_click_event spawns its task in the step that answers.              *)
SendClick_Never(r) == UNCHANGED clicks
SendClick(r) == clicks' = [clicks EXCEPT ![r] = "pending"]

(* redis_query: a hit, or None for a miss and for any error.               *)
Cached(c) == {l \in stored : CodeOf(l) = c}

Hit(r) ==
    /\ Running /\ requests[r].pc = "looking"
    /\ \E l \in Cached(requests[r].code) : Respond(r, "308", l)
    /\ SendClick(r)
    /\ Frame /\ UNCHANGED <<table, calls, found, client>>

(* The tasks whose answer a request that asks for c now may share.         *)
Live(c) == {f \in Flights : flights[f].code = c /\ flights[f].pc \in {"queued", "calling", "answered"}}

Miss(r) ==
    LET c == requests[r].code IN
    /\ Running /\ requests[r].pc = "looking"
    /\ Client!Join(r, c) \/ Client!Start(r, c)
    /\ found' = [f \in Flights |-> IF flights'[f].pc = "queued" THEN Pending ELSE found[f]]
    /\ Handle(r, Handler("waiting", "redirect", c, "none", IF Live(c) = {} THEN expired \cup removed ELSE {}))
    /\ Frame /\ UNCHANGED <<table, calls, clicks, permits>>

(* What the match in redirect makes of the answer.                         *)
GetAnswer(r) ==
    LET a == found[waits[r]] IN
    /\ Running /\ requests[r].pc = "waiting"
    /\ Client!Answered(r)
    /\ \/ a.res = "found" /\ Respond(r, "308", a.link) /\ SendClick(r)
       \/ a.res = "missing" /\ Respond(r, "404", NoLink) /\ UNCHANGED clicks
       \/ a.res = "expired" /\ Respond(r, "410", NoLink) /\ UNCHANGED clicks
       \/ a.res = "error" /\ Respond(r, "500", NoLink) /\ UNCHANGED clicks
    /\ Frame /\ UNCHANGED <<table, calls, found>>

(* What each handler makes of the answer to its call; any other error is   *)
(* 500.  todo!() panics, and the connection closes without a response.     *)
CreateStatus(reply) ==
    CASE reply = "ok" -> "200"
      [] reply = "exists" -> "409"
      [] reply = "invalid" -> "closed"
      [] OTHER -> "500"
DeleteStatus(reply) == IF reply = "ok" THEN "200" ELSE IF reply = "missing" THEN "404" ELSE "500"
StatsStatus(reply) == IF reply = "ok" THEN "200" ELSE IF reply = "missing" THEN "404" ELSE "500"

Status(kind, reply) ==
    CASE kind = "create" -> CreateStatus(reply)
      [] kind = "delete" -> DeleteStatus(reply)
      [] OTHER -> StatsStatus(reply)

Return(r) ==
    /\ Running /\ requests[r].pc = "calling" /\ calls[r] # "sent"
    /\ Respond(r, Status(requests[r].kind, calls[r]), requests[r].link)
    /\ calls' = [calls EXCEPT ![r] = "over"]
    /\ Frame /\ UNCHANGED <<table, clicks, found, client>>

(* call_with_timeout.  Calls to analytics have none.  The call itself may  *)
(* have arrived, and goes on.                                              *)
Timeout_NotCreate(r) ==
    /\ Running /\ requests[r].pc = "calling" /\ requests[r].kind = "delete"
    /\ Respond(r, "500", requests[r].link)
    /\ calls' = [calls EXCEPT ![r] = IF calls[r] = "sent" THEN "sent" ELSE "over"]
    /\ Frame /\ UNCHANGED <<table, clicks, found, client>>
Timeout(r) ==
    /\ Running /\ requests[r].pc = "calling" /\ requests[r].kind # "stats"
    /\ Respond(r, "500", requests[r].link)
    /\ calls' = [calls EXCEPT ![r] = IF calls[r] = "sent" THEN "sent" ELSE "over"]
    /\ Frame /\ UNCHANGED <<table, clicks, found, client>>

(* The client goes away, and axum drops the handler where it waits.        *)
Disconnect(r) ==
    /\ Running /\ requests[r].pc \in Connected
    /\ Respond(r, "closed", requests[r].link)
    /\ \/ requests[r].pc = "waiting" /\ Client!Cancel(r)
       \/ requests[r].pc # "waiting" /\ UNCHANGED client
    /\ calls' = [calls EXCEPT ![r] = IF calls[r] \in {"none", "sent"} THEN calls[r] ELSE "over"]
    /\ Frame /\ UNCHANGED <<table, clicks, found>>

-----------------------------------------------------------------------------
(* Core and the table.  A call that was sent is executed at some time, or  *)
(* fails: then, if the error came after the commit, not without effect.    *)
Reply(r, reply) ==
    calls' = [calls EXCEPT ![r] = IF requests[r].pc = "calling" THEN reply ELSE "over"]

(* short_code is unique: the second insert of a code is a conflict.        *)
Conflict(c) == rows[c] # NoLink

Insert_Upsert(r) ==
    LET c == requests[r].code IN
    /\ rows' = [rows EXCEPT ![c] = r] /\ stored' = stored \cup {r}
    /\ UNCHANGED <<expired, removed>>
Insert(r) ==
    LET c == requests[r].code IN
    /\ ~Conflict(c)
    /\ rows' = [rows EXCEPT ![c] = r] /\ stored' = stored \cup {r}
    /\ UNCHANGED <<expired, removed>>

CoreCreate(r) ==
    /\ calls[r] = "sent" /\ requests[r].kind = "create"
    /\ \/ r \in expired /\ Reply(r, "invalid") /\ UNCHANGED table
       \/ r \notin expired /\ Insert(r) /\ (Reply(r, "ok") \/ Reply(r, "error"))
       \/ r \notin expired /\ Conflict(requests[r].code) /\ Reply(r, "exists") /\ UNCHANGED table
       \/ Reply(r, "error") /\ UNCHANGED table
    /\ UNCHANGED <<process, ends, loops, requests, clicks, found, client>>

Remove(c) ==
    /\ rows' = [rows EXCEPT ![c] = NoLink] /\ removed' = removed \cup {rows[c]}
    /\ UNCHANGED <<stored, expired>>

(* rows_affected tells a delete that found nothing from one that did.      *)
Missing_Ok == "ok"
Missing == "missing"

CoreDelete(r) ==
    LET c == requests[r].code
        h == requests[r]
    IN
    /\ calls[r] = "sent" /\ h.kind = "delete"
    /\ \/ /\ rows[c] # NoLink /\ Remove(c)
          /\ Handle(r, [pc |-> h.pc, kind |-> h.kind, code |-> c, status |-> h.status,
                        link |-> rows[c], past |-> h.past])
          /\ (Reply(r, "ok") \/ Reply(r, "error"))
       \/ rows[c] = NoLink /\ Reply(r, Missing) /\ UNCHANGED <<table, requests>>
       \/ Reply(r, "error") /\ UNCHANGED <<table, requests>>
    /\ UNCHANGED <<process, ends, loops, clicks, found, client>>

(* get_link_stats or get_global_stats of analytics; AnalyticsApi has what  *)
(* they answer.                                                            *)
Statistics(r) ==
    /\ calls[r] = "sent" /\ requests[r].kind = "stats"
    /\ \E reply \in {"ok", "missing", "error"} : Reply(r, reply)
    /\ UNCHANGED <<process, ends, loops, table, requests, clicks, found, client>>

Expire(l) ==
    /\ l \notin expired
    /\ l \in stored \cup {r \in Requests : requests[r].kind = "create" /\ calls[r] = "sent"}
    /\ expired' = expired \cup {l}
    /\ UNCHANGED <<process, ends, loops, rows, stored, removed, requests, calls, clicks, found, client>>

(* The job delete-expired-links.                                           *)
Purge(c) ==
    /\ rows[c] \in expired /\ Remove(c)
    /\ UNCHANGED <<process, ends, loops, requests, calls, clicks, found, client>>

-----------------------------------------------------------------------------
(* The tasks of CoreClient.                                                *)
Lookup(c) ==
    CASE rows[c] = NoLink -> [res |-> "missing", link |-> NoLink]
      [] rows[c] \in expired -> [res |-> "expired", link |-> NoLink]
      [] OTHER -> [res |-> "found", link |-> rows[c]]

CoreGet(f) ==
    /\ flights[f].pc = "calling" /\ found[f].res = "pending"
    /\ \E a \in {Lookup(flights[f].code), Error} : found' = [found EXCEPT ![f] = a]
    /\ UNCHANGED <<process, ends, loops, table, requests, calls, clicks, client>>

Acquire(f) == Running /\ Client!Acquire(f) /\ Frame /\ UNCHANGED <<table, requests, calls, clicks, found>>
Unlist(f) == Running /\ Client!Remove(f) /\ Frame /\ UNCHANGED <<table, requests, calls, clicks, found>>

(* The call returns, or its timeout has run out.                           *)
Answer_NoTimeout(f) ==
    /\ Running /\ Client!Answer(f)
    /\ found[f].res # "pending"
    /\ Frame /\ UNCHANGED <<table, requests, calls, clicks, found>>
Answer(f) ==
    /\ Running /\ Client!Answer(f)
    /\ \/ found[f].res # "pending" /\ UNCHANGED found
       \/ found' = [found EXCEPT ![f] = Error]
    /\ Frame /\ UNCHANGED <<table, requests, calls, clicks>>

(* The XADD of a click task.                                               *)
Append(r) ==
    /\ Running /\ clicks[r] = "pending"
    /\ \E outcome \in {"sent", "lost"} : clicks' = [clicks EXCEPT ![r] = outcome]
    /\ Frame /\ UNCHANGED <<table, requests, calls, found, client>>

-----------------------------------------------------------------------------
(* The end of the process: handlers and tasks are dropped where they are,  *)
(* an XADD may have gone out; calls in core go on.                         *)
ProcessEnds ==
    /\ process' = "connecting" /\ ends' = ends + 1
    /\ RetryAgain
    /\ requests' = [r \in Requests |->
        IF requests[r].pc \in Connected
        THEN [pc |-> "done", kind |-> requests[r].kind, code |-> requests[r].code,
              status |-> "closed", link |-> requests[r].link, past |-> {}]
        ELSE requests[r]]
    /\ calls' = [r \in Requests |-> IF calls[r] \in {"none", "sent"} THEN calls[r] ELSE "over"]
    /\ clicks' \in {f \in [Requests -> {"none", "sent", "lost"}] :
                    \A r \in Requests : IF clicks[r] = "pending" THEN f[r] # "none" ELSE f[r] = clicks[r]}
    /\ found' = [f \in Flights |-> Pending]
    /\ inFlight' = [c \in Codes |-> NoFlight]
    /\ flights' = [f \in Flights |-> Client!Unused]
    /\ waits' = [r \in Requests |-> NoFlight]
    /\ permits' = MaxInFlight
    /\ UNCHANGED table

Crash == Running /\ ends < MaxEnds /\ ProcessEnds

(* with_graceful_shutdown: no new connections.                             *)
Terminate ==
    /\ process = "serving" /\ ends < MaxEnds
    /\ process' = "draining"
    /\ UNCHANGED <<ends, loops, table, requests, calls, clicks, found, client>>

(* serve returns with the last connection, wait() with the last tracked    *)
(* task.  Click tasks are not tracked.                                     *)
Exit ==
    /\ process = "draining"
    /\ \A r \in Requests : requests[r].pc \notin Connected
    /\ \A f \in Flights : flights[f].pc = "ended"
    /\ ProcessEnds

-----------------------------------------------------------------------------
Handlers(r) ==
    \/ Accept(r)
    \/ \E c \in Codes : RedirectReq(r, c)
    \/ \E c \in Linked : CreateReq(r, c) \/ DeleteReq(r, c) \/ StatsReq(r, c) \/ BadRequest(r, c)
    \/ Hit(r) \/ Miss(r) \/ GetAnswer(r)
    \/ Return(r) \/ Timeout(r) \/ Disconnect(r) \/ Append(r)

Backends ==
    \/ \E r \in Requests : CoreCreate(r) \/ CoreDelete(r) \/ Statistics(r)
    \/ \E f \in Flights : CoreGet(f)
    \/ \E l \in Links : Expire(l)
    \/ \E c \in Codes : Purge(c)

Tasks(f) == Acquire(f) \/ Answer(f) \/ Unlist(f)

GateNext ==
    \/ Connect \/ NoConnection \/ Serve \/ Crash \/ Terminate \/ Exit
    \/ \E r \in Requests : Handlers(r)
    \/ \E f \in Flights : Tasks(f)
    \/ Backends

GateSpec == GateInit /\ [][GateNext]_gateVars

(* Handlers and tasks are polled; Redis answers or fails; the semaphore    *)
(* serves its queue in order; a call to core returns, or its timeout does. *)
(* Nothing is assumed of core, of analytics or of the clients, which need  *)
(* not send what they began.                                               *)
GateFairness ==
    /\ WF_gateVars(Exit)
    /\ \A r \in Requests :
        /\ WF_gateVars(Hit(r) \/ Miss(r)) /\ WF_gateVars(GetAnswer(r))
        /\ WF_gateVars(Return(r) \/ Timeout(r))
    /\ \A f \in Flights : SF_gateVars(Acquire(f)) /\ WF_gateVars(Answer(f)) /\ WF_gateVars(Unlist(f))

GateFairSpec == GateSpec /\ GateFairness

-----------------------------------------------------------------------------
GateTypeOK ==
    /\ RetryTypeOK /\ Client!TypeOK
    /\ process \in {"connecting", "serving", "draining"} /\ ends \in 0 .. MaxEnds
    /\ rows \in [Codes -> Links \cup {NoLink}]
    /\ stored \subseteq Links /\ expired \subseteq Links /\ removed \subseteq Links
    /\ requests \in [Requests -> [pc : {"new", "done"} \cup Connected,
                                  kind : {"none", "redirect", "create", "delete", "stats"},
                                  code : Codes \cup {NoCode},
                                  status : {"none", "200", "308", "400", "404", "409", "410", "500", "closed"},
                                  link : Links \cup {NoLink}, past : SUBSET Links]]
    /\ calls \in [Requests -> {"none", "sent", "ok", "exists", "missing", "invalid", "error", "over"}]
    /\ clicks \in [Requests -> {"none", "pending", "sent", "lost"}]
    /\ found \in [Flights -> [res : {"pending", "found", "missing", "expired", "error"}, link : Links \cup {NoLink}]]

(* What a client was told of its create stays true: a confirmed link is in *)
(* the table until somebody deletes it, whatever timeouts, crashes and     *)
(* rival creates of its code do; a refused one (400, 409) is never stored, *)
(* not even by a call that core executes late.                             *)
CreateAnswersHold ==
    \A r \in Requests : requests[r].kind = "create" =>
        /\ requests[r].status = "200" => r \in stored /\ (rows[requests[r].code] = r \/ r \in removed)
        /\ requests[r].status \in {"400", "409"} => r \notin stored

(* Each link is deleted once: a 200 to a delete speaks of a link it took   *)
(* out of the table itself, two deletes never of the same one, and a 404   *)
(* of none.                                                                *)
DeletedOnce ==
    \A r, s \in Requests : requests[r].kind = "delete" /\ requests[s].kind = "delete" =>
        /\ requests[r].status = "200" => requests[r].link \in removed
        /\ requests[r].status = "404" => requests[r].link = NoLink
        /\ requests[r].link = requests[s].link /\ requests[r].link # NoLink => r = s

(* Every redirect that was answered with a link, from the cache or by core, *)
(* has its click, and no other request has one.                            *)
ClickPerRedirect == \A r \in Requests : clicks[r] # "none" <=> requests[r].status = "308"

(* Sharing calls brings no answer from the past: a redirect that found no  *)
(* task of its code under way is never sent to a link that had expired or  *)
(* was deleted by then, however long its task waits for a permit and       *)
(* whoever else joins it.                                                  *)
NoAnswerFromThePast ==
    [][\A r \in Requests :
        requests[r].pc = "waiting" /\ requests'[r].status = "308"
        => requests'[r].link \notin requests[r].past]_gateVars

(* A redirect, create or delete that was read ends, even if core never     *)
(* answers.                                                                *)
RequestsEnd ==
    \A r \in Requests :
        requests[r].pc \in Open /\ requests[r].kind # "stats" ~> requests[r].pc = "done"

(* A shutdown ends, even if core never answers and however long the tasks  *)
(* queue for permits, with two exceptions, which can hold it up for ever:  *)
(* analytics leaves a statistics request without an answer, or a client    *)
(* does not finish its request.                                            *)
HoldsUp(r) == requests[r].pc = "reading" \/ (requests[r].pc \in Open /\ requests[r].kind = "stats")
ShutdownEnds ==
    (process = "draining" /\ \A r \in Requests : ~HoldsUp(r)) ~> process # "draining"

=============================================================================
