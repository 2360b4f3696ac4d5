--------------------------- MODULE GatewayProofs ---------------------------
(***************************************************************************)
(* What the gateway tells its clients, for any number of requests, codes,  *)
(* tasks, permits and ends of the process: the answers to creates and      *)
(* deletes agree with the table, a redirect has its click, and shared      *)
(* calls bring no answer from the past.                                    *)
(***************************************************************************)
EXTENDS Gateway, RetryProofs, FiniteSetTheorems

Replies == {"ok", "exists", "missing", "invalid", "error"}
HandlerType == [pc : {"new", "done"} \cup Connected,
                kind : {"none", "redirect", "create", "delete", "stats"},
                code : Codes \cup {NoCode},
                status : {"none", "200", "308", "400", "404", "409", "410", "500", "closed"},
                link : Links \cup {NoLink}, past : SUBSET Links]
AnswerType == [res : {"pending", "found", "missing", "expired", "error"}, link : Links \cup {NoLink}]
FlightType == [pc : {"queued", "calling", "answered", "ended", "stopped"},
               code : Codes \cup {NoCode}, sent : BOOLEAN]

(* The table: nothing is in two rows, or in a row after it was removed.    *)
TableInv ==
    /\ rows \in [Codes -> Links \cup {NoLink}]
    /\ stored \subseteq Links /\ expired \subseteq Links /\ removed \subseteq stored
    /\ \A c \in Codes : rows[c] # NoLink =>
        /\ rows[c] \in stored \ removed
        /\ \A d \in Codes : rows[d] = rows[c] => d = c

(* Where a handler of each kind can be, with its call and its click.       *)
Path(h, call, click) ==
    /\ h.pc \in {"new", "reading"} => h.kind = "none"
    /\ h.pc \in {"looking", "waiting"} => h.kind = "redirect"
    /\ h.pc = "calling" => h.kind \in {"create", "delete", "stats"} /\ call \in Replies \cup {"sent"}
    /\ h.kind # "none" => h.code \in Codes
    /\ h.pc # "done" => h.status = "none"
    /\ call \in Replies => h.pc = "calling"
    /\ h.kind \in {"none", "redirect"} => call = "none" /\ h.status \notin {"200", "400", "409"}
    /\ call = "sent" => h.kind \in {"create", "delete", "stats"} /\ h.status \in {"none", "500", "closed"}
    /\ click # "none" <=> h.status = "308"

(* What the reply, or the response, says of the table.                     *)
Told(r, h, call) ==
    /\ h.pc \in {"new", "reading"} => r \notin stored
    /\ h.kind = "create" =>
        /\ call = "ok" \/ h.status = "200" => r \in stored /\ (rows[h.code] = r \/ r \in removed)
        /\ call \in {"sent", "exists", "invalid"} \/ h.status \in {"400", "409"} => r \notin stored
    /\ h.kind = "delete" =>
        /\ h.link # NoLink => h.link \in removed
        /\ call = "ok" \/ h.status = "200" => h.link # NoLink
        /\ call \in {"sent", "missing"} \/ h.status = "404" => h.link = NoLink

Fine(r, h, call, click) ==
    /\ h \in HandlerType /\ call \in {"none", "sent", "over"} \cup Replies
    /\ click \in {"none", "pending", "sent", "lost"}
    /\ Path(h, call, click) /\ Told(r, h, call)

Distinct ==
    \A r, s \in Requests :
        /\ requests[r].kind = "delete" /\ requests[s].kind = "delete"
        /\ requests[r].link = requests[s].link /\ requests[r].link # NoLink
        => r = s

Functions ==
    /\ requests = [r \in Requests |-> requests[r]] /\ calls = [r \in Requests |-> calls[r]]
    /\ clicks = [r \in Requests |-> clicks[r]]

Books ==
    /\ TableInv /\ Functions
    /\ \A r \in Requests : Fine(r, requests[r], calls[r], clicks[r])
    /\ Distinct

(* A task in the map is under way for its code, and no answer that waits   *)
(* for a redirect is from that redirect's past.                            *)
Shared ==
    /\ found \in [Flights -> AnswerType]
    /\ inFlight \in [Codes -> Flights \cup {NoFlight}]
    /\ flights \in [Flights -> FlightType]
    /\ waits \in [Requests -> Flights \cup {NoFlight}]
    /\ \A f \in Flights : flights[f].pc \in {"queued", "calling"} => flights[f].code \in Codes
    /\ \A c \in Codes : inFlight[c] # NoFlight => inFlight[c] \in Live(c)
    /\ \A r \in Requests :
        /\ requests[r].past \subseteq expired \cup removed
        /\ requests[r].pc = "waiting" =>
            /\ waits[r] \in Flights
            /\ found[waits[r]].res = "found" => found[waits[r]].link \notin requests[r].past

GateInv == Books /\ Shared

-----------------------------------------------------------------------------
LEMMA NoLinkIsNone == NoLink \notin Links /\ (\A r \in Requests : r \notin Codes) /\ NoFlight \notin Flights
BY GatewayAssumption DEF Links

LEMMA GateInvInit == GateInit => GateInv
<1> SUFFICES ASSUME GateInit PROVE GateInv
    OBVIOUS
<1> USE NoLinkIsNone
<1>1. TableInv
    BY DEF GateInit, TableInv, Links
<1>2. Functions /\ Distinct
    BY DEF GateInit, Functions, Distinct, Handler
<1>3. ASSUME NEW r \in Requests PROVE Fine(r, requests[r], calls[r], clicks[r])
    BY DEF GateInit, Fine, Path, Told, Handler, HandlerType, Replies, Links
<1>4. Shared
    <2>1. found \in [Flights -> AnswerType]
        BY DEF GateInit, Pending, AnswerType
    <2>2. /\ inFlight = [c \in Codes |-> NoFlight] /\ waits = [r \in Requests |-> NoFlight]
          /\ flights \in [Flights -> FlightType] /\ \A f \in Flights : flights[f].pc = "ended"
        BY DEF GateInit, Client!Init, Client!Unused, FlightType
    <2> QED BY <2>1, <2>2 DEF Shared, GateInit, Handler
<1> QED BY <1>1, <1>2, <1>3, <1>4 DEF GateInv, Books

-----------------------------------------------------------------------------
(* A step of one handler that leaves the table alone.                      *)
Becomes(r, h, call, click) ==
    /\ requests' = [requests EXCEPT ![r] = h]
    /\ calls' = [calls EXCEPT ![r] = call]
    /\ clicks' = [clicks EXCEPT ![r] = click]

Keeps(r, h) == h.kind = "delete" => h.link = NoLink \/ (requests[r].kind = "delete" /\ h.link = requests[r].link)

LEMMA HandlerStep ==
    ASSUME Books, UNCHANGED table, NEW r \in Requests, NEW h, NEW call, NEW click,
           Becomes(r, h, call, click), Fine(r, h, call, click), Keeps(r, h)
    PROVE  Books'
<1>1. TableInv'
    BY DEF Books, TableInv, table
<1>2. /\ \A s \in Requests : s # r => requests'[s] = requests[s] /\ calls'[s] = calls[s] /\ clicks'[s] = clicks[s]
      /\ requests'[r] = h /\ calls'[r] = call /\ clicks'[r] = click
      /\ Functions'
    BY DEF Books, Functions, Becomes
<1>3. ASSUME NEW s \in Requests
      PROVE  Fine(s, requests[s], calls[s], clicks[s])'
    BY <1>2 DEF Books, Fine, Told, table
<1>4. Distinct'
    BY <1>2 DEF Books, Distinct, Keeps
<1> QED BY <1>1, <1>2, <1>3, <1>4 DEF Books

(* What holds of a handler before its step.                                *)
LEMMA Before ==
    ASSUME Books, NEW r \in Requests
    PROVE  /\ requests[r] \in HandlerType /\ calls[r] \in {"none", "sent", "over"} \cup Replies
           /\ clicks[r] \in {"none", "pending", "sent", "lost"}
           /\ Path(requests[r], calls[r], clicks[r]) /\ Told(r, requests[r], calls[r])
           /\ clicks = [clicks EXCEPT ![r] = clicks[r]] /\ calls = [calls EXCEPT ![r] = calls[r]]
           /\ requests = [requests EXCEPT ![r] = requests[r]]
BY DEF Books, Fine, Functions

Arrivals(r) ==
    \/ Accept(r)
    \/ \E c \in Codes : RedirectReq(r, c) \/ CreateReq(r, c) \/ DeleteReq(r, c) \/ StatsReq(r, c) \/ BadRequest(r, c)

LEMMA ArrivalKeepsBooks ==
    ASSUME Books, NEW r \in Requests, Arrivals(r)
    PROVE  Books'
<1> USE NoLinkIsNone
<1>1. PICK c :
        \/ Accept(r)
        \/ /\ c \in Codes
           /\ RedirectReq(r, c) \/ CreateReq(r, c) \/ DeleteReq(r, c) \/ StatsReq(r, c) \/ BadRequest(r, c)
    BY DEF Arrivals
<1> DEFINE fresh(pc, kind, code, status) ==
        [pc |-> pc, kind |-> kind, code |-> code, status |-> status, link |-> NoLink, past |-> {}]
<1>2. /\ requests[r].pc \in {"new", "reading"} /\ requests[r] \in HandlerType
      /\ Path(requests[r], calls[r], clicks[r]) /\ Told(r, requests[r], calls[r])
    BY <1>1, Before DEF Accept, RedirectReq, CreateReq, DeleteReq, StatsReq, BadRequest, Arrive
<1>3. PICK pc, kind, code, status, call :
        /\ Becomes(r, fresh(pc, kind, code, status), call, clicks[r]) /\ UNCHANGED table
        /\ \/ pc = "reading" /\ kind = "none" /\ code = NoCode /\ status = "none" /\ call = calls[r]
           \/ pc = "looking" /\ kind = "redirect" /\ code \in Codes /\ status = "none" /\ call = "none"
           \/ /\ pc = "calling" /\ kind \in {"create", "delete", "stats"} /\ code \in Codes
              /\ status = "none" /\ call = "sent"
           \/ pc = "done" /\ kind = "create" /\ code \in Codes /\ status = "400" /\ call = "none"
    <2> USE Before DEF Becomes, Arrive, Handle, Handler
    <2>1. CASE c \in Codes /\ RedirectReq(r, c)
        BY <2>1 DEF RedirectReq
    <2>2. CASE c \in Codes /\ CreateReq(r, c)
        BY <2>2 DEF CreateReq
    <2>3. CASE c \in Codes /\ DeleteReq(r, c)
        BY <2>3 DEF DeleteReq
    <2>4. CASE c \in Codes /\ StatsReq(r, c)
        BY <2>4 DEF StatsReq
    <2>5. CASE c \in Codes /\ BadRequest(r, c)
        BY <2>5 DEF BadRequest
    <2>6. CASE Accept(r)
        BY <2>6 DEF Accept
    <2> QED BY <1>1, <2>1, <2>2, <2>3, <2>4, <2>5, <2>6
<1>4. Fine(r, fresh(pc, kind, code, status), call, clicks[r])
    <2>1. clicks[r] = "none" /\ calls[r] = "none"
        BY <1>2, Before DEF Path
    <2> QED BY <1>2, <1>3, <2>1 DEF Fine, Path, Told, HandlerType, Replies, Open, Connected
<1>5. Keeps(r, fresh(pc, kind, code, status))
    BY DEF Keeps
<1> HIDE DEF fresh
<1> QED BY <1>3, <1>4, <1>5, HandlerStep

(* A response of one handler, with its call and its click afterwards.      *)
LEMMA ResponseKeepsBooks ==
    ASSUME Books, UNCHANGED table, NEW r \in Requests, NEW status, NEW l \in Links \cup {NoLink}, NEW call,
           requests[r].pc \in Connected, requests[r].kind # "delete" \/ l = requests[r].link,
           Respond(r, status, l), calls' = [calls EXCEPT ![r] = call],
           \/ status = "308" /\ requests[r].kind = "redirect" /\ call = calls[r] /\ SendClick(r)
           \/ status \in {"404", "410", "500"} /\ requests[r].kind = "redirect" /\ call = calls[r] /\ UNCHANGED clicks
           \/ /\ status \in {"500", "closed"} /\ UNCHANGED clicks
              /\ call = IF calls[r] \in {"none", "sent"} THEN calls[r] ELSE "over"
           \/ /\ status = Status(requests[r].kind, calls[r]) /\ UNCHANGED clicks
              /\ requests[r].pc = "calling" /\ calls[r] # "sent" /\ call = "over"
    PROVE  Books'
<1> DEFINE h == [pc |-> "done", kind |-> requests[r].kind, code |-> requests[r].code,
                 status |-> status, link |-> l, past |-> {}]
           click == IF status = "308" THEN "pending" ELSE clicks[r]
<1> USE NoLinkIsNone, Before
<1>1. status = Status(requests[r].kind, calls[r]) => status \in {"200", "404", "409", "500", "closed"}
    BY DEF Status, CreateStatus, DeleteStatus, StatsStatus
<1>2. Becomes(r, h, call, click)
    BY <1>1 DEF Becomes, Respond, Handle, SendClick
<1>3. clicks[r] = "none" /\ requests[r].status = "none"
    BY DEF Path, Open, Connected
<1>4. h \in HandlerType /\ call \in {"none", "sent", "over"} \cup Replies
    BY <1>1 DEF HandlerType, Open, Connected, Replies
<1>5. Path(h, call, click)
    BY <1>1, <1>3 DEF Path, Open, Connected, Replies
<1>6. Told(r, h, call)
    <2>1. CASE status = Status(requests[r].kind, calls[r]) /\ requests[r].pc = "calling" /\ calls[r] # "sent" /\ call = "over"
        <3>1. calls[r] \in Replies
            BY <2>1 DEF Path
        <3>2. CASE requests[r].kind = "create"
            BY <2>1, <3>1, <3>2 DEF Told, Status, CreateStatus, Replies
        <3>3. CASE requests[r].kind = "delete"
            BY <2>1, <3>1, <3>3 DEF Told, Status, DeleteStatus, Replies
        <3>4. CASE requests[r].kind \notin {"create", "delete"}
            BY <3>4 DEF Told
        <3> QED BY <3>2, <3>3, <3>4
    <2>2. CASE status \in {"308", "404", "410", "500"} /\ requests[r].kind = "redirect"
        BY <2>2 DEF Told
    <2>3. CASE status \in {"500", "closed"} /\ call = IF calls[r] \in {"none", "sent"} THEN calls[r] ELSE "over"
        BY <2>3, <1>3 DEF Told, Path, Open, Connected
    <2> QED BY <2>1, <2>2, <2>3
<1>7. Keeps(r, h)
    BY DEF Keeps
<1>8. click \in {"none", "pending", "sent", "lost"}
    BY <1>3
<1>9. Fine(r, h, call, click)
    BY <1>4, <1>5, <1>6, <1>8 DEF Fine
<1> HIDE DEF h, click
<1> QED BY <1>2, <1>7, <1>9, HandlerStep

LEMMA RequestKeepsBooks ==
    ASSUME GateInv, NEW r \in Requests,
           Hit(r) \/ Miss(r) \/ GetAnswer(r) \/ Return(r) \/ Timeout(r) \/ Disconnect(r) \/ Append(r)
    PROVE  Books'
<1> USE NoLinkIsNone
<1>1. Books /\ Shared
    BY DEF GateInv
<1>2. /\ requests[r] \in HandlerType /\ Path(requests[r], calls[r], clicks[r]) /\ Told(r, requests[r], calls[r])
      /\ calls' = calls => calls' = [calls EXCEPT ![r] = calls[r]]
      /\ clicks' = clicks => clicks' = [clicks EXCEPT ![r] = clicks[r]]
      /\ requests' = requests => requests' = [requests EXCEPT ![r] = requests[r]]
    BY <1>1, Before
<1>3. requests[r].link \in Links \cup {NoLink}
    BY <1>2 DEF HandlerType
<1>4. CASE Hit(r)
    <2>1. PICK l \in Cached(requests[r].code) : Respond(r, "308", l)
        BY <1>4 DEF Hit
    <2>2. l \in Links
        BY <1>1, <2>1 DEF Cached, Books, TableInv
    <2>3. requests[r].pc = "looking" /\ SendClick(r) /\ UNCHANGED table /\ calls' = calls
        BY <1>4 DEF Hit
    <2>4. requests[r].kind = "redirect" /\ requests[r].pc \in Connected
        BY <1>2, <2>3 DEF Path, Open, Connected
    <2> QED BY <1>1, <1>2, <2>1, <2>2, <2>3, <2>4, ResponseKeepsBooks
<1>5. CASE Miss(r)
    <2> DEFINE past == IF Live(requests[r].code) = {} THEN expired \cup removed ELSE {}
               h == [pc |-> "waiting", kind |-> "redirect", code |-> requests[r].code,
                     status |-> "none", link |-> NoLink, past |-> past]
    <2>1. requests[r].pc = "looking" /\ UNCHANGED table /\ UNCHANGED <<calls, clicks>>
        BY <1>5 DEF Miss
    <2>2. requests' = [requests EXCEPT ![r] = h]
        BY <1>5 DEF Miss, Handle, Handler
    <2>3. past \in SUBSET Links
        BY <1>1 DEF Books, TableInv
    <2> HIDE DEF past
    <2>4. h \in HandlerType
        BY <1>2, <2>3 DEF HandlerType, Open, Connected
    <2>5. Path(h, calls[r], clicks[r]) /\ Told(r, h, calls[r])
        BY <1>2, <2>1 DEF Path, Told, Replies
    <2>6. Fine(r, h, calls[r], clicks[r]) /\ Keeps(r, h)
        BY <1>1, <2>4, <2>5, Before DEF Fine, Keeps
    <2> HIDE DEF h
    <2> QED BY <1>1, <1>2, <2>1, <2>2, <2>6, HandlerStep DEF Becomes
<1>6. CASE GetAnswer(r)
    <2> DEFINE a == found[waits[r]]
    <2>1. /\ requests[r].pc = "waiting" /\ UNCHANGED table /\ calls' = calls
          /\ \/ a.res = "found" /\ Respond(r, "308", a.link) /\ SendClick(r)
             \/ a.res = "missing" /\ Respond(r, "404", NoLink) /\ UNCHANGED clicks
             \/ a.res = "expired" /\ Respond(r, "410", NoLink) /\ UNCHANGED clicks
             \/ a.res = "error" /\ Respond(r, "500", NoLink) /\ UNCHANGED clicks
        BY <1>6 DEF GetAnswer
    <2>2. a.link \in Links \cup {NoLink}
        BY <1>1, <2>1 DEF Shared, AnswerType
    <2>3. requests[r].kind = "redirect" /\ requests[r].pc \in Connected
        BY <1>2, <2>1 DEF Path, Open, Connected
    <2> HIDE DEF a
    <2>4. CASE Respond(r, "308", a.link) /\ SendClick(r)
        BY <1>1, <1>2, <2>1, <2>2, <2>3, <2>4, ResponseKeepsBooks
    <2>5. ASSUME NEW status \in {"404", "410", "500"}, Respond(r, status, NoLink), UNCHANGED clicks
          PROVE  Books'
        BY <1>1, <1>2, <2>1, <2>3, <2>5, ResponseKeepsBooks
    <2> QED BY <2>1, <2>4, <2>5
<1>7. CASE Return(r)
    <2> DEFINE status == Status(requests[r].kind, calls[r])
    <2>1. /\ requests[r].pc = "calling" /\ calls[r] # "sent" /\ UNCHANGED table /\ UNCHANGED clicks
          /\ Respond(r, status, requests[r].link)
          /\ calls' = [calls EXCEPT ![r] = "over"]
        BY <1>7 DEF Return
    <2>2. requests[r].pc \in Connected
        BY <2>1 DEF Open, Connected
    <2>3. status = Status(requests[r].kind, calls[r])
        OBVIOUS
    <2> HIDE DEF status
    <2> QED BY <1>1, <1>3, <2>1, <2>2, <2>3, ResponseKeepsBooks
<1>8. CASE Timeout(r)
    <2>1. /\ requests[r].pc = "calling" /\ UNCHANGED table /\ UNCHANGED clicks
          /\ Respond(r, "500", requests[r].link)
          /\ calls' = [calls EXCEPT ![r] = IF calls[r] = "sent" THEN "sent" ELSE "over"]
        BY <1>8 DEF Timeout
    <2>2. (IF calls[r] = "sent" THEN "sent" ELSE "over")
          = (IF calls[r] \in {"none", "sent"} THEN calls[r] ELSE "over")
        BY <1>2, <2>1 DEF Path, Replies
    <2> DEFINE call == IF calls[r] \in {"none", "sent"} THEN calls[r] ELSE "over"
    <2>3. calls' = [calls EXCEPT ![r] = call] /\ requests[r].pc \in Connected
        BY <2>1, <2>2 DEF Open, Connected
    <2>4. call = IF calls[r] \in {"none", "sent"} THEN calls[r] ELSE "over"
        OBVIOUS
    <2> HIDE DEF call
    <2> QED BY <1>1, <1>3, <2>1, <2>3, <2>4, ResponseKeepsBooks
<1>9. CASE Disconnect(r)
    BY <1>1, <1>3, <1>9, ResponseKeepsBooks DEF Disconnect
<1>10. CASE Append(r)
    <2>1. PICK outcome \in {"sent", "lost"} : clicks' = [clicks EXCEPT ![r] = outcome]
        BY <1>10 DEF Append
    <2>2. UNCHANGED <<table, requests, calls>> /\ clicks[r] = "pending"
        BY <1>10 DEF Append
    <2>3. Fine(r, requests[r], calls[r], outcome) /\ Keeps(r, requests[r])
        BY <1>1, <2>1, <2>2, Before DEF Fine, Path, Keeps
    <2> QED BY <1>1, <1>2, <2>1, <2>2, <2>3, HandlerStep DEF Becomes
<1> QED BY <1>4, <1>5, <1>6, <1>7, <1>8, <1>9, <1>10

-----------------------------------------------------------------------------
(* The replies of core, with what they do to the table.                    *)
LEMMA CreateKeepsBooks ==
    ASSUME Books, NEW r \in Requests, CoreCreate(r)
    PROVE  Books'
<1> USE NoLinkIsNone
<1> DEFINE c == requests[r].code
           k(reply) == IF requests[r].pc = "calling" THEN reply ELSE "over"
<1>1. /\ calls[r] = "sent" /\ requests[r].kind = "create" /\ UNCHANGED <<requests, clicks>>
      /\ requests[r] \in HandlerType /\ Path(requests[r], calls[r], clicks[r]) /\ Told(r, requests[r], calls[r])
    BY Before DEF CoreCreate
<1>2. c \in Codes /\ r \notin stored
    BY <1>1 DEF Path, Told
<1>3. Keeps(r, requests[r]) /\ clicks' = [clicks EXCEPT ![r] = clicks[r]] /\ requests' = [requests EXCEPT ![r] = requests[r]]
    BY <1>1, Before DEF Keeps
<1>4. ASSUME NEW reply \in {"invalid", "exists", "error"}, Reply(r, reply), UNCHANGED table
      PROVE  Books'
    <2>1. Fine(r, requests[r], k(reply), clicks[r])
        BY <1>1, Before DEF Fine, Path, Told, Replies
    <2> QED BY <1>3, <1>4, <2>1, HandlerStep DEF Becomes, Reply
<1>5. ASSUME Insert(r), NEW reply \in {"ok", "error"}, Reply(r, reply)
      PROVE  Books'
    <2>1. /\ rows[c] = NoLink /\ rows' = [rows EXCEPT ![c] = r] /\ stored' = stored \cup {r}
          /\ UNCHANGED <<expired, removed>>
        BY <1>5 DEF Insert, Conflict
    <2>2. TableInv'
        BY <1>2, <2>1 DEF Books, TableInv, Links
    <2>3. \A s \in Requests : calls'[s] = IF s = r THEN k(reply) ELSE calls[s]
        BY <1>5 DEF Books, Functions, Reply
    <2>4. Functions' /\ Distinct'
        BY <1>1, <1>5 DEF Books, Functions, Distinct, Reply
    <2>5. ASSUME NEW s \in Requests
          PROVE  Fine(s, requests[s], calls[s], clicks[s])'
        <3>0. /\ requests[s] \in HandlerType /\ Path(requests[s], calls[s], clicks[s]) /\ Told(s, requests[s], calls[s])
              /\ calls[s] \in {"none", "sent", "over"} \cup Replies /\ clicks[s] \in {"none", "pending", "sent", "lost"}
            BY Before
        <3>1. CASE s = r
            <4>1. rows'[c] = r /\ r \in stored'
                BY <1>2, <2>1 DEF Books, TableInv
            <4>2. Path(requests[r], k(reply), clicks[r])
                BY <1>1 DEF Path, Replies
            <4>3. Told(r, requests[r], calls[r])'
                BY <1>1, <1>2, <2>3, <4>1 DEF Told, Path
            <4>4. k(reply) \in {"none", "sent", "over"} \cup Replies
                BY DEF Replies
            <4> QED BY <1>1, <2>3, <3>0, <3>1, <4>2, <4>3, <4>4 DEF Fine
        <3>2. CASE s # r
            <4>1. requests[s].kind = "create" /\ requests[s].code \in Codes /\ rows[requests[s].code] = s
                  => rows'[requests[s].code] = s
                BY <1>2, <2>1 DEF Books, TableInv, Links
            <4>2. s \in stored' <=> s \in stored
                BY <2>1, <3>2
            <4>3. requests[s].kind = "create" => requests[s].pc # "new"
                BY <3>0 DEF Path
            <4>4. Told(s, requests[s], calls[s])'
                BY <1>1, <2>1, <2>3, <3>0, <3>2, <4>1, <4>2, <4>3 DEF Told, Path
            <4> QED BY <1>1, <2>3, <3>0, <3>2, <4>4 DEF Fine
        <3> QED BY <3>1, <3>2
    <2> QED BY <2>2, <2>4, <2>5 DEF Books
<1> QED BY <1>4, <1>5 DEF CoreCreate

(* A code is taken out of the table, by the handler of a delete, whose     *)
(* link this becomes, or by the purge.                                     *)
LEMMA RemoveKeepsFine ==
    ASSUME Books, NEW c \in Codes, rows[c] # NoLink, Remove(c)
    PROVE  /\ TableInv' /\ removed' = removed \cup {rows[c]} /\ stored' = stored /\ expired' = expired
           /\ \A s \in Requests : \A h, call, click : Fine(s, h, call, click) => Fine(s, h, call, click)'
<1> USE NoLinkIsNone
<1>1. /\ rows' = [rows EXCEPT ![c] = NoLink] /\ removed' = removed \cup {rows[c]}
      /\ stored' = stored /\ expired' = expired
    BY DEF Remove
<1>2. TableInv'
    BY <1>1 DEF Books, TableInv
<1>3. ASSUME NEW s \in Requests, NEW h, NEW call, NEW click, Fine(s, h, call, click)
      PROVE  Fine(s, h, call, click)'
    <2>1. h.kind = "create" /\ rows[h.code] = s => rows'[h.code] = s \/ s \in removed'
        <3> SUFFICES ASSUME h.kind = "create", rows[h.code] = s PROVE rows'[h.code] = s \/ s \in removed'
            OBVIOUS
        <3>1. h.code \in Codes
            BY <1>3 DEF Fine, Path
        <3> QED BY <1>1, <3>1 DEF Books, TableInv
    <2> QED BY <1>1, <1>3, <2>1 DEF Fine, Told
<1> QED BY <1>1, <1>2, <1>3

LEMMA DeleteKeepsBooks ==
    ASSUME Books, NEW r \in Requests, CoreDelete(r)
    PROVE  Books'
<1> USE NoLinkIsNone
<1> DEFINE c == requests[r].code
           k(reply) == IF requests[r].pc = "calling" THEN reply ELSE "over"
<1>1. /\ calls[r] = "sent" /\ requests[r].kind = "delete" /\ UNCHANGED clicks
      /\ requests[r] \in HandlerType /\ Path(requests[r], calls[r], clicks[r]) /\ Told(r, requests[r], calls[r])
      /\ clicks[r] \in {"none", "pending", "sent", "lost"}
    BY Before DEF CoreDelete
<1>2. c \in Codes
    BY <1>1 DEF Path
<1>3. Keeps(r, requests[r]) /\ clicks' = [clicks EXCEPT ![r] = clicks[r]] /\ requests = [requests EXCEPT ![r] = requests[r]]
    BY <1>1, Before DEF Keeps
<1>4. ASSUME NEW reply \in {"missing", "error"}, Reply(r, reply), UNCHANGED <<table, requests>>
      PROVE  Books'
    <2>1. Fine(r, requests[r], k(reply), clicks[r])
        BY <1>1, Before DEF Fine, Path, Told, Replies
    <2> QED BY <1>3, <1>4, <2>1, HandlerStep DEF Becomes, Reply
<1>5. ASSUME rows[c] # NoLink, Remove(c), NEW reply \in {"ok", "error"}, Reply(r, reply),
             Handle(r, [pc |-> requests[r].pc, kind |-> requests[r].kind, code |-> c,
                        status |-> requests[r].status, link |-> rows[c], past |-> requests[r].past])
      PROVE  Books'
    <2>0. PICK h, call : /\ call = k(reply)
                         /\ h = [pc |-> requests[r].pc, kind |-> requests[r].kind, code |-> c,
                                 status |-> requests[r].status, link |-> rows[c], past |-> requests[r].past]
        OBVIOUS
    <2>1. /\ TableInv' /\ removed' = removed \cup {rows[c]} /\ stored' = stored /\ expired' = expired
          /\ \A s \in Requests : \A g, k1, t : Fine(s, g, k1, t) => Fine(s, g, k1, t)'
        BY <1>2, <1>5, RemoveKeepsFine
    <2>2. rows[c] \in Links \ removed
        BY <1>2, <1>5 DEF Books, TableInv
    <2>3. /\ requests'[r] = h /\ calls'[r] = call /\ clicks' = clicks /\ Functions'
          /\ \A s \in Requests : s # r => requests'[s] = requests[s] /\ calls'[s] = calls[s]
        BY <1>1, <1>5, <2>0 DEF Books, Functions, Handle, Reply
    <2>4. /\ h.pc \notin {"new", "reading"} /\ h.kind = "delete" /\ h.link = rows[c] /\ h.status \notin {"200", "404", "308", "400", "409"}
          /\ call \in {"ok", "error", "over"}
        BY <1>1, <2>0 DEF Path
    <2>5. h \in HandlerType
        BY <1>1, <1>2, <2>0, <2>2 DEF HandlerType
    <2>6. Path(h, call, clicks[r])
        BY <1>1, <1>2, <2>0 DEF Path, Replies
    <2>7. Told(r, h, call)'
        BY <2>1, <2>2, <2>4 DEF Told
    <2>8. ASSUME NEW s \in Requests
          PROVE  Fine(s, requests[s], calls[s], clicks[s])'
        <3>1. CASE s = r
            BY <1>1, <2>3, <2>4, <2>5, <2>6, <2>7, <3>1 DEF Fine, Replies
        <3>2. CASE s # r
            BY <2>1, <2>3, <3>2 DEF Books
        <3> QED BY <3>1, <3>2
    <2>9. Distinct'
        <3>1. \A s \in Requests : requests[s].kind = "delete" => requests[s].link # rows[c]
            BY <1>5, <2>2, Before DEF Told
        <3> QED BY <2>3, <2>4, <3>1 DEF Books, Distinct
    <2> QED BY <2>1, <2>3, <2>8, <2>9 DEF Books
<1> QED BY <1>4, <1>5 DEF CoreDelete, Missing

LEMMA StatisticsKeepBooks ==
    ASSUME Books, NEW r \in Requests, Statistics(r)
    PROVE  Books'
<1>1. PICK reply \in {"ok", "missing", "error"} : Reply(r, reply)
    BY DEF Statistics
<1> DEFINE k == IF requests[r].pc = "calling" THEN reply ELSE "over"
<1>2. calls[r] = "sent" /\ requests[r].kind = "stats" /\ UNCHANGED <<table, requests, clicks>>
    BY DEF Statistics
<1>3. Fine(r, requests[r], k, clicks[r]) /\ Keeps(r, requests[r])
    BY <1>2, Before DEF Fine, Path, Told, Replies, Keeps
<1>4. Becomes(r, requests[r], k, clicks[r])
    BY <1>1, <1>2, Before DEF Becomes, Reply
<1> QED BY <1>2, <1>3, <1>4, HandlerStep

LEMMA EndKeepsBooks ==
    ASSUME Books, ProcessEnds
    PROVE  Books'
<1> USE NoLinkIsNone
<1>1. UNCHANGED table /\ TableInv'
    BY DEF ProcessEnds, Books, TableInv, table
<1>2. Functions'
    <2>1. clicks' \in [Requests -> {"none", "sent", "lost"}]
        BY DEF ProcessEnds
    <2> QED BY <2>1 DEF ProcessEnds, Functions
<1>3. ASSUME NEW r \in Requests
      PROVE  /\ requests[r].pc \in Connected =>
                requests'[r] = [pc |-> "done", kind |-> requests[r].kind, code |-> requests[r].code,
                                status |-> "closed", link |-> requests[r].link, past |-> {}]
             /\ requests[r].pc \notin Connected => requests'[r] = requests[r]
             /\ calls'[r] = IF calls[r] \in {"none", "sent"} THEN calls[r] ELSE "over"
             /\ clicks'[r] \in {"none", "sent", "lost"} /\ (clicks'[r] = "none" <=> clicks[r] = "none")
    <2>1. \A s \in Requests : IF clicks[s] = "pending" THEN clicks'[s] # "none" ELSE clicks'[s] = clicks[s]
        BY DEF ProcessEnds
    <2>2. clicks' \in [Requests -> {"none", "sent", "lost"}]
        BY DEF ProcessEnds
    <2> QED BY <2>1, <2>2 DEF ProcessEnds
<1>4. ASSUME NEW r \in Requests
      PROVE  Fine(r, requests[r], calls[r], clicks[r])'
    <2> DEFINE h == requests[r]
               closed == [pc |-> "done", kind |-> h.kind, code |-> h.code,
                          status |-> "closed", link |-> h.link, past |-> {}]
               call == IF calls[r] \in {"none", "sent"} THEN calls[r] ELSE "over"
    <2>1. /\ h \in HandlerType /\ Path(h, calls[r], clicks[r]) /\ Told(r, h, calls[r])
          /\ calls[r] \in {"none", "sent", "over"} \cup Replies
        BY Before
    <2>2. /\ calls'[r] = call /\ call \in {"none", "sent", "over"} \cup Replies
          /\ clicks'[r] \in {"none", "sent", "lost"} /\ (clicks'[r] = "none" <=> clicks[r] = "none")
        BY <1>3
    <2>3. CASE h.pc \in Connected
        <3>1. requests'[r] = closed
            BY <1>3, <2>3
        <3>2. closed \in HandlerType
            BY <2>1 DEF HandlerType
        <3>3. Path(closed, call, clicks'[r])
            BY <2>1, <2>2, <2>3 DEF Path, Open, Connected, Replies
        <3>4. Told(r, closed, call)
            BY <2>1, <2>3 DEF Told, Path, Open, Connected, Replies
        <3> HIDE DEF closed, call
        <3> QED BY <1>1, <2>1, <2>2, <3>1, <3>2, <3>3, <3>4 DEF Fine, Told, table
    <2>4. CASE h.pc \notin Connected
        <3>1. requests'[r] = h
            BY <1>3, <2>4
        <3>2. Path(h, call, clicks'[r])
            BY <2>1, <2>2, <2>4 DEF Path, Open, Connected, Replies
        <3>3. Told(r, h, call)
            BY <2>1, <2>4 DEF Told, Path, Open, Connected, Replies
        <3> HIDE DEF h, call
        <3> QED BY <1>1, <2>1, <2>2, <3>1, <3>2, <3>3 DEF Fine, Told, table
    <2> QED BY <2>3, <2>4
<1>5. Distinct'
    <2>1. ASSUME NEW r \in Requests
          PROVE  requests'[r].kind = requests[r].kind /\ requests'[r].link = requests[r].link
        <3>1. CASE requests[r].pc \in Connected
            <4>1. requests'[r] = [pc |-> "done", kind |-> requests[r].kind, code |-> requests[r].code,
                                  status |-> "closed", link |-> requests[r].link, past |-> {}]
                BY <1>3, <3>1
            <4> QED BY <4>1
        <3>2. CASE requests[r].pc \notin Connected
            BY <1>3, <3>2
        <3> QED BY <3>1, <3>2
    <2> QED BY <2>1 DEF Books, Distinct
<1> QED BY <1>1, <1>2, <1>4, <1>5 DEF Books

-----------------------------------------------------------------------------
(* Steps that leave the tasks alone: no handler starts to wait in them.    *)
Quiet ==
    /\ UNCHANGED <<found, client>> /\ expired \subseteq expired' /\ removed \subseteq removed'
    /\ \A r \in Requests :
        \/ requests'[r].past = {} /\ requests'[r].pc # "waiting"
        \/ requests'[r].past = requests[r].past /\ requests'[r].pc = requests[r].pc

LEMMA QuietKeepsShared ==
    ASSUME Shared, Quiet
    PROVE  Shared'
BY DEF Shared, Quiet, client, Live

Waiters(r) == Arrivals(r) \/ Hit(r) \/ Return(r) \/ Timeout(r) \/ Append(r)

LEMMA HandlersAreQuiet ==
    ASSUME Books, NEW r \in Requests, Waiters(r)
    PROVE  Quiet
<1> USE DEF Books, Functions, Quiet, table
<1>1. CASE Arrivals(r)
    <2>1. UNCHANGED <<table, found, client>> /\ \E h : requests' = [requests EXCEPT ![r] = h] /\ h.past = {} /\ h.pc # "waiting"
        BY <1>1 DEF Arrivals, Accept, RedirectReq, CreateReq, DeleteReq, StatsReq, BadRequest, Arrive, Handle, Handler
    <2> QED BY <2>1
<1>2. CASE Hit(r)
    BY <1>2 DEF Hit, Respond, Handle
<1>3. CASE Return(r)
    BY <1>3 DEF Return, Respond, Handle
<1>4. CASE Timeout(r)
    BY <1>4 DEF Timeout, Respond, Handle
<1>5. CASE Append(r)
    BY <1>5 DEF Append
<1> QED BY <1>1, <1>2, <1>3, <1>4, <1>5 DEF Waiters

LEMMA CoreIsQuiet ==
    ASSUME Books, NEW r \in Requests, CoreCreate(r) \/ CoreDelete(r) \/ Statistics(r)
    PROVE  Quiet
<1>1. CASE CoreCreate(r)
    BY <1>1 DEF CoreCreate, Insert, table, Quiet
<1>2. CASE CoreDelete(r)
    <2>1. UNCHANGED <<found, client>> /\ expired' = expired /\ removed \subseteq removed'
        BY <1>2 DEF CoreDelete, Remove, table
    <2>2. \/ requests' = requests
          \/ \E l : Handle(r, [pc |-> requests[r].pc, kind |-> requests[r].kind, code |-> requests[r].code,
                                status |-> requests[r].status, link |-> l, past |-> requests[r].past])
        BY <1>2 DEF CoreDelete
    <2>3. \A s \in Requests : requests'[s].past = requests[s].past /\ requests'[s].pc = requests[s].pc
        BY <2>2 DEF Books, Functions, Handle
    <2> QED BY <2>1, <2>3 DEF Quiet
<1>3. CASE Statistics(r)
    BY <1>3 DEF Statistics, table, Quiet
<1> QED BY <1>1, <1>2, <1>3

-----------------------------------------------------------------------------
(* The steps of the tasks, and of those who wait for them.                 *)
LEMMA MissKeepsShared ==
    ASSUME GateInv, NEW r \in Requests, Miss(r)
    PROVE  Shared'
<1> USE NoLinkIsNone
<1> DEFINE c == requests[r].code
           past == IF Live(c) = {} THEN expired \cup removed ELSE {}
<1>1. /\ Books /\ Shared /\ UNCHANGED table
      /\ Client!Join(r, c) \/ Client!Start(r, c)
      /\ found' = [f \in Flights |-> IF flights'[f].pc = "queued" THEN Pending ELSE found[f]]
    BY DEF GateInv, Miss
<1>2. c \in Codes
    BY <1>1, Before DEF Miss, Path
<1>3. /\ requests'[r].past = past /\ requests'[r].pc = "waiting"
      /\ \A s \in Requests : s # r => requests'[s] = requests[s]
    BY <1>1 DEF Miss, Handle, Handler, Books, Functions
<1>4. found' \in [Flights -> AnswerType]
    BY <1>1 DEF Shared, Pending, AnswerType
<1>5. \A f \in Flights : found'[f].res = "found" => found'[f] = found[f]
    BY <1>1 DEF Pending
<1>6. CASE Client!Join(r, c)
    <2>1. /\ inFlight[c] # NoFlight /\ waits' = [waits EXCEPT ![r] = inFlight[c]]
          /\ UNCHANGED <<inFlight, flights>>
        BY <1>6 DEF Client!Join
    <2>2. inFlight[c] \in Live(c) /\ inFlight[c] \in Flights
        BY <1>1, <1>2, <2>1 DEF Shared, Live
    <2>3. past = {}
        BY <2>2
    <2> HIDE DEF past
    <2>4. ASSUME NEW s \in Requests
          PROVE  /\ requests'[s].past \subseteq expired' \cup removed'
                 /\ requests'[s].pc = "waiting" =>
                    /\ waits'[s] \in Flights
                    /\ found'[waits'[s]].res = "found" => found'[waits'[s]].link \notin requests'[s].past
        BY <1>1, <1>3, <1>5, <2>1, <2>2, <2>3 DEF Shared, table
    <2> QED BY <1>1, <1>4, <2>1, <2>2, <2>4 DEF Shared, Live
<1>7. CASE Client!Start(r, c)
    <2>1. PICK f \in Flights :
            /\ Client!Fresh(f)
            /\ flights' = [flights EXCEPT ![f] = [pc |-> "queued", code |-> c, sent |-> FALSE]]
            /\ inFlight' = [inFlight EXCEPT ![c] = f]
            /\ waits' = [waits EXCEPT ![r] = f]
        BY <1>7 DEF Client!Start
    <2>2. (\A d \in Codes : inFlight[d] # f) /\ (\A p \in Requests : waits[p] # f)
        BY <2>1 DEF Client!Fresh
    <2>3. /\ flights' \in [Flights -> FlightType] /\ inFlight' \in [Codes -> Flights \cup {NoFlight}]
          /\ waits' \in [Requests -> Flights \cup {NoFlight}]
        BY <1>1, <1>2, <2>1 DEF Shared, FlightType
    <2>4. ASSUME NEW d \in Codes, inFlight'[d] # NoFlight
          PROVE  (inFlight[d] \in Live(d))'
        <3>1. /\ flights'[f].pc = "queued" /\ flights'[f].code = c
              /\ \A g \in Flights : g # f => flights'[g] = flights[g]
            BY <1>1, <2>1 DEF Shared
        <3>2. CASE d = c
            BY <1>1, <1>2, <2>1, <3>1, <3>2 DEF Shared, Live
        <3>3. CASE d # c
            <4>1. inFlight'[d] = inFlight[d] /\ inFlight[d] \in Live(d) /\ inFlight[d] # f
                BY <1>1, <2>1, <2>2, <2>4, <3>3 DEF Shared
            <4> QED BY <3>1, <4>1 DEF Live
        <3> QED BY <3>2, <3>3
    <2>4a. \A g \in Flights : flights'[g].pc \in {"queued", "calling"} => flights'[g].code \in Codes
        BY <1>1, <1>2, <2>1 DEF Shared
    <2>5. found'[f].res = "pending"
        BY <1>1, <2>1 DEF Pending, Shared
    <2>6. past \subseteq expired \cup removed
        OBVIOUS
    <2> HIDE DEF past
    <2>7. ASSUME NEW s \in Requests
          PROVE  /\ requests'[s].past \subseteq expired' \cup removed'
                 /\ requests'[s].pc = "waiting" =>
                    /\ waits'[s] \in Flights
                    /\ found'[waits'[s]].res = "found" => found'[waits'[s]].link \notin requests'[s].past
        BY <1>1, <1>3, <1>5, <2>1, <2>5, <2>6 DEF Shared, table
    <2> QED BY <1>4, <2>3, <2>4, <2>4a, <2>7 DEF Shared
<1> QED BY <1>1, <1>6, <1>7

(* A handler that waited is gone, and nobody else notices.                 *)
LEMMA LeavingKeepsShared ==
    ASSUME Books, Shared, NEW r \in Requests, NEW status, NEW l,
           Respond(r, status, l), UNCHANGED <<table, found>>,
           waits' = [waits EXCEPT ![r] = NoFlight] \/ UNCHANGED waits, UNCHANGED <<inFlight, flights>>
    PROVE  Shared'
<1>1. /\ requests'[r].past = {} /\ requests'[r].pc = "done"
      /\ \A s \in Requests : s # r => requests'[s] = requests[s]
    BY DEF Respond, Handle, Books, Functions
<1>2. ASSUME NEW s \in Requests
      PROVE  /\ requests'[s].past \subseteq expired' \cup removed'
             /\ requests'[s].pc = "waiting" =>
                /\ waits'[s] \in Flights
                /\ found'[waits'[s]].res = "found" => found'[waits'[s]].link \notin requests'[s].past
    BY <1>1 DEF Shared, table
<1> QED BY <1>2 DEF Shared, Live

LEMMA WaiterKeepsShared ==
    ASSUME Books, Shared, NEW r \in Requests, GetAnswer(r) \/ Disconnect(r)
    PROVE  Shared'
<1>1. CASE GetAnswer(r)
    <2>1. waits' = [waits EXCEPT ![r] = NoFlight] /\ UNCHANGED <<inFlight, flights, table, found>>
        BY <1>1 DEF GetAnswer, Client!Answered
    <2>2. \E status, l : Respond(r, status, l)
        BY <1>1 DEF GetAnswer
    <2> QED BY <2>1, <2>2, LeavingKeepsShared
<1>2. CASE Disconnect(r)
    <2>1. /\ waits' = [waits EXCEPT ![r] = NoFlight] \/ UNCHANGED waits
          /\ UNCHANGED <<inFlight, flights, table, found>>
        BY <1>2 DEF Disconnect, Client!Cancel, client
    <2>2. Respond(r, "closed", requests[r].link)
        BY <1>2 DEF Disconnect
    <2> QED BY <2>1, <2>2, LeavingKeepsShared
<1> QED BY <1>1, <1>2

(* Core answers with a link that is in the table, and not over.            *)
LEMMA CoreGetKeepsShared ==
    ASSUME Books, Shared, NEW f \in Flights, CoreGet(f)
    PROVE  Shared'
<1> USE NoLinkIsNone
<1>1. UNCHANGED <<table, requests, inFlight, flights, waits>>
    BY DEF CoreGet, client
<1>2. PICK a \in {Lookup(flights[f].code), Error} : found' = [found EXCEPT ![f] = a]
    BY DEF CoreGet
<1>3. flights[f].code \in Codes
    BY DEF CoreGet, Shared
<1>4. a \in AnswerType /\ (a.res = "found" => a.link \notin expired \cup removed)
    <2> DEFINE l == rows[flights[f].code]
    <2>1. l \in Links \cup {NoLink} /\ (l # NoLink => l \notin removed)
        BY <1>3 DEF Books, TableInv
    <2>2. \/ a \in {[res |-> "missing", link |-> NoLink], [res |-> "expired", link |-> NoLink],
                     [res |-> "error", link |-> NoLink]}
          \/ a = [res |-> "found", link |-> l] /\ l # NoLink /\ l \notin expired
        BY <1>2 DEF Lookup, Error
    <2> HIDE DEF l
    <2> QED BY <2>1, <2>2 DEF AnswerType
<1> QED BY <1>1, <1>2, <1>4 DEF Shared, Live, table

LEMMA TaskKeepsShared ==
    ASSUME Shared, NEW f \in Flights, Acquire(f) \/ Answer(f) \/ Unlist(f)
    PROVE  Shared'
<1> USE NoLinkIsNone
<1>1. UNCHANGED <<table, requests, waits>>
    BY DEF Acquire, Answer, Unlist, Client!Acquire, Client!Answer, Client!Remove, Frame
<1>2. CASE Acquire(f)
    <2>1. /\ flights[f].pc = "queued" /\ flights' = [flights EXCEPT ![f].pc = "calling"]
          /\ UNCHANGED <<inFlight, found>>
        BY <1>2 DEF Acquire, Client!Acquire
    <2>2. flights' \in [Flights -> FlightType] /\ flights'[f].pc = "calling"
          /\ \A g \in Flights : flights'[g].code = flights[g].code /\ (g # f => flights'[g] = flights[g])
        BY <2>1 DEF Shared, FlightType
    <2> QED BY <1>1, <2>1, <2>2 DEF Shared, Live, table
<1>3. CASE Answer(f)
    <2>1. /\ flights[f].pc = "calling" /\ flights' = [flights EXCEPT ![f].pc = "answered", ![f].sent = TRUE]
          /\ UNCHANGED inFlight /\ found' \in {found, [found EXCEPT ![f] = Error]}
        BY <1>3 DEF Answer, Client!Answer
    <2>2a. flights'[f] = [pc |-> "answered", code |-> flights[f].code, sent |-> TRUE]
        <3>1. flights[f] \in FlightType /\ flights \in [Flights -> FlightType]
            BY DEF Shared
        <3>2. flights'[f] = [flights[f] EXCEPT !.pc = "answered", !.sent = TRUE]
            BY <2>1, <3>1
        <3> QED BY <3>1, <3>2 DEF FlightType
    <2>2. flights' \in [Flights -> FlightType] /\ flights'[f].pc = "answered"
          /\ \A g \in Flights : flights'[g].code = flights[g].code /\ (g # f => flights'[g] = flights[g])
        <3>1. \A g \in Flights : g # f => flights'[g] = flights[g]
            BY <2>1 DEF Shared
        <3>2. flights' = [g \in Flights |-> flights'[g]]
            BY <2>1 DEF Shared
        <3>3. flights'[f] \in FlightType
            BY <2>2a DEF Shared, FlightType
        <3>4. \A g \in Flights : flights'[g] \in FlightType
            BY <3>1, <3>3 DEF Shared
        <3>5. flights' \in [Flights -> FlightType]
            BY <3>2, <3>4
        <3> QED BY <2>2a, <3>1, <3>5
    <2>3. found' \in [Flights -> AnswerType] /\ \A g \in Flights : found'[g].res = "found" => found'[g] = found[g]
        BY <2>1 DEF Shared, AnswerType, Error
    <2> QED BY <1>1, <2>1, <2>2, <2>3 DEF Shared, Live, table
<1>4. CASE Unlist(f)
    <2>1. /\ flights[f].pc = "answered" /\ flights' = [flights EXCEPT ![f].pc = "ended"] /\ UNCHANGED found
          /\ inFlight' = [c \in Codes |-> IF c = flights[f].code /\ inFlight[c] = f THEN NoFlight ELSE inFlight[c]]
        BY <1>4 DEF Unlist, Client!Remove, Client!RemoveIf
    <2>2. flights' \in [Flights -> FlightType] /\ flights'[f].pc = "ended"
          /\ \A g \in Flights : g # f => flights'[g] = flights[g]
        BY <2>1 DEF Shared, FlightType
    <2>3. ASSUME NEW c \in Codes, inFlight'[c] # NoFlight
          PROVE  inFlight'[c] = inFlight[c] /\ inFlight[c] \in Live(c) /\ inFlight[c] # f
        BY <2>1, <2>3 DEF Shared, Live
    <2> QED BY <1>1, <2>1, <2>2, <2>3 DEF Shared, Live, table
<1> QED BY <1>2, <1>3, <1>4

LEMMA EndKeepsShared ==
    ASSUME Shared, ProcessEnds
    PROVE  Shared'
<1> USE NoLinkIsNone
<1>1. /\ found' = [f \in Flights |-> Pending] /\ inFlight' = [c \in Codes |-> NoFlight]
      /\ flights' = [f \in Flights |-> Client!Unused] /\ waits' = [r \in Requests |-> NoFlight]
      /\ UNCHANGED table
    BY DEF ProcessEnds
<1>2. ASSUME NEW r \in Requests
      PROVE  requests'[r].pc # "waiting" /\ requests'[r].past \subseteq expired \cup removed
    <2>1. CASE requests[r].pc \in Connected
        <3>1. requests'[r] = [pc |-> "done", kind |-> requests[r].kind, code |-> requests[r].code,
                              status |-> "closed", link |-> requests[r].link, past |-> {}]
            BY <2>1 DEF ProcessEnds
        <3> QED BY <3>1
    <2>2. CASE requests[r].pc \notin Connected
        BY <2>2 DEF ProcessEnds, Open, Connected, Shared
    <2> QED BY <2>1, <2>2
<1>3. found' \in [Flights -> AnswerType] /\ flights' \in [Flights -> FlightType]
    BY <1>1 DEF Pending, AnswerType, FlightType, Client!Unused
<1>4. \A f \in Flights : flights'[f].pc = "ended"
    BY <1>1 DEF Client!Unused
<1> QED BY <1>1, <1>2, <1>3, <1>4 DEF Shared, table

-----------------------------------------------------------------------------
LEMMA GateInvStep ==
    ASSUME GateInv, [GateNext]_gateVars
    PROVE  GateInv'
<1>1. Books /\ Shared
    BY DEF GateInv
<1>2. CASE Connect \/ NoConnection \/ Serve \/ Terminate \/ UNCHANGED gateVars
    <2>1. UNCHANGED <<table, requests, calls, clicks, found, client>>
        BY <1>2 DEF Connect, NoConnection, Serve, Terminate, gateVars
    <2>2. Books'
        BY <1>1, <2>1 DEF table, Books, TableInv, Functions, Distinct, Fine, Told
    <2>3. Quiet
        BY <2>1 DEF Quiet, table
    <2> QED BY <1>1, <2>2, <2>3, QuietKeepsShared DEF GateInv
<1>3. CASE Crash \/ Exit
    BY <1>1, <1>3, EndKeepsBooks, EndKeepsShared DEF Crash, Exit, GateInv
<1>4. ASSUME NEW r \in Requests, Handlers(r)
      PROVE  GateInv'
    <2>1. Arrivals(r) \/ Hit(r) \/ Miss(r) \/ GetAnswer(r) \/ Return(r) \/ Timeout(r) \/ Disconnect(r) \/ Append(r)
        BY <1>4, GatewayAssumption DEF Handlers, Arrivals
    <2>2. Books'
        BY <1>1, <2>1, ArrivalKeepsBooks, RequestKeepsBooks
    <2>3. Shared'
        BY <1>1, <2>1, HandlersAreQuiet, QuietKeepsShared, MissKeepsShared, WaiterKeepsShared DEF Waiters
    <2> QED BY <2>2, <2>3 DEF GateInv
<1>5. ASSUME NEW r \in Requests, CoreCreate(r) \/ CoreDelete(r) \/ Statistics(r)
      PROVE  GateInv'
    <2>1. Shared'
        BY <1>1, <1>5, CoreIsQuiet, QuietKeepsShared
    <2>2. Books'
        BY <1>1, <1>5, CreateKeepsBooks, DeleteKeepsBooks, StatisticsKeepBooks
    <2> QED BY <2>1, <2>2 DEF GateInv
<1>6. ASSUME NEW f \in Flights, CoreGet(f) \/ Tasks(f)
      PROVE  GateInv'
    <2>1. Shared'
        BY <1>1, <1>6, CoreGetKeepsShared, TaskKeepsShared DEF Tasks
    <2>2. UNCHANGED <<table, requests, calls, clicks>>
        BY <1>6 DEF CoreGet, Tasks, Acquire, Answer, Unlist, Frame
    <2>3. Books'
        BY <1>1, <2>2 DEF table, Books, TableInv, Functions, Distinct, Fine, Told
    <2> QED BY <2>1, <2>3 DEF GateInv
<1>7. ASSUME NEW l \in Links, Expire(l)
      PROVE  GateInv'
    <2>1. Quiet
        BY <1>7 DEF Expire, Quiet
    <2>2. Books'
        BY <1>1, <1>7 DEF Expire, Books, TableInv, Functions, Distinct, Fine, Told
    <2> QED BY <1>1, <2>1, <2>2, QuietKeepsShared DEF GateInv
<1>8. ASSUME NEW c \in Codes, Purge(c)
      PROVE  GateInv'
    <2>1. rows[c] # NoLink /\ Remove(c) /\ UNCHANGED <<requests, calls, clicks, found, client>>
        BY <1>1, <1>8, NoLinkIsNone DEF Purge, Books, TableInv
    <2>2. Quiet
        BY <2>1 DEF Quiet, Remove
    <2>3. Books'
        BY <1>1, <2>1, RemoveKeepsFine DEF Books, Functions, Distinct
    <2> QED BY <1>1, <2>2, <2>3, QuietKeepsShared DEF GateInv
<1> QED BY <1>2, <1>3, <1>4, <1>5, <1>6, <1>7, <1>8 DEF GateNext, Backends

LEMMA GateInvariant == GateSpec => []GateInv
<1>1. GateInit => GateInv
    BY GateInvInit
<1>2. GateInv /\ [GateNext]_gateVars => GateInv'
    BY GateInvStep
<1> QED BY <1>1, <1>2, PTL DEF GateSpec

-----------------------------------------------------------------------------
(* What a client was told of its create stays true in the table: for any   *)
(* number of rival creates and deletes, timeouts, crashes, and calls that  *)
(* core executes late.                                                     *)
THEOREM CreatesHold == GateSpec => []CreateAnswersHold
<1>1. GateInv => CreateAnswersHold
    BY DEF GateInv, Books, Fine, Told, CreateAnswersHold
<1> QED BY <1>1, GateInvariant, PTL

(* Of all deletes only one is told that it deleted a link, and that one    *)
(* did: no row is taken out of the table twice.                            *)
THEOREM DeletesOnce == GateSpec => []DeletedOnce
<1>1. GateInv => DeletedOnce
    BY DEF GateInv, Books, Fine, Told, Distinct, DeletedOnce
<1> QED BY <1>1, GateInvariant, PTL

(* Each redirect that was answered with a link has its click, and nothing  *)
(* else has one.                                                           *)
THEOREM ClicksMatchRedirects == GateSpec => []ClickPerRedirect
<1>1. GateInv => ClickPerRedirect
    BY DEF GateInv, Books, Fine, Path, ClickPerRedirect
<1> QED BY <1>1, GateInvariant, PTL

(* A redirect that started its own task is never sent to a link that was   *)
(* over or deleted by then, whoever shares the task.                       *)
THEOREM AnswersAreFresh == GateSpec => NoAnswerFromThePast
<1> DEFINE Fresh308 ==
        \A r \in Requests :
            requests[r].pc = "waiting" /\ requests'[r].status = "308" => requests'[r].link \notin requests[r].past
<1>1. ASSUME GateInv, [GateNext]_gateVars
      PROVE  [Fresh308]_gateVars
    <2> SUFFICES ASSUME NEW r \in Requests, requests[r].pc = "waiting", requests'[r].status = "308"
                 PROVE  requests'[r].link \notin requests[r].past
        OBVIOUS
    <2>1. Books /\ Shared
        BY <1>1 DEF GateInv
    <2>2. requests[r].status = "none" /\ requests[r].kind = "redirect" /\ calls[r] = "none"
        BY <2>1, Before DEF Path
    <2>3. CASE GetAnswer(r)
        <3>1. found[waits[r]].res = "found" /\ Respond(r, "308", found[waits[r]].link)
            BY <2>1, <2>3 DEF GetAnswer, Respond, Handle, Books, Functions
        <3>2. requests'[r].link = found[waits[r]].link
            BY <2>1, <3>1 DEF Respond, Handle, Books, Functions
        <3> QED BY <2>1, <3>1, <3>2 DEF Shared
    <2>4. CASE ~GetAnswer(r)
        <3>1. UNCHANGED requests => FALSE
            BY <2>2
        <3>2. ASSUME NEW s \in Requests, Handlers(s), s # r
              PROVE  FALSE
            <4>1. UNCHANGED requests \/ \E h : requests' = [requests EXCEPT ![s] = h]
                BY <3>2 DEF Handlers, Accept, RedirectReq, CreateReq, DeleteReq, StatsReq, BadRequest, Arrive, Handle,
                            Hit, Miss, GetAnswer, Return, Timeout, Disconnect, Append, Respond
            <4> QED BY <2>1, <2>2, <3>2, <4>1 DEF Books, Functions
        <3>3. CASE Handlers(r)
            <4>1. CASE Disconnect(r)
                BY <2>1, <4>1 DEF Disconnect, Respond, Handle, Books, Functions
            <4>2. CASE ~Disconnect(r)
                BY <2>4, <3>1, <3>3, <4>2 DEF Handlers, Accept, RedirectReq, CreateReq, DeleteReq, StatsReq, BadRequest, Arrive,
                                               Hit, Miss, Return, Timeout, Append
            <4> QED BY <4>1, <4>2
        <3>4. CASE Crash \/ Exit
            <4>1. requests'[r] = [pc |-> "done", kind |-> requests[r].kind, code |-> requests[r].code,
                                  status |-> "closed", link |-> requests[r].link, past |-> {}]
                BY <3>4 DEF Crash, Exit, ProcessEnds, Open, Connected
            <4> QED BY <4>1
        <3>5. CASE \E s \in Requests : CoreCreate(s) \/ CoreDelete(s) \/ Statistics(s)
            <4>1. PICK s \in Requests : CoreCreate(s) \/ CoreDelete(s) \/ Statistics(s)
                BY <3>5
            <4>2. requests[s].kind = "delete" /\ s # r /\ CoreDelete(s)
                BY <2>2, <3>1, <4>1 DEF CoreCreate, CoreDelete, Statistics
            <4>3. UNCHANGED requests \/ \E h : requests' = [requests EXCEPT ![s] = h]
                BY <4>2 DEF CoreDelete, Handle
            <4> QED BY <2>1, <2>2, <4>2, <4>3 DEF Books, Functions
        <3>6. CASE \/ Connect \/ NoConnection \/ Serve \/ Terminate \/ UNCHANGED gateVars
                   \/ \E f \in Flights : CoreGet(f) \/ Tasks(f)
                   \/ \E l \in Links : Expire(l)
                   \/ \E c \in Codes : Purge(c)
            BY <3>1, <3>6 DEF Connect, NoConnection, Serve, Terminate, gateVars, CoreGet, Tasks,
                              Acquire, Answer, Unlist, Frame, Expire, Purge
        <3> QED BY <1>1, <3>2, <3>3, <3>4, <3>5, <3>6 DEF GateNext, Backends
    <2> QED BY <2>3, <2>4
<1> QED BY <1>1, GateInvariant, PTL DEF GateSpec, NoAnswerFromThePast

(* The gateway's connections to its services keep the pace of the backoff  *)
(* too, however often its process starts again.                            *)
THEOREM GatewayRetriesKeepPace == GateSpec => [](RetryTypeOK /\ SleptFollowsBackoff)
<1>1. GateInit => RetryInv
    BY RetryInvInit DEF GateInit
<1>2. ASSUME [GateNext]_gateVars
      PROVE  [RetryNext \/ RetryAgain]_loops
    <2>1. ASSUME NEW r \in Requests, Handlers(r)
          PROVE  UNCHANGED loops
        BY <2>1 DEF Handlers, Accept, RedirectReq, CreateReq, DeleteReq, StatsReq, BadRequest, Arrive, Frame,
                    Hit, Miss, GetAnswer, Return, Timeout, Disconnect, Append
    <2>2. ASSUME Backends
          PROVE  UNCHANGED loops
        BY <2>2 DEF Backends, CoreCreate, CoreDelete, Statistics, CoreGet, Expire, Purge
    <2>3. ASSUME NEW f \in Flights, Tasks(f)
          PROVE  UNCHANGED loops
        BY <2>3 DEF Tasks, Acquire, Answer, Unlist, Frame
    <2>4. CASE Connect \/ NoConnection \/ Serve \/ Crash \/ Terminate \/ Exit \/ UNCHANGED gateVars
        BY <2>4 DEF Connect, NoConnection, Serve, Crash, Terminate, Exit, ProcessEnds, gateVars
    <2> QED BY <1>2, <2>1, <2>2, <2>3, <2>4 DEF GateNext
<1>3. RetryInv /\ [RetryNext \/ RetryAgain]_loops => RetryInv'
    BY RetryInvStep
<1>4. RetryInv => RetryTypeOK /\ SleptFollowsBackoff
    BY RetryInvFollows
<1> QED BY <1>1, <1>2, <1>3, <1>4, PTL DEF GateSpec

-----------------------------------------------------------------------------
(* The gateway drives its CoreClient as SingleFlight says: each step is one *)
(* of SingleFlight, or starts it anew with the process.  What is proved of *)
(* SingleFlight carries over.                                              *)
Flight == INSTANCE SingleFlightProofs WITH Callers <- Requests, MaxFaults <- 0, faults <- 0

FlightInv == Flight!Shapes /\ Flight!PermitsAddUp /\ Flight!Reachable
WaitsWhileWaiting == \A r \in Requests : requests[r].pc # "waiting" => waits[r] = NoFlight

LEMMA FlightStep == FlightInv /\ [Flight!Next]_client => FlightInv'
<1>1. [Flight!Next]_client => [Flight!Next]_(Flight!vars)
    BY DEF client, Flight!vars
<1> QED BY <1>1, GatewayAssumption, Flight!ShapesStep, Flight!PermitsStep, Flight!ReachableStep
        DEF FlightInv

(* Each instance has its own name for the library's Cardinality.           *)
LEMMA CardinalityAsClient == \A S : Client!Cardinality(S) = Flight!Cardinality(S)
BY DEF Client!Cardinality, Flight!Cardinality

LEMMA FlightStart == Client!Init => FlightInv
<1> SUFFICES ASSUME Client!Init PROVE FlightInv
    OBVIOUS
<1>1. \A f \in Flights : flights[f] = [pc |-> "ended", code |-> NoCode, sent |-> FALSE]
    BY DEF Client!Init, Client!Unused
<1>2. Flight!Shapes
    BY <1>1 DEF Client!Init, Client!Unused, Flight!Shapes
<1>3. Flight!Calling = {}
    BY <1>1 DEF Flight!Calling
<1>4. Flight!PermitsAddUp
    <2>1. Flight!IsFiniteSet(Flight!Calling) /\ Flight!Cardinality(Flight!Calling) = 0
        BY <1>3, FS_EmptySet DEF Flight!IsFiniteSet, Flight!Cardinality, IsFiniteSet, Cardinality
    <2>2. permits = MaxInFlight /\ MaxInFlight \in Nat
        BY GatewayAssumption DEF Client!Init
    <2> QED BY <2>1, <2>2 DEF Flight!PermitsAddUp
<1>5. Flight!Reachable
    BY <1>1 DEF Flight!Reachable, Flight!Active
<1> QED BY <1>2, <1>4, <1>5 DEF FlightInv

(* The handlers that use CoreClient: a redirect that missed in the cache   *)
(* joins or starts a task, and lets go of it exactly once.                 *)
LEMMA WaiterCallsClient ==
    ASSUME GateInv, WaitsWhileWaiting, NEW r \in Requests, Miss(r) \/ GetAnswer(r) \/ Disconnect(r)
    PROVE  [Flight!Next]_client /\ WaitsWhileWaiting'
<1>1. Shared /\ requests = [s \in Requests |-> requests[s]]
    BY DEF GateInv, Books, Functions
<1>2. CASE Miss(r)
    <2>1. requests[r].pc = "looking" /\ requests[r].code \in Codes /\ waits[r] = NoFlight
        BY <1>2 DEF Miss, GateInv, Books, Fine, Path, WaitsWhileWaiting
    <2>2. Flight!GetLink(r)
        BY <1>2, <2>1 DEF Miss, Client!Join, Client!Start, Client!Fresh,
                          Flight!GetLink, Flight!Join, Flight!Start, Flight!Fresh
    <2>3. \E f \in Flights : waits' = [waits EXCEPT ![r] = f]
        BY <1>1, <1>2, <2>1 DEF Miss, Client!Join, Client!Start, Shared
    <2>4. requests'[r].pc = "waiting" /\ \A s \in Requests : s # r => requests'[s] = requests[s]
        BY <1>1, <1>2 DEF Miss, Handle, Handler
    <2> QED BY <1>1, <2>2, <2>3, <2>4 DEF Flight!Next, WaitsWhileWaiting, Shared
<1>3. ASSUME waits' = [waits EXCEPT ![r] = NoFlight],
             \A s \in Requests : s # r => requests'[s] = requests[s]
      PROVE  WaitsWhileWaiting'
    BY <1>1, <1>3 DEF WaitsWhileWaiting, Shared
<1>4. CASE GetAnswer(r)
    <2>1. Flight!Answered(r)
        BY <1>4 DEF GetAnswer, Client!Answered, Flight!Answered
    <2>2. \A s \in Requests : s # r => requests'[s] = requests[s]
        BY <1>1, <1>4 DEF GetAnswer, Respond, Handle
    <2> QED BY <1>3, <2>1, <2>2 DEF Flight!Answered, Flight!Next, Flight!Return
<1>5. CASE Disconnect(r)
    <2>1. \A s \in Requests : s # r => requests'[s] = requests[s]
        BY <1>1, <1>5 DEF Disconnect, Respond, Handle
    <2>2. CASE Client!Cancel(r)
        BY <1>3, <2>1, <2>2 DEF Client!Cancel, Flight!Cancel, Flight!Next
    <2>3. CASE requests[r].pc # "waiting" /\ UNCHANGED client
        BY <2>1, <2>3 DEF WaitsWhileWaiting, client
    <2> QED BY <1>5, <2>2, <2>3 DEF Disconnect
<1> QED BY <1>2, <1>4, <1>5

(* Every other handler, and core, leave CoreClient alone.                  *)
LEMMA OthersLeaveClient ==
    ASSUME GateInv, WaitsWhileWaiting, NEW r \in Requests,
           Waiters(r) \/ CoreCreate(r) \/ CoreDelete(r) \/ Statistics(r)
    PROVE  UNCHANGED client /\ WaitsWhileWaiting'
<1>1. requests = [s \in Requests |-> requests[s]]
    BY DEF GateInv, Books, Functions
<1>2. UNCHANGED client
    BY DEF Waiters, Arrivals, Accept, RedirectReq, CreateReq, DeleteReq, StatsReq, BadRequest, Arrive,
           Hit, Return, Timeout, Append, CoreCreate, CoreDelete, Statistics
<1>3. \/ UNCHANGED requests
      \/ \E h : requests' = [requests EXCEPT ![r] = h] /\ (requests[r].pc # "waiting" \/ h.pc = requests[r].pc)
    <2>1. CASE Arrivals(r)
        BY <2>1 DEF Arrivals, Accept, RedirectReq, CreateReq, DeleteReq, StatsReq, BadRequest, Arrive, Handle
    <2>2. CASE Hit(r) \/ Return(r) \/ Timeout(r)
        BY <2>2 DEF Hit, Return, Timeout, Respond, Handle
    <2>3. CASE CoreDelete(r)
        BY <2>3 DEF CoreDelete, Handle
    <2>4. CASE Append(r) \/ CoreCreate(r) \/ Statistics(r)
        BY <2>4 DEF Append, CoreCreate, Statistics
    <2> QED BY <2>1, <2>2, <2>3, <2>4 DEF Waiters
<1>4. \A s \in Requests : requests'[s].pc # "waiting" => requests[s].pc # "waiting"
    BY <1>1, <1>3
<1> QED BY <1>2, <1>4 DEF WaitsWhileWaiting, client

LEMMA ClientStep ==
    ASSUME GateInv, WaitsWhileWaiting, [GateNext]_gateVars
    PROVE  ([Flight!Next]_client \/ Client!Init') /\ WaitsWhileWaiting'
<1>1. CASE Connect \/ NoConnection \/ Serve \/ Terminate \/ UNCHANGED gateVars
    BY <1>1 DEF Connect, NoConnection, Serve, Terminate, gateVars, client, WaitsWhileWaiting
<1>2. CASE Crash \/ Exit
    BY <1>2 DEF Crash, Exit, ProcessEnds, Client!Init, WaitsWhileWaiting
<1>3. ASSUME NEW r \in Requests, Handlers(r)
      PROVE  [Flight!Next]_client /\ WaitsWhileWaiting'
    <2>1. Waiters(r) \/ Miss(r) \/ GetAnswer(r) \/ Disconnect(r)
        BY <1>3, GatewayAssumption DEF Handlers, Waiters, Arrivals
    <2> QED BY <2>1, WaiterCallsClient, OthersLeaveClient
<1>4. ASSUME NEW r \in Requests, CoreCreate(r) \/ CoreDelete(r) \/ Statistics(r)
      PROVE  [Flight!Next]_client /\ WaitsWhileWaiting'
    BY <1>4, OthersLeaveClient
<1>5. ASSUME NEW f \in Flights, Tasks(f)
      PROVE  [Flight!Next]_client /\ WaitsWhileWaiting'
    <2>1. UNCHANGED <<requests, waits>>
        BY <1>5 DEF Tasks, Acquire, Answer, Unlist, Client!Acquire, Client!Answer, Client!Remove
    <2>2. Flight!Acquire(f) \/ Flight!Answer(f) \/ Flight!Remove(f)
        BY <1>5 DEF Tasks, Acquire, Answer, Unlist, Client!Acquire, Client!Answer, Client!Remove, Client!RemoveIf,
                    Flight!Acquire, Flight!Answer, Flight!Remove, Flight!RemoveIf
    <2> QED BY <2>1, <2>2 DEF Flight!Next, Flight!Progress, WaitsWhileWaiting
<1>6. CASE \/ \E f \in Flights : CoreGet(f)
           \/ \E l \in Links : Expire(l)
           \/ \E c \in Codes : Purge(c)
    BY <1>6 DEF CoreGet, Expire, Purge, client, WaitsWhileWaiting
<1> QED BY <1>1, <1>2, <1>3, <1>4, <1>5, <1>6 DEF GateNext, Backends

LEMMA FlightInvariant == GateSpec => []FlightInv
<1>1. GateInit => WaitsWhileWaiting /\ Client!Init
    BY DEF GateInit, Client!Init, WaitsWhileWaiting
<1> QED BY <1>1, GateInvariant, ClientStep, FlightStart, FlightStep, PTL DEF GateSpec

LEMMA FlightIsClient == Flight!Next => Client!Next
<1>1. ASSUME NEW f \in Flights, Flight!Progress(f)
      PROVE  Client!Progress(f)
    BY <1>1, Zenon DEF Flight!Progress, Flight!Acquire, Flight!Answer, Flight!Remove, Flight!RemoveIf, Flight!Stop, Flight!Fault,
                       Client!Progress, Client!Acquire, Client!Answer, Client!Remove, Client!RemoveIf, Client!Stop, Client!Fault
<1>2. ASSUME NEW r \in Requests, Flight!GetLink(r)
      PROVE  Client!GetLink(r)
    BY <1>2, Zenon DEF Flight!GetLink, Flight!Join, Flight!Start, Flight!Fresh,
                       Client!GetLink, Client!Join, Client!Start, Client!Fresh
<1>3. ASSUME NEW r \in Requests, Flight!Return(r) \/ Flight!Cancel(r)
      PROVE  Client!Return(r) \/ Client!Cancel(r)
    BY <1>3, Zenon DEF Flight!Return, Flight!Answered, Flight!Unavailable, Flight!Closed, Flight!RemoveIf, Flight!Cancel,
                       Client!Return, Client!Answered, Client!Unavailable, Client!Closed, Client!RemoveIf, Client!Cancel
<1> QED BY <1>1, <1>2, <1>3 DEF Flight!Next, Client!Next

(* Within one life of the process every step of the gateway's handlers and *)
(* tasks is a step CoreClient allows, and a new process starts it anew:    *)
(* the gateway asks once per redirect, and lets go of what it waits on.    *)
THEOREM GatewayDrivesClient == GateSpec => [][Client!Next \/ Client!Init']_client
<1>1. GateInit => WaitsWhileWaiting
    BY DEF GateInit, Client!Init, WaitsWhileWaiting
<1>2. GateInv /\ WaitsWhileWaiting /\ [GateNext]_gateVars => [Client!Next \/ Client!Init']_client /\ WaitsWhileWaiting'
    BY ClientStep, FlightIsClient
<1> QED BY <1>1, <1>2, GateInvariant, PTL DEF GateSpec

(* The gateway keeps the promise of its CoreClient: one task at most waits *)
(* or calls core for a code, whichever requests time out or disconnect,    *)
(* and however often the process starts again.                             *)
THEOREM GatewaySharesCalls == GateSpec => []Client!OneCallPerCode
<1>1. FlightInv => Client!OneCallPerCode
    BY DEF FlightInv, Flight!Reachable, Flight!Active, Client!OneCallPerCode
<1> QED BY <1>1, FlightInvariant, PTL

(* Every variable of the gateway keeps its type, through every crash and   *)
(* restart: no reply, status or link turns up where its handler does not   *)
(* expect it, and each permit is free or with one running call.            *)
THEOREM GateTypesHold == GateSpec => []GateTypeOK
<1> DEFINE Process ==
        /\ process \in {"connecting", "serving", "draining"} /\ ends \in 0 .. MaxEnds
        /\ process = "draining" => ends < MaxEnds
<1>1. GateSpec => []Process
    <2>1. GateInit => Process
        BY GatewayAssumption DEF GateInit
    <2>2. Process /\ [GateNext]_gateVars => Process'
        <3> SUFFICES ASSUME Process, [GateNext]_gateVars PROVE Process'
            OBVIOUS
        <3>1. ASSUME NEW r \in Requests, Handlers(r)
              PROVE  UNCHANGED <<process, ends>>
            BY <3>1 DEF Handlers, Accept, RedirectReq, CreateReq, DeleteReq, StatsReq, BadRequest, Arrive, Frame,
                        Hit, Miss, GetAnswer, Return, Timeout, Disconnect, Append
        <3>2. ASSUME Backends \/ \E f \in Flights : Tasks(f)
              PROVE  UNCHANGED <<process, ends>>
            BY <3>2 DEF Backends, CoreCreate, CoreDelete, Statistics, CoreGet, Expire, Purge,
                        Tasks, Acquire, Answer, Unlist, Frame
        <3>3. CASE Connect \/ NoConnection \/ Serve \/ Terminate \/ UNCHANGED gateVars
            BY <3>3 DEF Connect, NoConnection, Serve, Terminate, gateVars
        <3>4. CASE Crash \/ Exit
            BY <3>4, GatewayAssumption DEF Crash, Exit, ProcessEnds
        <3> QED BY <3>1, <3>2, <3>3, <3>4 DEF GateNext
    <2> QED BY <2>1, <2>2, PTL DEF GateSpec
<1>2. ASSUME FlightInv
      PROVE  Client!TypeOK
    <2>1. Client!Calling = Flight!Calling
        BY DEF Flight!Calling, Client!Calling
    <2>2. permits \in 0 .. MaxInFlight /\ permits = MaxInFlight - Client!Cardinality(Client!Calling)
        BY <1>2, <2>1, CardinalityAsClient DEF FlightInv, Flight!PermitsAddUp
    <2> QED BY <1>2, <2>2 DEF FlightInv, Flight!Shapes, Client!TypeOK
<1>3. ASSUME GateInv, FlightInv, RetryTypeOK, Process
      PROVE  GateTypeOK
    <2>1. requests \in [Requests -> HandlerType]
        BY <1>3 DEF GateInv, Books, Functions, Fine
    <2>2. calls \in [Requests -> {"none", "sent", "ok", "exists", "missing", "invalid", "error", "over"}]
        BY <1>3 DEF GateInv, Books, Functions, Fine, Replies
    <2>3. clicks \in [Requests -> {"none", "pending", "sent", "lost"}]
        BY <1>3 DEF GateInv, Books, Functions, Fine
    <2>4. found \in [Flights -> AnswerType]
        BY <1>3 DEF GateInv, Shared
    <2> QED BY <1>2, <1>3, <2>1, <2>2, <2>3, <2>4 DEF GateTypeOK, GateInv, Books, TableInv, HandlerType, AnswerType
<1> QED BY <1>1, <1>3, GateInvariant, FlightInvariant, GatewayRetriesKeepPace, PTL

=============================================================================
