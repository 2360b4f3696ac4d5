--------------------------- MODULE SnapshotMerge ---------------------------
(***************************************************************************)
(* merge_snapshot, statement by statement, on Postgres at READ COMMITTED,  *)
(* against another writer (whose advisory lock session broke, or ours did) *)
(* and against core, which creates and deletes links meanwhile.            *)
(*                                                                         *)
(* A statement waits for its row locks and then sees what is committed; a  *)
(* transaction keeps its locks until it ends, and its writes are seen by   *)
(* others from then on.  A row that does not exist cannot be locked by     *)
(* `for update`, but its insertion excludes other insertions of the key.   *)
(* Day rows hold at least 1, so that 0 stands for a row that is not there. *)
(***************************************************************************)
EXTENDS Integers, FiniteSets, Functions

CONSTANTS
    Writers,        \* analytics instances that merge: more than one after a lost lock
    Codes,
    Global,
    Days,
    MaxClicks       \* bound: clicks of a bucket

ASSUME ConstantsAssumption ==
    /\ Global \notin Codes /\ Writers \cap Codes = {}
    /\ IsFiniteSet(Days)
    /\ MaxClicks \in Nat

Keys == Codes \cup {Global}
Buckets == Keys \X Days
LinkBuckets == Codes \X Days
Zeros == [b \in Buckets |-> 0]

VARIABLES
    counts,     \* the stats hashes in Redis
    links,      \* short codes in table links
    daily,      \* tables global_daily_clicks and link_daily_clicks
    totals,     \* analytics_global.total_clicks and links.click_count
    deleting,   \* links whose delete statement has the row and waits for its days
    tx,         \* each writer's transaction
    disturbed   \* history: <<writer, key>> of transactions during which another
                \* merge was committed, or the link of the key was created

vars == <<counts, links, daily, totals, deleting, tx, disturbed>>

(* snap: the snapshot to merge; existing: what the selects for update      *)
(* found; new: the day rows written; present: the links the second upsert  *)
(* found; added: what the totals grow by.                                  *)
NoTx == [pc |-> "idle", held |-> {}, snap |-> Zeros, existing |-> Zeros, new |-> Zeros,
         present |-> {}, added |-> [k \in Keys |-> 0]]

Init ==
    /\ counts = Zeros /\ links = Codes /\ daily = Zeros
    /\ totals = [k \in Keys |-> 0] /\ deleting = {}
    /\ tx = [i \in Writers |-> NoTx] /\ disturbed = {}

-----------------------------------------------------------------------------
(* Row locks: "day" and "totals" rows exclude each other, "key" is the     *)
(* shared lock a foreign key takes on a link, excluded by its deletion.    *)

Max2(a, b) == IF a >= b THEN a ELSE b

InSnap(i, B) == {b \in B : tx[i].snap[b] > 0}
GlobalBuckets == {Global} \X Days
SnapCodes(i) == {b[1] : b \in InSnap(i, LinkBuckets)}
DayLocks(B) == {<<"day", b>> : b \in B}
Rows(B) == {b \in B : daily[b] > 0}

(* calculate_merge_delta                                                   *)
Committed_Incoming(i, b) == tx[i].snap[b]
Committed(i, b) == Max2(tx[i].existing[b], tx[i].snap[b])
AppliedDelta_Incoming(i, b) == tx[i].snap[b]
AppliedDelta_OfKnownRows(i, b) == IF tx[i].existing[b] > 0 THEN Committed(i, b) - tx[i].existing[b] ELSE 0
AppliedDelta(i, b) == Committed(i, b) - tx[i].existing[b]
DeltaOf(i, k) == SumFunctionOnSet([d \in Days |-> AppliedDelta(i, <<k, d>>)], {d \in Days : tx[i].snap[<<k, d>>] > 0})

(* The locks the next statement of a transaction needs.                    *)
Needs(i) ==
    CASE tx[i].pc = "global_read"   -> DayLocks(Rows(InSnap(i, GlobalBuckets)))
      [] tx[i].pc = "global_upsert" -> DayLocks(InSnap(i, GlobalBuckets))
      [] tx[i].pc = "global_total"  -> IF DeltaOf(i, Global) > 0 THEN {<<"totals", Global>>} ELSE {}
      [] tx[i].pc = "link_read"     -> DayLocks(Rows(InSnap(i, LinkBuckets)))
      [] tx[i].pc = "link_upsert"   ->
            LET B == {b \in InSnap(i, LinkBuckets) : b[1] \in links}
            IN  DayLocks(B) \cup {<<"key", b[1]>> : b \in B \ Rows(B)}
      [] tx[i].pc = "link_total"    -> {<<"totals", c>> : c \in SnapCodes(i) \cap links}
      [] OTHER -> {}

Blockers(i) ==
    {j \in Writers \ {i} : \E l \in Needs(i) \cap tx[j].held : l[1] # "key"}
    \cup {c \in deleting : <<"totals", c>> \in Needs(i) \/ <<"key", c>> \in Needs(i)}
DeleteBlockers(c) == {j \in Writers : \E d \in Days : <<"day", <<c, d>>>> \in tx[j].held}

(* Executes the next statement: takes its locks and leaves r behind.       *)
Statement(i, this, r) ==
    /\ tx[i].pc = this /\ Blockers(i) = {}
    /\ tx' = [tx EXCEPT ![i] = [r EXCEPT !.held = @ \cup Needs(i)]]
    /\ UNCHANGED <<counts, links, daily, totals, deleting, disturbed>>

-----------------------------------------------------------------------------
(* SnapshotRepoPg::merge_snapshot                                          *)

Begin(i) ==
    /\ tx[i].pc = "idle" /\ counts # Zeros
    /\ tx' = [tx EXCEPT ![i] = [NoTx EXCEPT !.pc = "global_read", !.snap = counts]]
    /\ disturbed' = disturbed \ ({i} \X Keys)
    /\ UNCHANGED <<counts, links, daily, totals, deleting>>

Read(i, B) == [b \in Buckets |-> IF b \in InSnap(i, B) THEN daily[b] ELSE tx[i].existing[b]]

(* on conflict do update set clicks = greatest(excluded.clicks, ...)       *)
OnConflict_Excluded(i, b) == Committed(i, b)
OnConflict(i, b) == Max2(Committed(i, b), daily[b])
Upsert(i, B) == [b \in Buckets |-> IF b \in InSnap(i, B) THEN OnConflict(i, b) ELSE tx[i].new[b]]

GlobalRead(i) ==
    Statement(i, "global_read", [tx[i] EXCEPT !.pc = "global_upsert", !.existing = Read(i, GlobalBuckets)])

GlobalUpsert(i) ==
    Statement(i, "global_upsert", [tx[i] EXCEPT !.pc = "global_total", !.new = Upsert(i, GlobalBuckets)])

GlobalTotal(i) ==
    Statement(i, "global_total", [tx[i] EXCEPT !.pc = "link_read", !.added[Global] = DeltaOf(i, Global)])

LinkRead(i) ==
    Statement(i, "link_read", [tx[i] EXCEPT !.pc = "link_upsert", !.existing = Read(i, LinkBuckets)])

(* where exists (select 1 from links ...)                                  *)
LinkUpsert(i) ==
    Statement(i, "link_upsert", [tx[i] EXCEPT !.pc = "link_total", !.present = links,
                                             !.new = Upsert(i, {b \in LinkBuckets : b[1] \in links})])

LinkTotal(i) ==
    Statement(i, "link_total",
        [tx[i] EXCEPT !.pc = "commit",
                      !.added = [k \in Keys |-> IF k \in SnapCodes(i) \cap links THEN DeltaOf(i, k) ELSE @[k]]])

Commit(i) ==
    /\ tx[i].pc = "commit"
    /\ daily' = [b \in Buckets |-> IF tx[i].new[b] > 0 THEN tx[i].new[b] ELSE daily[b]]
    /\ totals' = [k \in Keys |-> totals[k] + tx[i].added[k]]
    /\ tx' = [tx EXCEPT ![i] = NoTx]
    /\ disturbed' = disturbed \cup ((Writers \ {i}) \X Keys)
    /\ UNCHANGED <<counts, links, deleting>>

(* A statement fails: an error of the connection, a foreign key whose link *)
(* was deleted while the insertion waited, a deadlock.                     *)
Rollback(i) ==
    /\ tx[i].pc # "idle" /\ tx' = [tx EXCEPT ![i] = NoTx]
    /\ UNCHANGED <<counts, links, daily, totals, deleting, disturbed>>

-----------------------------------------------------------------------------
(* core: create_link, delete_link (its days go with it, on delete cascade) *)

CreateLink(c) ==
    /\ c \notin links
    /\ links' = links \cup {c} /\ totals' = [totals EXCEPT ![c] = 0]
    /\ disturbed' = disturbed \cup (Writers \X {c})
    /\ UNCHANGED <<counts, daily, deleting, tx>>

DeleteLink(c) ==
    /\ c \in links \ deleting
    /\ \A i \in Writers : tx[i].held \cap {<<"totals", c>>, <<"key", c>>} = {}
    /\ deleting' = deleting \cup {c}
    /\ UNCHANGED <<counts, links, daily, totals, tx, disturbed>>

Cascade_KeepsDays(c) ==
    /\ c \in deleting /\ DeleteBlockers(c) = {}
    /\ links' = links \ {c} /\ deleting' = deleting \ {c}
    /\ totals' = [totals EXCEPT ![c] = 0]
    /\ UNCHANGED <<counts, daily, tx, disturbed>>
Cascade(c) ==
    /\ c \in deleting /\ DeleteBlockers(c) = {}
    /\ links' = links \ {c} /\ deleting' = deleting \ {c}
    /\ daily' = [b \in Buckets |-> IF b[1] = c THEN 0 ELSE daily[b]]
    /\ totals' = [totals EXCEPT ![c] = 0]
    /\ UNCHANGED <<counts, tx, disturbed>>

(* The delete fails, possibly as the victim of a deadlock.                 *)
DeleteFails(c) ==
    /\ c \in deleting /\ deleting' = deleting \ {c}
    /\ UNCHANGED <<counts, links, daily, totals, tx, disturbed>>

(* RECORD_CLICK.  A deleted link may still be clicked on: its redirect is  *)
(* in the cache, or its clicks in the stream.                              *)
Click(c, d) ==
    /\ counts[<<Global, d>>] < MaxClicks
    /\ counts' = [counts EXCEPT ![<<Global, d>>] = @ + 1, ![<<c, d>>] = @ + 1]
    /\ UNCHANGED <<links, daily, totals, deleting, tx, disturbed>>

Merge(i) ==
    \/ GlobalRead(i) \/ GlobalUpsert(i) \/ GlobalTotal(i)
    \/ LinkRead(i) \/ LinkUpsert(i) \/ LinkTotal(i) \/ Commit(i)

Next ==
    \/ \E i \in Writers : Begin(i) \/ Merge(i) \/ Rollback(i)
    \/ \E c \in Codes : CreateLink(c) \/ DeleteLink(c) \/ Cascade(c) \/ DeleteFails(c)
    \/ \E c \in Codes, d \in Days : Click(c, d)

Spec == Init /\ [][Next]_vars

-----------------------------------------------------------------------------
PCs == {"idle", "global_read", "global_upsert", "global_total", "link_read", "link_upsert", "link_total", "commit"}
Locks == ({"day"} \X Buckets) \cup ({"totals"} \X Keys) \cup ({"key"} \X Codes)
Transactions == [pc : PCs, held : SUBSET Locks, snap : [Buckets -> Nat], existing : [Buckets -> Nat],
                 new : [Buckets -> Nat], present : SUBSET Codes, added : [Keys -> Nat]]

(* Every variable has its type; what a transaction adds is never negative. *)
TypeOK ==
    /\ counts \in [Buckets -> Nat] /\ daily \in [Buckets -> Nat] /\ totals \in [Keys -> Nat]
    /\ links \subseteq Codes /\ deleting \subseteq links
    /\ tx \in [Writers -> Transactions] /\ disturbed \subseteq Writers \X Keys

SumOfDays(k) == SumFunctionOnSet([d \in Days |-> daily[<<k, d>>]], Days)

(* A merge adds to the total of a link, and of all links, what it adds to  *)
(* the days, whatever is merged again and whichever links are deleted in   *)
(* the middle of it, unless another writer committed since it began or the *)
(* link was created since.                                                 *)
TotalsFollowDays ==
    [][\A i \in Writers : Commit(i) =>
         \A k \in links \cup {Global} :
            <<i, k>> \notin disturbed => totals'[k] - totals[k] = SumOfDays(k)' - SumOfDays(k)]_vars

(* Whoever merges and whatever comes back, a total is never behind its     *)
(* days: two first merges of a bucket both add their whole delta, and a    *)
(* link created between the upsert and the update gets its total early,    *)
(* but nothing is ever left out.                                           *)
TotalsNeverBehind == \A k \in links \cup {Global} : totals[k] >= SumOfDays(k)

(* The transaction does to the daily tables what the one-step merge of     *)
(* EventConsumer does, with the tables as they are when it commits, for    *)
(* all links that were there for its upsert: nothing another writer        *)
(* committed since the first select is lost.                               *)
CommitsAsOneStep ==
    [][\A i \in Writers : Commit(i) =>
         \A b \in Buckets : daily'[b] =
            IF b[1] \in tx[i].present \cup {Global} THEN Max2(daily[b], tx[i].snap[b]) ELSE daily[b]]_vars

=============================================================================
