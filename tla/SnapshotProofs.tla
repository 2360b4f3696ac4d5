--------------------------- MODULE SnapshotProofs ---------------------------
(***************************************************************************)
(* What concurrent merges do to the tables, and what a reader of the       *)
(* statistics sees of it, for any number of writers, links, days, clicks   *)
(* and readers.                                                            *)
(***************************************************************************)
EXTENDS AnalyticsApi, Sums

USE ConstantsAssumption

-----------------------------------------------------------------------------
(* Two transactions never hold the same row; a shared key may be.          *)
Exclusive ==
    \A i, j \in Writers : i # j => \A l \in tx[i].held \cap tx[j].held : l[1] = "key"

PastUpsert == {"global_total", "link_read", "link_upsert", "link_total", "commit"}
PastTotal == {"link_read", "link_upsert", "link_total", "commit"}
PastLinks == {"link_total", "commit"}

(* The day rows a transaction has written so far.                          *)
Written(i) ==
    {b \in InSnap(i, Buckets) : \/ b[1] = Global /\ tx[i].pc \in PastUpsert
                                \/ b[1] \in tx[i].present /\ tx[i].pc \in PastLinks}

(* What a transaction found is still there, or has grown.                  *)
Found(i) ==
    \A b \in Buckets : /\ tx[i].existing[b] <= daily[b]
                       /\ tx[i].existing[b] > 0 => <<"day", b>> \in tx[i].held

(* What it writes is what the rows hold when it commits, raised to the     *)
(* snapshot, and the links of these rows are there.                        *)
Wrote(i) ==
    \A b \in Buckets :
        /\ b \in Written(i) => <<"day", b>> \in tx[i].held /\ b[1] \in links \cup {Global}
        /\ tx[i].new[b] = IF b \in Written(i) THEN Max2(Committed(i, b), daily[b]) ELSE 0

(* It adds the delta of what it found to the totals.                       *)
Adds(i) ==
    /\ tx[i].pc \in PastTotal => tx[i].added[Global] = DeltaOf(i, Global)
    /\ \A c \in Codes :
        /\ tx[i].added[c] # 0 => tx[i].pc = "commit" /\ c \in SnapCodes(i)
        /\ tx[i].pc = "commit" /\ c \in SnapCodes(i) \cap tx[i].present => tx[i].added[c] = DeltaOf(i, c)

(* Links that are not there have no days.                                  *)
DaysOfLinks == \A b \in LinkBuckets : b[1] \notin links => daily[b] = 0

Merging ==
    /\ TypeOK /\ Exclusive /\ DaysOfLinks
    /\ \A i \in Writers : Found(i) /\ Wrote(i) /\ Adds(i)

(* What an undisturbed transaction has found is all there is, and it saw   *)
(* the link.                                                               *)
Undisturbed(i) ==
    \A k \in links \cup {Global} : <<i, k>> \notin disturbed =>
        /\ (IF k = Global THEN tx[i].pc \in {"global_upsert"} \cup PastUpsert
                          ELSE tx[i].pc \in {"link_upsert"} \cup PastLinks)
           => \A d \in Days : tx[i].snap[<<k, d>>] > 0 => tx[i].existing[<<k, d>>] = daily[<<k, d>>]
        /\ k # Global /\ tx[i].pc \in PastLinks => k \in tx[i].present

(* A reader that nobody has overtaken: the days are within the total it    *)
(* has read.                                                               *)
ReadTypeOK == reads \in [Readers -> [key : Keys \cup {"none"}, total : Nat, overtaken : BOOLEAN]]
WithinTotal == \A r \in Readers :
    reads[r].key \in Codes /\ ~reads[r].overtaken => SumOfDays(reads[r].key) <= reads[r].total

-----------------------------------------------------------------------------
(* Types.                                                                  *)

LEMMA BucketParts ==
    /\ \A b \in Buckets : b[1] \in Keys /\ b[2] \in Days /\ b = <<b[1], b[2]>>
    /\ \A k \in Keys, d \in Days : <<k, d>> \in Buckets
    /\ \A c \in Codes, d \in Days : <<c, d>> \in LinkBuckets /\ c # Global
    /\ \A b \in LinkBuckets : b \in Buckets /\ b[1] \in Codes /\ b[1] # Global /\ b \notin GlobalBuckets
    /\ \A b \in GlobalBuckets : b \in Buckets /\ b[1] = Global /\ b \notin LinkBuckets
    /\ \A b \in Buckets : b \in LinkBuckets \/ b \in GlobalBuckets
    /\ \A b \in Buckets : b[1] = Global => b \in GlobalBuckets
    /\ \A b \in Buckets : b[1] \in Codes => b \in LinkBuckets
BY DEF Buckets, LinkBuckets, GlobalBuckets, Keys

LEMMA DeltaIsNat ==
    ASSUME TypeOK, NEW i \in Writers, NEW k \in Keys
    PROVE  /\ \A d \in Days : AppliedDelta(i, <<k, d>>) \in Nat
           /\ DeltaOf(i, k) \in Nat
<1>1. tx[i].existing \in [Buckets -> Nat] /\ tx[i].snap \in [Buckets -> Nat]
    BY DEF TypeOK, Transactions
<1>2. \A d \in Days : AppliedDelta(i, <<k, d>>) \in Nat
    BY <1>1, BucketParts DEF AppliedDelta, Committed, Max2
<1> DEFINE f == [d \in Days |-> AppliedDelta(i, <<k, d>>)]
           S == {d \in Days : tx[i].snap[<<k, d>>] > 0}
<1>3. IsFiniteSet(S) /\ \A d \in S : f[d] \in Nat
    BY <1>2, FS_Subset
<1>4. SumFunctionOnSet(f, S) \in Nat
    <2> HIDE DEF f, S
    <2> QED BY <1>3, SumIsNat
<1> QED BY <1>2, <1>4 DEF DeltaOf

(* The deltas of a key depend on what the transaction knows of this key.   *)
LEMMA DeltaStays ==
    ASSUME TypeOK, TypeOK', NEW i \in Writers, NEW k \in Keys,
           \A d \in Days : /\ tx'[i].snap[<<k, d>>] = tx[i].snap[<<k, d>>]
                           /\ tx'[i].existing[<<k, d>>] = tx[i].existing[<<k, d>>]
    PROVE  DeltaOf(i, k)' = DeltaOf(i, k)
<1> DEFINE f == [d \in Days |-> AppliedDelta(i, <<k, d>>)]
           S == {d \in Days : tx[i].snap[<<k, d>>] > 0}
           g == [d \in Days |-> AppliedDelta(i, <<k, d>>)']
           T == {d \in Days : tx'[i].snap[<<k, d>>] > 0}
<1>1. f = g
    BY DEF AppliedDelta, Committed
<1>2. S = T
    OBVIOUS
<1>3. DeltaOf(i, k)' = SumFunctionOnSet(g, T)
    BY DEF DeltaOf
<1>4. DeltaOf(i, k) = SumFunctionOnSet(f, S)
    BY DEF DeltaOf
<1> QED
    <2> HIDE DEF f, g, S, T
    <2> QED BY <1>1, <1>2, <1>3, <1>4

LEMMA NeedsAreLocks ==
    ASSUME TypeOK, NEW i \in Writers
    PROVE  Needs(i) \subseteq Locks
<1>1. \A B \in SUBSET Buckets : DayLocks(B) \subseteq Locks
    BY DEF DayLocks, Locks
<1>2. InSnap(i, GlobalBuckets) \subseteq Buckets /\ InSnap(i, LinkBuckets) \subseteq Buckets
    BY BucketParts DEF InSnap
<1>3. SnapCodes(i) \subseteq Codes
    BY BucketParts DEF SnapCodes, InSnap
<1>4. \A b \in InSnap(i, LinkBuckets) : <<"key", b[1]>> \in Locks
    BY BucketParts DEF InSnap, Locks
<1>5. \A k \in Keys : <<"totals", k>> \in Locks
    BY DEF Locks
<1>6. Global \in Keys /\ Codes \subseteq Keys
    BY DEF Keys
<1>7. \A B \in SUBSET Buckets : Rows(B) \subseteq B
    BY DEF Rows
<1>8. DayLocks(Rows(InSnap(i, GlobalBuckets))) \subseteq Locks /\ DayLocks(Rows(InSnap(i, LinkBuckets))) \subseteq Locks
      /\ DayLocks(InSnap(i, GlobalBuckets)) \subseteq Locks
    BY <1>1, <1>2, <1>7
<1>9. ASSUME NEW B, B = {b \in InSnap(i, LinkBuckets) : b[1] \in links}
      PROVE  DayLocks(B) \cup {<<"key", b[1]>> : b \in B \ Rows(B)} \subseteq Locks
    <2>1. B \subseteq InSnap(i, LinkBuckets)
        BY <1>9
    <2> QED BY <1>1, <1>2, <1>4, <2>1
<1>10. {<<"totals", c>> : c \in SnapCodes(i) \cap links} \subseteq Locks
    BY <1>3, <1>5, <1>6
<1>11. (IF DeltaOf(i, Global) > 0 THEN {<<"totals", Global>>} ELSE {}) \subseteq Locks
    BY <1>5, <1>6
<1>a. DEFINE B == {b \in InSnap(i, LinkBuckets) : b[1] \in links}
<1>12. DayLocks(B) \cup {<<"key", b[1]>> : b \in B \ Rows(B)} \subseteq Locks
    BY <1>9
<1> HIDE DEF B
<1>13. CASE tx[i].pc = "link_upsert"
    BY <1>12, <1>13 DEF Needs, B
<1>14. CASE tx[i].pc # "link_upsert"
    BY <1>8, <1>10, <1>11, <1>14 DEF Needs
<1> QED BY <1>13, <1>14

-----------------------------------------------------------------------------
(* What a statement does.                                                  *)

LEMMA StatementEffect ==
    ASSUME TypeOK, NEW i \in Writers, NEW this \in PCs, NEW r \in Transactions, Statement(i, this, r)
    PROVE  /\ tx[i].pc = this
           /\ \A j \in Writers \ {i} : tx'[j] = tx[j]
           /\ tx'[i] = [r EXCEPT !.held = r.held \cup Needs(i)]
           /\ tx'[i] \in Transactions
           /\ tx' \in [Writers -> Transactions]
           /\ tx'[i].held = r.held \cup Needs(i)
           /\ \A j \in Writers \ {i} : \A l \in Needs(i) \cap tx[j].held : l[1] = "key"
           /\ <<counts, links, daily, totals, deleting, disturbed>>' = <<counts, links, daily, totals, deleting, disturbed>>
<1>1. Needs(i) \subseteq Locks
    BY NeedsAreLocks
<1> DEFINE s == [r EXCEPT !.held = r.held \cup Needs(i)]
<1>2. s \in Transactions
    BY <1>1 DEF Transactions
<1>3. tx' = [tx EXCEPT ![i] = s] /\ tx[i].pc = this /\ Blockers(i) = {}
      /\ <<counts, links, daily, totals, deleting, disturbed>>' = <<counts, links, daily, totals, deleting, disturbed>>
    BY DEF Statement
<1>4. tx \in [Writers -> Transactions]
    BY DEF TypeOK
<1>5. tx'[i] = s /\ \A j \in Writers \ {i} : tx'[j] = tx[j]
    BY <1>3, <1>4
<1>6. s.held = r.held \cup Needs(i)
    BY DEF Transactions
<1>7. \A j \in Writers \ {i} : \A l \in Needs(i) \cap tx[j].held : l[1] = "key"
    BY <1>3 DEF Blockers
<1>8. tx' \in [Writers -> Transactions]
    <2> HIDE DEF s
    <2> QED BY <1>2, <1>3, <1>4
<1> HIDE DEF s
<1> QED
    <2>1. tx'[i].held = r.held \cup Needs(i)
        BY <1>5, <1>6
    <2> QED BY <1>2, <1>3, <1>5, <1>7, <1>8, <2>1 DEF s

(* Whatever a statement leaves alone.                                      *)
Elsewhere(i) ==
    /\ \A j \in Writers \ {i} : tx'[j] = tx[j]
    /\ tx'[i] \in Transactions /\ tx' \in [Writers -> Transactions]
    /\ tx'[i].held = tx[i].held \cup Needs(i) /\ tx'[i].snap = tx[i].snap
    /\ \A j \in Writers \ {i} : \A l \in Needs(i) \cap tx[j].held : l[1] = "key"
    /\ <<counts, links, daily, totals, deleting, disturbed>>' = <<counts, links, daily, totals, deleting, disturbed>>

LEMMA StatementFields ==
    ASSUME TypeOK, NEW i \in Writers, NEW this \in PCs, NEW r \in Transactions, Statement(i, this, r),
           r.held = tx[i].held, r.snap = tx[i].snap
    PROVE  /\ tx[i].pc = this /\ Elsewhere(i)
           /\ tx'[i].pc = r.pc /\ tx'[i].existing = r.existing /\ tx'[i].new = r.new
           /\ tx'[i].present = r.present /\ tx'[i].added = r.added
<1>1. tx'[i] = [r EXCEPT !.held = r.held \cup Needs(i)]
    BY StatementEffect
<1>2. /\ tx'[i].pc = r.pc /\ tx'[i].snap = r.snap /\ tx'[i].existing = r.existing
      /\ tx'[i].new = r.new /\ tx'[i].present = r.present /\ tx'[i].added = r.added
    BY <1>1 DEF Transactions
<1>3. /\ tx[i].pc = this /\ tx'[i] \in Transactions /\ tx' \in [Writers -> Transactions]
      /\ \A j \in Writers \ {i} : tx'[j] = tx[j]
      /\ tx'[i].held = r.held \cup Needs(i)
      /\ <<counts, links, daily, totals, deleting, disturbed>>' = <<counts, links, daily, totals, deleting, disturbed>>
    BY StatementEffect
<1>4. \A j \in Writers \ {i} : \A l \in Needs(i) \cap tx[j].held : l[1] = "key"
    BY StatementEffect
<1>5. Elsewhere(i)
    BY <1>2, <1>3, <1>4 DEF Elsewhere
<1> QED BY <1>2, <1>3, <1>5

LEMMA ReadType ==
    ASSUME TypeOK, NEW i \in Writers, NEW B \in SUBSET Buckets
    PROVE  Read(i, B) \in [Buckets -> Nat] /\ Upsert(i, B) \in [Buckets -> Nat]
<1>1. tx[i].existing \in [Buckets -> Nat] /\ tx[i].snap \in [Buckets -> Nat] /\ tx[i].new \in [Buckets -> Nat]
      /\ daily \in [Buckets -> Nat]
    BY DEF TypeOK, Transactions
<1> QED BY <1>1 DEF Read, Upsert, OnConflict, Committed, Max2

LEMMA GlobalReadEffect ==
    ASSUME TypeOK, NEW i \in Writers, GlobalRead(i)
    PROVE  /\ tx[i].pc = "global_read" /\ Elsewhere(i) /\ tx'[i].pc = "global_upsert"
           /\ tx'[i].existing = Read(i, GlobalBuckets)
           /\ tx'[i].new = tx[i].new
           /\ tx'[i].present = tx[i].present
           /\ tx'[i].added = tx[i].added
<1> DEFINE x == Read(i, GlobalBuckets)
           r == [tx[i] EXCEPT !.pc = "global_upsert", !.existing = x]
<1>1. x \in [Buckets -> Nat]
    BY ReadType, BucketParts
<1> HIDE DEF x
<1>2. tx[i] \in Transactions /\ "global_read" \in PCs /\ "global_upsert" \in PCs
    BY DEF TypeOK, PCs
<1>3. r \in Transactions
    BY <1>1, <1>2 DEF Transactions
<1>4. Statement(i, "global_read", r)
    BY DEF GlobalRead, x
<1>5. /\ r.held = tx[i].held /\ r.snap = tx[i].snap /\ r.pc = "global_upsert"
      /\ r.existing = x /\ r.new = tx[i].new /\ r.present = tx[i].present /\ r.added = tx[i].added
    BY <1>2 DEF Transactions
<1> HIDE DEF r
<1> QED BY <1>2, <1>3, <1>4, <1>5, StatementFields DEF x

LEMMA GlobalUpsertEffect ==
    ASSUME TypeOK, NEW i \in Writers, GlobalUpsert(i)
    PROVE  /\ tx[i].pc = "global_upsert" /\ Elsewhere(i) /\ tx'[i].pc = "global_total"
           /\ tx'[i].existing = tx[i].existing
           /\ tx'[i].new = Upsert(i, GlobalBuckets)
           /\ tx'[i].present = tx[i].present
           /\ tx'[i].added = tx[i].added
<1> DEFINE x == Upsert(i, GlobalBuckets)
           r == [tx[i] EXCEPT !.pc = "global_total", !.new = x]
<1>1. x \in [Buckets -> Nat]
    BY ReadType, BucketParts
<1> HIDE DEF x
<1>2. tx[i] \in Transactions /\ "global_upsert" \in PCs /\ "global_total" \in PCs
    BY DEF TypeOK, PCs
<1>3. r \in Transactions
    BY <1>1, <1>2 DEF Transactions
<1>4. Statement(i, "global_upsert", r)
    BY DEF GlobalUpsert, x
<1>5. /\ r.held = tx[i].held /\ r.snap = tx[i].snap /\ r.pc = "global_total"
      /\ r.existing = tx[i].existing /\ r.new = x /\ r.present = tx[i].present /\ r.added = tx[i].added
    BY <1>2 DEF Transactions
<1> HIDE DEF r
<1> QED BY <1>2, <1>3, <1>4, <1>5, StatementFields DEF x

LEMMA GlobalTotalEffect ==
    ASSUME TypeOK, NEW i \in Writers, GlobalTotal(i)
    PROVE  /\ tx[i].pc = "global_total" /\ Elsewhere(i) /\ tx'[i].pc = "link_read"
           /\ tx'[i].existing = tx[i].existing
           /\ tx'[i].new = tx[i].new
           /\ tx'[i].present = tx[i].present
           /\ tx'[i].added = [tx[i].added EXCEPT ![Global] = DeltaOf(i, Global)]
<1> DEFINE x == [tx[i].added EXCEPT ![Global] = DeltaOf(i, Global)]
           r == [tx[i] EXCEPT !.pc = "link_read", !.added = x]
<1>1. x \in [Keys -> Nat]
    BY DeltaIsNat DEF TypeOK, Transactions, Keys
<1> HIDE DEF x
<1>2. tx[i] \in Transactions /\ "global_total" \in PCs /\ "link_read" \in PCs
    BY DEF TypeOK, PCs
<1>3. r \in Transactions
    BY <1>1, <1>2 DEF Transactions
<1>4. Statement(i, "global_total", r)
    BY DEF GlobalTotal, x
<1>5. /\ r.held = tx[i].held /\ r.snap = tx[i].snap /\ r.pc = "link_read"
      /\ r.existing = tx[i].existing /\ r.new = tx[i].new /\ r.present = tx[i].present /\ r.added = x
    BY <1>2 DEF Transactions
<1> HIDE DEF r
<1> QED BY <1>2, <1>3, <1>4, <1>5, StatementFields DEF x

LEMMA LinkReadEffect ==
    ASSUME TypeOK, NEW i \in Writers, LinkRead(i)
    PROVE  /\ tx[i].pc = "link_read" /\ Elsewhere(i) /\ tx'[i].pc = "link_upsert"
           /\ tx'[i].existing = Read(i, LinkBuckets)
           /\ tx'[i].new = tx[i].new
           /\ tx'[i].present = tx[i].present
           /\ tx'[i].added = tx[i].added
<1> DEFINE x == Read(i, LinkBuckets)
           r == [tx[i] EXCEPT !.pc = "link_upsert", !.existing = x]
<1>1. x \in [Buckets -> Nat]
    BY ReadType, BucketParts
<1> HIDE DEF x
<1>2. tx[i] \in Transactions /\ "link_read" \in PCs /\ "link_upsert" \in PCs
    BY DEF TypeOK, PCs
<1>3. r \in Transactions
    BY <1>1, <1>2 DEF Transactions
<1>4. Statement(i, "link_read", r)
    BY DEF LinkRead, x
<1>5. /\ r.held = tx[i].held /\ r.snap = tx[i].snap /\ r.pc = "link_upsert"
      /\ r.existing = x /\ r.new = tx[i].new /\ r.present = tx[i].present /\ r.added = tx[i].added
    BY <1>2 DEF Transactions
<1> HIDE DEF r
<1> QED BY <1>2, <1>3, <1>4, <1>5, StatementFields DEF x

LEMMA LinkUpsertEffect ==
    ASSUME TypeOK, NEW i \in Writers, LinkUpsert(i)
    PROVE  /\ tx[i].pc = "link_upsert" /\ Elsewhere(i) /\ tx'[i].pc = "link_total"
           /\ tx'[i].existing = tx[i].existing
           /\ tx'[i].new = Upsert(i, {b \in LinkBuckets : b[1] \in links})
           /\ tx'[i].present = links
           /\ tx'[i].added = tx[i].added
<1> DEFINE x == links
           y == Upsert(i, {b \in LinkBuckets : b[1] \in links})
           r == [tx[i] EXCEPT !.pc = "link_total", !.present = x, !.new = y]
<1>1. x \in SUBSET Codes /\ y \in [Buckets -> Nat]
    BY ReadType, BucketParts DEF TypeOK
<1> HIDE DEF x, y
<1>2. tx[i] \in Transactions /\ "link_upsert" \in PCs /\ "link_total" \in PCs
    BY DEF TypeOK, PCs
<1>3. r \in Transactions
    BY <1>1, <1>2 DEF Transactions
<1>4. Statement(i, "link_upsert", r)
    BY DEF LinkUpsert, x, y
<1>5. /\ r.held = tx[i].held /\ r.snap = tx[i].snap /\ r.pc = "link_total"
      /\ r.existing = tx[i].existing /\ r.new = y /\ r.present = x /\ r.added = tx[i].added
    BY <1>2 DEF Transactions
<1> HIDE DEF r
<1> QED BY <1>2, <1>3, <1>4, <1>5, StatementFields DEF x, y

LEMMA LinkTotalEffect ==
    ASSUME TypeOK, NEW i \in Writers, LinkTotal(i)
    PROVE  /\ tx[i].pc = "link_total" /\ Elsewhere(i) /\ tx'[i].pc = "commit"
           /\ tx'[i].existing = tx[i].existing
           /\ tx'[i].new = tx[i].new
           /\ tx'[i].present = tx[i].present
           /\ tx'[i].added = [k \in Keys |-> IF k \in SnapCodes(i) \cap links THEN DeltaOf(i, k) ELSE tx[i].added[k]]
<1> DEFINE x == [k \in Keys |-> IF k \in SnapCodes(i) \cap links THEN DeltaOf(i, k) ELSE tx[i].added[k]]
           r == [tx[i] EXCEPT !.pc = "commit", !.added = x]
<1>1. x \in [Keys -> Nat]
    <2>1. \A k \in Keys : DeltaOf(i, k) \in Nat
        BY DeltaIsNat
    <2>2. tx[i].added \in [Keys -> Nat]
        BY DEF TypeOK, Transactions
    <2> QED BY <2>1, <2>2
<1> HIDE DEF x
<1>2. tx[i] \in Transactions /\ "link_total" \in PCs /\ "commit" \in PCs
    BY DEF TypeOK, PCs
<1>3. r \in Transactions
    BY <1>1, <1>2 DEF Transactions
<1>4. Statement(i, "link_total", r)
    BY DEF LinkTotal, x
<1>5. /\ r.held = tx[i].held /\ r.snap = tx[i].snap /\ r.pc = "commit"
      /\ r.existing = tx[i].existing /\ r.new = tx[i].new /\ r.present = tx[i].present /\ r.added = x
    BY <1>2 DEF Transactions
<1> HIDE DEF r
<1> QED BY <1>2, <1>3, <1>4, <1>5, StatementFields DEF x

LEMMA NoTxType == NoTx \in Transactions /\ NoTx.pc = "idle" /\ NoTx.held = {}
                  /\ NoTx.snap = Zeros /\ NoTx.existing = Zeros /\ NoTx.new = Zeros
                  /\ NoTx.present = {} /\ NoTx.added = [k \in Keys |-> 0]
BY DEF NoTx, Transactions, PCs, Zeros, Locks

(* A transaction ends.                                                     *)
Ends(i) == tx'[i] = NoTx /\ \A j \in Writers \ {i} : tx'[j] = tx[j]

LEMMA BeginEffect ==
    ASSUME TypeOK, NEW i \in Writers, Begin(i)
    PROVE  /\ tx[i].pc = "idle" /\ tx'[i] \in Transactions /\ tx' \in [Writers -> Transactions]
           /\ \A j \in Writers \ {i} : tx'[j] = tx[j]
           /\ tx'[i].pc = "global_read" /\ tx'[i].held = {} /\ tx'[i].snap = counts
           /\ tx'[i].existing = Zeros /\ tx'[i].new = Zeros /\ tx'[i].present = {}
           /\ tx'[i].added = [k \in Keys |-> 0]
<1> DEFINE r == [NoTx EXCEPT !.pc = "global_read", !.snap = counts]
<1>1. /\ r \in Transactions /\ r.pc = "global_read" /\ r.held = {} /\ r.snap = counts
      /\ r.existing = Zeros /\ r.new = Zeros /\ r.present = {} /\ r.added = [k \in Keys |-> 0]
    BY NoTxType DEF TypeOK, Transactions, PCs
<1>2. tx' = [tx EXCEPT ![i] = r] /\ tx[i].pc = "idle" /\ tx \in [Writers -> Transactions]
    BY DEF Begin, TypeOK
<1> HIDE DEF r
<1>3. tx'[i] = r /\ (\A j \in Writers \ {i} : tx'[j] = tx[j]) /\ tx' \in [Writers -> Transactions]
    BY <1>1, <1>2
<1> QED BY <1>1, <1>2, <1>3

LEMMA EndEffect ==
    ASSUME TypeOK, NEW i \in Writers, tx' = [tx EXCEPT ![i] = NoTx]
    PROVE  Ends(i) /\ tx' \in [Writers -> Transactions]
<1>1. tx \in [Writers -> Transactions]
    BY DEF TypeOK
<1> QED BY <1>1, NoTxType DEF Ends

LEMMA MergeKinds ==
    ASSUME NEW i \in Writers, Merge(i), ~Commit(i), TypeOK
    PROVE  Elsewhere(i)
BY GlobalReadEffect, GlobalUpsertEffect, GlobalTotalEffect, LinkReadEffect, LinkUpsertEffect, LinkTotalEffect
   DEF Merge

LEMMA TypeInit == Init => TypeOK
<1>1. SUFFICES ASSUME Init PROVE TypeOK
    OBVIOUS
<1>2. Zeros \in [Buckets -> Nat] /\ [k \in Keys |-> 0] \in [Keys -> Nat]
    BY DEF Zeros
<1> QED BY <1>1, <1>2, NoTxType DEF Init, TypeOK

LEMMA TypeNext == TypeOK /\ [Next]_vars => TypeOK'
<1>1. SUFFICES ASSUME TypeOK, [Next]_vars PROVE TypeOK'
    OBVIOUS
<1> USE <1>1
<1> DEFINE Others == <<counts, links, daily, totals, deleting>>' = <<counts, links, daily, totals, deleting>>
<1>2. ASSUME NEW i \in Writers, Begin(i) PROVE TypeOK'
    BY <1>2, BeginEffect DEF Begin, TypeOK
<1>3. ASSUME NEW i \in Writers, Rollback(i) PROVE TypeOK'
    BY <1>3, EndEffect DEF Rollback, TypeOK
<1>4. ASSUME NEW i \in Writers, Commit(i) PROVE TypeOK'
    <2>1. tx' \in [Writers -> Transactions]
        BY <1>4, EndEffect DEF Commit
    <2>2. tx[i].new \in [Buckets -> Nat] /\ tx[i].added \in [Keys -> Nat]
        BY DEF TypeOK, Transactions
    <2>3. daily' \in [Buckets -> Nat] /\ totals' \in [Keys -> Nat]
        BY <1>4, <2>2 DEF Commit, TypeOK
    <2> QED BY <1>4, <2>1, <2>3 DEF Commit, TypeOK
<1>5. ASSUME NEW i \in Writers, Merge(i), ~Commit(i) PROVE TypeOK'
    BY <1>5, MergeKinds DEF Elsewhere, TypeOK
<1>6. ASSUME NEW c \in Codes, CreateLink(c) PROVE TypeOK'
    BY <1>6 DEF CreateLink, TypeOK, Keys
<1>7. ASSUME NEW c \in Codes, DeleteLink(c) PROVE TypeOK'
    BY <1>7 DEF DeleteLink, TypeOK
<1>8. ASSUME NEW c \in Codes, Cascade(c) PROVE TypeOK'
    BY <1>8 DEF Cascade, TypeOK, Keys
<1>9. ASSUME NEW c \in Codes, DeleteFails(c) PROVE TypeOK'
    BY <1>9 DEF DeleteFails, TypeOK
<1>10. ASSUME NEW c \in Codes, NEW d \in Days, Click(c, d) PROVE TypeOK'
    <2>1. counts' \in [Buckets -> Nat]
        <3>1. counts \in [Buckets -> Nat] /\ <<Global, d>> \in Buckets /\ <<c, d>> \in Buckets
            BY BucketParts DEF TypeOK, Keys
        <3>2. \A a, b \in Buckets : [counts EXCEPT ![a] = @ + 1, ![b] = @ + 1] \in [Buckets -> Nat]
            BY <3>1
        <3> QED BY <1>10, <3>1, <3>2 DEF Click
    <2> QED BY <1>10, <2>1 DEF Click, TypeOK
<1>11. CASE UNCHANGED vars
    BY <1>11 DEF vars, TypeOK
<1> QED BY <1>2, <1>3, <1>4, <1>5, <1>6, <1>7, <1>8, <1>9, <1>10, <1>11 DEF Next

(* Every variable of a concurrent merge has its type: what a transaction   *)
(* adds to a total is never negative.                                      *)
THEOREM TypesHold == Spec => []TypeOK
BY TypeInit, TypeNext, PTL DEF Spec

-----------------------------------------------------------------------------
(* The locks protect what a transaction has found and will write.          *)

LEMMA TxParts ==
    ASSUME TypeOK, NEW i \in Writers
    PROVE  /\ tx[i].existing \in [Buckets -> Nat] /\ tx[i].snap \in [Buckets -> Nat]
           /\ tx[i].new \in [Buckets -> Nat] /\ tx[i].added \in [Keys -> Nat]
           /\ tx[i].present \subseteq Codes /\ tx[i].pc \in PCs /\ tx[i].held \subseteq Locks
           /\ SnapCodes(i) \subseteq Codes
           /\ \A c \in Codes : c \in SnapCodes(i) <=> \E d \in Days : tx[i].snap[<<c, d>>] > 0
           /\ Written(i) \subseteq Buckets /\ \A b \in Written(i) : tx[i].snap[b] > 0
<1>1. /\ tx[i].existing \in [Buckets -> Nat] /\ tx[i].snap \in [Buckets -> Nat]
      /\ tx[i].new \in [Buckets -> Nat] /\ tx[i].added \in [Keys -> Nat]
      /\ tx[i].present \subseteq Codes /\ tx[i].pc \in PCs /\ tx[i].held \subseteq Locks
    BY DEF TypeOK, Transactions
<1>2. SnapCodes(i) \subseteq Codes
    BY BucketParts DEF SnapCodes, InSnap
<1>3. ASSUME NEW c \in Codes PROVE c \in SnapCodes(i) <=> \E d \in Days : tx[i].snap[<<c, d>>] > 0
    <2>1. ASSUME c \in SnapCodes(i) PROVE \E d \in Days : tx[i].snap[<<c, d>>] > 0
        <3>1. PICK b \in InSnap(i, LinkBuckets) : c = b[1]
            BY <2>1 DEF SnapCodes
        <3>2. b = <<c, b[2]>> /\ b[2] \in Days /\ tx[i].snap[b] > 0
            BY <3>1 DEF InSnap, LinkBuckets
        <3> QED BY <3>2
    <2>2. ASSUME NEW d \in Days, tx[i].snap[<<c, d>>] > 0 PROVE c \in SnapCodes(i)
        <3>1. <<c, d>> \in InSnap(i, LinkBuckets)
            BY <2>2, BucketParts DEF InSnap
        <3>2. <<c, d>>[1] = c
            OBVIOUS
        <3> QED BY <3>1, <3>2 DEF SnapCodes
    <2> QED BY <2>1, <2>2
<1>4. Written(i) \subseteq Buckets /\ \A b \in Written(i) : tx[i].snap[b] > 0
    BY DEF Written, InSnap
<1> QED BY <1>1, <1>2, <1>3, <1>4

(* A step that does not touch the days a transaction has locked, nor their *)
(* links, leaves it as well prepared as it was.                            *)
LEMMA LocksProtect ==
    ASSUME Merging, TypeOK', NEW j \in Writers, tx'[j] = tx[j],
           \A b \in Buckets : <<"day", b>> \in tx[j].held =>
                daily'[b] = daily[b] /\ (b[1] \in links => b[1] \in links')
    PROVE  Found(j)' /\ Wrote(j)' /\ Adds(j)'
<1>1. TypeOK /\ Found(j) /\ Wrote(j) /\ Adds(j)
    BY DEF Merging
<1>2. Written(j)' = Written(j) /\ SnapCodes(j)' = SnapCodes(j)
    BY DEF Written, InSnap, SnapCodes
<1>3. Found(j)'
    <2>1. ASSUME NEW b \in Buckets PROVE tx[j].existing[b] <= daily'[b]
        <3>1. tx[j].existing[b] \in Nat /\ daily'[b] \in Nat
            BY <1>1, TxParts DEF TypeOK
        <3>2. CASE tx[j].existing[b] > 0
            BY <1>1, <3>2 DEF Found
        <3> QED BY <3>1, <3>2
    <2> QED BY <1>1, <2>1 DEF Found
<1>4. Wrote(j)'
    <2>1. ASSUME NEW b \in Buckets, b \in Written(j)
          PROVE  Max2(Committed(j, b), daily[b])' = Max2(Committed(j, b), daily[b])
        BY <1>1, <2>1 DEF Wrote, Committed
    <2> QED BY <1>1, <1>2, <2>1 DEF Wrote
<1>5. Adds(j)'
    <2>1. \A k \in Keys : DeltaOf(j, k)' = DeltaOf(j, k)
        BY <1>1, DeltaStays
    <2> QED BY <1>1, <1>2, <2>1 DEF Adds, Keys
<1> QED BY <1>3, <1>4, <1>5

LEMMA FreshIsPrepared ==
    ASSUME TypeOK', NEW j \in Writers, (tx[j].pc \in {"idle", "global_read"})',
           tx'[j].existing = Zeros, tx'[j].new = Zeros, tx'[j].added = [k \in Keys |-> 0]
    PROVE  Found(j)' /\ Wrote(j)' /\ Adds(j)'
<1>1. Written(j)' = {}
    BY DEF Written, PastUpsert, PastLinks
<1>2. Found(j)' /\ Wrote(j)'
    BY <1>1 DEF Found, Wrote, Zeros, TypeOK
<1>3. Adds(j)'
    BY DEF Adds, PastTotal, Keys
<1> QED BY <1>2, <1>3

LEMMA MergingInit == Init => Merging
<1>1. SUFFICES ASSUME Init PROVE Merging
    OBVIOUS
<1>2. TypeOK
    BY <1>1, TypeInit
<1>3. Exclusive
    BY <1>1, NoTxType DEF Init, Exclusive
<1>4. DaysOfLinks
    BY <1>1 DEF Init, DaysOfLinks, Zeros, LinkBuckets
<1>5. ASSUME NEW j \in Writers PROVE Found(j) /\ Wrote(j) /\ Adds(j)
    <2>1. tx[j] = NoTx /\ daily = Zeros
        BY <1>1 DEF Init
    <2>2. Written(j) = {}
        BY <2>1, NoTxType DEF Written, PastUpsert, PastLinks
    <2>3. Found(j) /\ Wrote(j)
        BY <2>1, <2>2, NoTxType DEF Found, Wrote, Zeros
    <2>4. Adds(j)
        BY <2>1, NoTxType DEF Adds, PastTotal, Keys
    <2> QED BY <2>3, <2>4
<1> QED BY <1>2, <1>3, <1>4, <1>5 DEF Merging

-----------------------------------------------------------------------------
(* The steps of a transaction before its commit.                           *)

LEMMA StatementKeepsOthers ==
    ASSUME Merging, TypeOK', NEW i \in Writers, Elsewhere(i)
    PROVE  /\ Exclusive' /\ DaysOfLinks'
           /\ \A j \in Writers \ {i} : Found(j)' /\ Wrote(j)' /\ Adds(j)'
           /\ Merging' <=> Found(i)' /\ Wrote(i)' /\ Adds(i)'
<1>1. Exclusive'
    BY DEF Merging, Exclusive, Elsewhere
<1>2. DaysOfLinks'
    BY DEF Merging, DaysOfLinks, Elsewhere
<1>3. ASSUME NEW j \in Writers \ {i} PROVE Found(j)' /\ Wrote(j)' /\ Adds(j)'
    BY LocksProtect DEF Elsewhere
<1> QED BY <1>1, <1>2, <1>3 DEF Merging

LEMMA WroteStays ==
    ASSUME NEW i \in Writers, Wrote(i), Written(i)' = Written(i), daily' = daily, links' = links,
           tx'[i].new = tx[i].new, tx[i].held \subseteq tx'[i].held,
           \A b \in Written(i) : Committed(i, b)' = Committed(i, b)
    PROVE  Wrote(i)'
<1>1. ASSUME NEW b \in Buckets
      PROVE  /\ b \in Written(i) => <<"day", b>> \in tx'[i].held /\ b[1] \in links \cup {Global}
             /\ tx'[i].new[b] = IF b \in Written(i) THEN Max2(Committed(i, b), daily[b]) ELSE 0
    BY DEF Wrote
<1>2. ASSUME NEW b \in Buckets
      PROVE  (IF b \in Written(i) THEN Max2(Committed(i, b), daily[b]) ELSE 0)'
             = IF b \in Written(i) THEN Max2(Committed(i, b), daily[b]) ELSE 0
    OBVIOUS
<1> QED BY <1>1, <1>2 DEF Wrote

LEMMA GlobalReadMerging ==
    ASSUME Merging, TypeOK', NEW i \in Writers, GlobalRead(i)
    PROVE  Merging'
<1> USE DEF Merging
<1>1. /\ tx[i].pc = "global_read" /\ Elsewhere(i) /\ tx'[i].pc = "global_upsert"
      /\ tx'[i].existing = Read(i, GlobalBuckets) /\ tx'[i].new = tx[i].new
      /\ tx'[i].present = tx[i].present /\ tx'[i].added = tx[i].added
      /\ daily' = daily /\ links' = links /\ tx'[i].held = tx[i].held \cup Needs(i)
      /\ tx'[i].snap = tx[i].snap
    BY GlobalReadEffect DEF Elsewhere
<1>2. Found(i)'
    <2>1. DayLocks(Rows(InSnap(i, GlobalBuckets))) \subseteq tx'[i].held
        BY <1>1 DEF Needs
    <2>2. ASSUME NEW b \in Buckets
          PROVE  tx'[i].existing[b] <= daily[b] /\ (tx'[i].existing[b] > 0 => <<"day", b>> \in tx'[i].held)
        <3>1. CASE b \in InSnap(i, GlobalBuckets)
            BY <1>1, <2>1, <3>1 DEF Read, TypeOK, DayLocks, Rows
        <3>2. CASE b \notin InSnap(i, GlobalBuckets)
            BY <1>1, <3>2 DEF Read, Found
        <3> QED BY <3>1, <3>2
    <2> QED BY <1>1, <2>2 DEF Found
<1>3. Written(i)' = {} /\ Written(i) = {}
    BY <1>1 DEF Written, PastUpsert, PastLinks
<1>4. Wrote(i)'
    BY <1>1, <1>3 DEF Wrote
<1>5. Adds(i)'
    BY <1>1 DEF Adds, PastTotal
<1> QED BY <1>1, <1>2, <1>4, <1>5, StatementKeepsOthers

LEMMA GlobalUpsertMerging ==
    ASSUME Merging, TypeOK', NEW i \in Writers, GlobalUpsert(i)
    PROVE  Merging'
<1> USE DEF Merging
<1>1. /\ tx[i].pc = "global_upsert" /\ Elsewhere(i) /\ tx'[i].pc = "global_total"
      /\ tx'[i].existing = tx[i].existing /\ tx'[i].new = Upsert(i, GlobalBuckets)
      /\ tx'[i].present = tx[i].present /\ tx'[i].added = tx[i].added
      /\ daily' = daily /\ links' = links /\ tx'[i].held = tx[i].held \cup Needs(i)
      /\ tx'[i].snap = tx[i].snap
    BY GlobalUpsertEffect DEF Elsewhere
<1>2. Found(i)'
    BY <1>1 DEF Found
<1>3. Written(i)' = InSnap(i, GlobalBuckets) /\ Written(i) = {}
    BY <1>1, BucketParts DEF Written, InSnap, PastUpsert, PastLinks
<1>4. DayLocks(InSnap(i, GlobalBuckets)) \subseteq tx'[i].held
    BY <1>1 DEF Needs
<1>5. \A b \in Buckets : Committed(i, b)' = Committed(i, b)
    BY <1>1 DEF Committed
<1>6. ASSUME NEW b \in Buckets, b \in InSnap(i, GlobalBuckets)
      PROVE  /\ <<"day", b>> \in tx'[i].held /\ b[1] \in links \cup {Global}
             /\ tx'[i].new[b] = Max2(Committed(i, b), daily[b])
    BY <1>1, <1>4, <1>6, BucketParts DEF Upsert, OnConflict, DayLocks, InSnap
<1>7. ASSUME NEW b \in Buckets, b \notin InSnap(i, GlobalBuckets)
      PROVE  tx'[i].new[b] = 0
    BY <1>1, <1>3, <1>7 DEF Upsert, Wrote
<1>8. Wrote(i)'
    BY <1>1, <1>3, <1>5, <1>6, <1>7 DEF Wrote
<1>9. Adds(i)'
    BY <1>1 DEF Adds, PastTotal
<1> QED BY <1>1, <1>2, <1>8, <1>9, StatementKeepsOthers

LEMMA GlobalTotalMerging ==
    ASSUME Merging, TypeOK', NEW i \in Writers, GlobalTotal(i)
    PROVE  Merging'
<1> USE DEF Merging
<1>1. /\ tx[i].pc = "global_total" /\ Elsewhere(i) /\ tx'[i].pc = "link_read"
      /\ tx'[i].existing = tx[i].existing /\ tx'[i].new = tx[i].new
      /\ tx'[i].present = tx[i].present
      /\ tx'[i].added = [tx[i].added EXCEPT ![Global] = DeltaOf(i, Global)]
      /\ daily' = daily /\ links' = links /\ tx'[i].held = tx[i].held \cup Needs(i)
      /\ tx'[i].snap = tx[i].snap
    BY GlobalTotalEffect DEF Elsewhere
<1>2. Found(i)'
    BY <1>1 DEF Found
<1>3. Written(i)' = Written(i)
    BY <1>1 DEF Written, InSnap, PastUpsert, PastLinks
<1>4. \A b \in Buckets : Committed(i, b)' = Committed(i, b)
    BY <1>1 DEF Committed
<1>5. Wrote(i)'
    BY <1>1, <1>3, <1>4, TxParts, WroteStays
<1>6. DeltaOf(i, Global)' = DeltaOf(i, Global)
    BY <1>1, DeltaStays DEF Keys
<1>7. tx'[i].added[Global] = DeltaOf(i, Global) /\ \A c \in Codes : tx'[i].added[c] = tx[i].added[c]
    BY <1>1, TxParts DEF Keys
<1>8. Adds(i)'
    BY <1>1, <1>6, <1>7 DEF Adds
<1> QED BY <1>1, <1>2, <1>5, <1>8, StatementKeepsOthers

LEMMA LinkReadMerging ==
    ASSUME Merging, TypeOK', NEW i \in Writers, LinkRead(i)
    PROVE  Merging'
<1> USE DEF Merging
<1>1. /\ tx[i].pc = "link_read" /\ Elsewhere(i) /\ tx'[i].pc = "link_upsert"
      /\ tx'[i].existing = Read(i, LinkBuckets) /\ tx'[i].new = tx[i].new
      /\ tx'[i].present = tx[i].present /\ tx'[i].added = tx[i].added
      /\ daily' = daily /\ links' = links /\ tx'[i].held = tx[i].held \cup Needs(i)
      /\ tx'[i].snap = tx[i].snap
    BY LinkReadEffect DEF Elsewhere
<1>2. Found(i)'
    <2>1. DayLocks(Rows(InSnap(i, LinkBuckets))) \subseteq tx'[i].held
        BY <1>1 DEF Needs
    <2>2. ASSUME NEW b \in Buckets
          PROVE  tx'[i].existing[b] <= daily[b] /\ (tx'[i].existing[b] > 0 => <<"day", b>> \in tx'[i].held)
        <3>1. CASE b \in InSnap(i, LinkBuckets)
            BY <1>1, <2>1, <3>1 DEF Read, TypeOK, DayLocks, Rows
        <3>2. CASE b \notin InSnap(i, LinkBuckets)
            BY <1>1, <3>2 DEF Read, Found
        <3> QED BY <3>1, <3>2
    <2> QED BY <1>1, <2>2 DEF Found
<1>3. Written(i)' = Written(i) /\ \A b \in Written(i) : b \in Buckets /\ b[1] = Global
    BY <1>1 DEF Written, InSnap, PastUpsert, PastLinks
<1>4. \A b \in Written(i) : Committed(i, b)' = Committed(i, b)
    BY <1>1, <1>3, BucketParts DEF Committed, Read, InSnap
<1>5. Wrote(i)'
    BY <1>1, <1>3, <1>4, WroteStays
<1>6. DeltaOf(i, Global)' = DeltaOf(i, Global)
    <2>1. Global \in Keys /\ \A d \in Days : <<Global, d>> \in Buckets /\ <<Global, d>> \notin LinkBuckets
        BY DEF Keys, Buckets, LinkBuckets
    <2>2. \A d \in Days : tx'[i].existing[<<Global, d>>] = tx[i].existing[<<Global, d>>]
        BY <1>1, <2>1 DEF Read, InSnap
    <2> QED BY <1>1, <2>1, <2>2, DeltaStays
<1>7. Adds(i)'
    BY <1>1, <1>6 DEF Adds, PastTotal
<1> QED BY <1>1, <1>2, <1>5, <1>7, StatementKeepsOthers

LEMMA LinkUpsertMerging ==
    ASSUME Merging, TypeOK', NEW i \in Writers, LinkUpsert(i)
    PROVE  Merging'
<1> USE DEF Merging
<1> DEFINE B == {b \in LinkBuckets : b[1] \in links}
           N == {b \in InSnap(i, LinkBuckets) : b[1] \in links}
<1>1. /\ tx[i].pc = "link_upsert" /\ Elsewhere(i) /\ tx'[i].pc = "link_total"
      /\ tx'[i].existing = tx[i].existing /\ tx'[i].new = Upsert(i, B)
      /\ tx'[i].present = links /\ tx'[i].added = tx[i].added
      /\ daily' = daily /\ links' = links /\ tx'[i].held = tx[i].held \cup Needs(i)
      /\ tx'[i].snap = tx[i].snap
    BY LinkUpsertEffect DEF Elsewhere
<1>2. Found(i)'
    BY <1>1 DEF Found
<1>3. N = InSnap(i, B) /\ N \subseteq Buckets /\ \A b \in N : b[1] \in links
    BY BucketParts DEF InSnap
<1>4. DayLocks(N) \subseteq tx'[i].held
    BY <1>1 DEF Needs
<1>5. Written(i)' = Written(i) \cup N /\ \A b \in Written(i) : b \in Buckets /\ b[1] = Global
    <2>1. Written(i) = {b \in InSnap(i, Buckets) : b[1] = Global}
        BY <1>1 DEF Written, PastUpsert, PastLinks
    <2>2. Written(i)' = {b \in InSnap(i, Buckets) : b[1] = Global \/ b[1] \in links}
        BY <1>1 DEF Written, PastUpsert, PastLinks, InSnap
    <2>3. \A b \in Buckets : b[1] \in links => b \in LinkBuckets
        BY BucketParts DEF TypeOK
    <2>4. N = {b \in InSnap(i, Buckets) : b[1] \in links}
        BY <2>3, BucketParts DEF InSnap
    <2> QED BY <2>1, <2>2, <2>4 DEF InSnap
<1> HIDE DEF B, N
<1>6. \A b \in Buckets : Committed(i, b)' = Committed(i, b)
    BY <1>1 DEF Committed
<1>7. ASSUME NEW b \in Buckets, b \in N
      PROVE  /\ <<"day", b>> \in tx'[i].held /\ b[1] \in links \cup {Global}
             /\ tx'[i].new[b] = Max2(Committed(i, b), daily[b])
    BY <1>1, <1>3, <1>4, <1>7 DEF Upsert, OnConflict, DayLocks
<1>8. ASSUME NEW b \in Buckets, b \notin N
      PROVE  tx'[i].new[b] = tx[i].new[b]
    BY <1>1, <1>3, <1>8 DEF Upsert
<1>9. ASSUME NEW b \in Buckets
      PROVE  /\ b \in Written(i)' => <<"day", b>> \in tx'[i].held /\ b[1] \in links \cup {Global}
             /\ tx'[i].new[b] = IF b \in Written(i)' THEN Max2(Committed(i, b), daily[b]) ELSE 0
    <2>1. CASE b \in N
        BY <1>5, <1>7, <2>1
    <2>2. CASE b \notin N
        <3>1. /\ b \in Written(i) => <<"day", b>> \in tx[i].held /\ b[1] \in links \cup {Global}
              /\ tx[i].new[b] = IF b \in Written(i) THEN Max2(Committed(i, b), daily[b]) ELSE 0
            BY DEF Wrote
        <3> QED BY <1>1, <1>5, <1>8, <2>2, <3>1
    <2> QED BY <2>1, <2>2
<1>10. Wrote(i)'
    BY <1>1, <1>6, <1>9 DEF Wrote
<1>11. DeltaOf(i, Global)' = DeltaOf(i, Global)
    BY <1>1, DeltaStays DEF Keys
<1>12. Adds(i)'
    BY <1>1, <1>11 DEF Adds, PastTotal
<1> QED BY <1>1, <1>2, <1>10, <1>12, StatementKeepsOthers

LEMMA LinkTotalMerging ==
    ASSUME Merging, TypeOK', NEW i \in Writers, LinkTotal(i)
    PROVE  Merging'
<1> USE DEF Merging
<1>1. /\ tx[i].pc = "link_total" /\ Elsewhere(i) /\ tx'[i].pc = "commit"
      /\ tx'[i].existing = tx[i].existing /\ tx'[i].new = tx[i].new
      /\ tx'[i].present = tx[i].present
      /\ tx'[i].added = [k \in Keys |-> IF k \in SnapCodes(i) \cap links THEN DeltaOf(i, k) ELSE tx[i].added[k]]
      /\ daily' = daily /\ links' = links /\ tx'[i].held = tx[i].held \cup Needs(i)
      /\ tx'[i].snap = tx[i].snap
    BY LinkTotalEffect DEF Elsewhere
<1>2. Found(i)'
    BY <1>1 DEF Found
<1>3. Written(i)' = Written(i)
    BY <1>1 DEF Written, InSnap, PastUpsert, PastLinks
<1>4. \A b \in Buckets : Committed(i, b)' = Committed(i, b)
    BY <1>1 DEF Committed
<1>5. Wrote(i)'
    BY <1>1, <1>3, <1>4, TxParts, WroteStays
<1>6. \A k \in Keys : DeltaOf(i, k)' = DeltaOf(i, k)
    BY <1>1, DeltaStays
<1>7. SnapCodes(i)' = SnapCodes(i) /\ SnapCodes(i) \subseteq Codes /\ Global \notin SnapCodes(i)
    BY <1>1, TxParts DEF SnapCodes, InSnap
<1>8. ASSUME NEW c \in Codes, c \in SnapCodes(i), c \in tx[i].present PROVE c \in links
    <2>1. PICK d \in Days : tx[i].snap[<<c, d>>] > 0
        BY <1>8, TxParts
    <2>2. <<c, d>> \in Written(i)
        BY <1>1, <1>8, <2>1, BucketParts DEF Written, InSnap, PastLinks, Keys
    <2>3. <<c, d>>[1] \in links \cup {Global}
        BY <2>2, TxParts DEF Wrote
    <2> QED BY <2>3
<1>9. Adds(i)'
    <2>1. tx'[i].added[Global] = DeltaOf(i, Global)
        BY <1>1, <1>7 DEF Adds, PastTotal, Keys
    <2>2. ASSUME NEW c \in Codes
          PROVE  /\ tx'[i].added[c] # 0 => c \in SnapCodes(i)
                 /\ c \in SnapCodes(i) \cap tx[i].present => tx'[i].added[c] = DeltaOf(i, c)
        <3>1. tx[i].added[c] = 0
            BY <1>1 DEF Adds
        <3>2. tx'[i].added[c] = IF c \in SnapCodes(i) \cap links THEN DeltaOf(i, c) ELSE 0
            BY <1>1, <3>1 DEF Keys
        <3> QED BY <1>8, <3>2
    <2> QED BY <1>1, <1>6, <1>7, <2>1, <2>2 DEF Adds, Keys
<1> QED BY <1>1, <1>2, <1>5, <1>9, StatementKeepsOthers

-----------------------------------------------------------------------------
(* A commit raises the rows it has written to the snapshot.                *)

LEMMA CommitRaises ==
    ASSUME Merging, NEW i \in Writers, Commit(i), NEW b \in Buckets
    PROVE  /\ daily'[b] = IF b \in Written(i) THEN Max2(daily[b], tx[i].snap[b]) ELSE daily[b]
           /\ daily[b] <= daily'[b]
           /\ daily'[b] # daily[b] => <<"day", b>> \in tx[i].held /\ b[1] \in links \cup {Global}
           /\ b \in Written(i) <=> tx[i].snap[b] > 0 /\ b[1] \in tx[i].present \cup {Global}
<1>1. /\ tx[i].pc = "commit" /\ TypeOK /\ Found(i) /\ Wrote(i)
      /\ daily'[b] = IF tx[i].new[b] > 0 THEN tx[i].new[b] ELSE daily[b]
    BY DEF Merging, Commit
<1>2. /\ tx[i].existing[b] \in Nat /\ tx[i].snap[b] \in Nat /\ daily[b] \in Nat
      /\ tx[i].existing[b] <= daily[b]
      /\ tx[i].new[b] = IF b \in Written(i) THEN Max2(Committed(i, b), daily[b]) ELSE 0
      /\ b \in Written(i) => <<"day", b>> \in tx[i].held /\ b[1] \in links \cup {Global} /\ tx[i].snap[b] > 0
    BY <1>1, TxParts DEF TypeOK, Found, Wrote
<1>3. b \in Written(i) <=> tx[i].snap[b] > 0 /\ b[1] \in tx[i].present \cup {Global}
    BY <1>1 DEF Written, InSnap, PastUpsert, PastLinks
<1>4. b \in Written(i) => tx[i].new[b] = Max2(daily[b], tx[i].snap[b]) /\ tx[i].new[b] > 0
    BY <1>2 DEF Committed, Max2
<1>5. b \notin Written(i) => tx[i].new[b] = 0
    BY <1>2
<1> QED BY <1>1, <1>2, <1>3, <1>4, <1>5 DEF Max2

LEMMA CommitMerging ==
    ASSUME Merging, TypeOK', NEW i \in Writers, Commit(i)
    PROVE  Merging'
<1>1. Ends(i) /\ links' = links /\ TypeOK
    BY EndEffect DEF Commit, Merging
<1>2. Exclusive'
    BY <1>1, NoTxType DEF Merging, Exclusive, Ends
<1>3. DaysOfLinks'
    BY <1>1, CommitRaises, BucketParts DEF Merging, DaysOfLinks
<1>4. ASSUME NEW j \in Writers \ {i} PROVE Found(j)' /\ Wrote(j)' /\ Adds(j)'
    <2>1. ASSUME NEW b \in Buckets, <<"day", b>> \in tx[j].held PROVE daily'[b] = daily[b]
        <3>1. <<"day", b>>[1] # "key"
            OBVIOUS
        <3>2. <<"day", b>> \notin tx[i].held
            BY <2>1, <3>1 DEF Merging, Exclusive
        <3> QED BY <3>2, CommitRaises
    <2> QED BY <1>1, <2>1, LocksProtect DEF Ends
<1>5. Found(i)' /\ Wrote(i)' /\ Adds(i)'
    BY <1>1, NoTxType, FreshIsPrepared DEF Ends
<1> QED BY <1>2, <1>3, <1>4, <1>5 DEF Merging

LEMMA MergingNext == Merging /\ [Next]_vars => Merging'
<1>1. SUFFICES ASSUME Merging, [Next]_vars PROVE Merging'
    OBVIOUS
<1>2. TypeOK /\ TypeOK'
    BY <1>1, TypeNext DEF Merging
<1> USE <1>1, <1>2
<1>3. ASSUME NEW i \in Writers, Begin(i) \/ Rollback(i) PROVE Merging'
    <2>1. daily' = daily /\ links' = links /\ \A j \in Writers \ {i} : tx'[j] = tx[j]
        BY <1>3, BeginEffect, EndEffect DEF Begin, Rollback, Ends
    <2>2. /\ tx'[i].held = {} /\ tx'[i].pc \in {"idle", "global_read"}
          /\ tx'[i].existing = Zeros /\ tx'[i].new = Zeros /\ tx'[i].added = [k \in Keys |-> 0]
        <3>1. CASE Begin(i)
            BY <3>1, BeginEffect
        <3>2. CASE Rollback(i)
            BY <3>2, EndEffect, NoTxType DEF Rollback, Ends
        <3> QED BY <1>3, <3>1, <3>2
    <2>3. Exclusive' /\ DaysOfLinks'
        BY <2>1, <2>2 DEF Merging, Exclusive, DaysOfLinks
    <2>4. \A j \in Writers \ {i} : Found(j)' /\ Wrote(j)' /\ Adds(j)'
        BY <2>1, LocksProtect
    <2>5. Found(i)' /\ Wrote(i)' /\ Adds(i)'
        BY <2>2, FreshIsPrepared
    <2> QED BY <2>3, <2>4, <2>5 DEF Merging
<1>4. ASSUME NEW i \in Writers, Merge(i) PROVE Merging'
    BY <1>4, GlobalReadMerging, GlobalUpsertMerging, GlobalTotalMerging, LinkReadMerging,
       LinkUpsertMerging, LinkTotalMerging, CommitMerging DEF Merge
<1>5. ASSUME tx' = tx, daily' = daily, links \subseteq links' PROVE Merging'
    <2>1. Exclusive' /\ DaysOfLinks'
        BY <1>5 DEF Merging, Exclusive, DaysOfLinks
    <2>2. \A j \in Writers : Found(j)' /\ Wrote(j)' /\ Adds(j)'
        BY <1>5, LocksProtect
    <2> QED BY <2>1, <2>2 DEF Merging
<1>6. ASSUME NEW c \in Codes, Cascade(c) PROVE Merging'
    <2>1. /\ tx' = tx /\ links' = links \ {c} /\ DeleteBlockers(c) = {}
          /\ \A b \in Buckets : daily'[b] = IF b[1] = c THEN 0 ELSE daily[b]
        BY <1>6 DEF Cascade
    <2>2. Exclusive'
        BY <2>1 DEF Merging, Exclusive
    <2>3. DaysOfLinks'
        BY <2>1, BucketParts DEF Merging, DaysOfLinks
    <2>4. ASSUME NEW j \in Writers, NEW b \in Buckets, <<"day", b>> \in tx[j].held PROVE b[1] # c
        <3>1. SUFFICES ASSUME b[1] = c PROVE FALSE
            OBVIOUS
        <3>2. b = <<c, b[2]>> /\ b[2] \in Days
            BY <3>1, BucketParts
        <3>3. j \in DeleteBlockers(c)
            BY <2>4, <3>2 DEF DeleteBlockers
        <3> QED BY <2>1, <3>3
    <2>5. \A j \in Writers : Found(j)' /\ Wrote(j)' /\ Adds(j)'
        BY <2>1, <2>4, LocksProtect
    <2> QED BY <2>2, <2>3, <2>5 DEF Merging
<1>7. ASSUME NEW c \in Codes, CreateLink(c) \/ DeleteLink(c) \/ DeleteFails(c) PROVE Merging'
    BY <1>5, <1>7 DEF CreateLink, DeleteLink, DeleteFails
<1>8. ASSUME NEW c \in Codes, NEW d \in Days, Click(c, d) PROVE Merging'
    BY <1>5, <1>8 DEF Click
<1>9. CASE UNCHANGED vars
    BY <1>5, <1>9 DEF vars
<1> QED BY <1>3, <1>4, <1>6, <1>7, <1>8, <1>9 DEF Next

LEMMA MergingHolds == Spec => []Merging
BY MergingInit, MergingNext, PTL DEF Spec

(* The daily tables after a transaction of several statements are those of *)
(* a merge in one step at its commit: no click another writer committed    *)
(* between the reads and the upserts is lost.                              *)
THEOREM MergesAreAtomic == Spec => CommitsAsOneStep
<1> DEFINE P == \A i \in Writers : Commit(i) =>
                  \A b \in Buckets : daily'[b] =
                    IF b[1] \in tx[i].present \cup {Global} THEN Max2(daily[b], tx[i].snap[b]) ELSE daily[b]
<1>1. ASSUME Merging, NEW i \in Writers, Commit(i), NEW b \in Buckets
      PROVE  daily'[b] = IF b[1] \in tx[i].present \cup {Global} THEN Max2(daily[b], tx[i].snap[b]) ELSE daily[b]
    <2>1. daily[b] \in Nat /\ tx[i].snap[b] \in Nat
        BY <1>1, TxParts DEF Merging, TypeOK
    <2>2. tx[i].snap[b] = 0 => Max2(daily[b], tx[i].snap[b]) = daily[b]
        BY <2>1 DEF Max2
    <2>3. /\ daily'[b] = IF b \in Written(i) THEN Max2(daily[b], tx[i].snap[b]) ELSE daily[b]
          /\ b \in Written(i) <=> tx[i].snap[b] > 0 /\ b[1] \in tx[i].present \cup {Global}
        BY <1>1, CommitRaises
    <2> QED BY <2>1, <2>2, <2>3
<1>2. Merging => P
    BY <1>1
<1> HIDE DEF P
<1>3. Merging /\ [Next]_vars => [P]_vars
    BY <1>2
<1>4. CommitsAsOneStep <=> [][P]_vars
    BY DEF CommitsAsOneStep, P
<1> QED BY <1>3, <1>4, MergingHolds, PTL DEF Spec

-----------------------------------------------------------------------------
(* Sums of days.                                                           *)

LEMMA SumOfDaysStays ==
    ASSUME TypeOK, NEW k \in Keys, \A d \in Days : daily'[<<k, d>>] = daily[<<k, d>>]
    PROVE  SumOfDays(k)' = SumOfDays(k) /\ SumOfDays(k) \in Nat
<1> DEFINE f == [d \in Days |-> daily[<<k, d>>]]
           g == [d \in Days |-> daily'[<<k, d>>]]
<1>1. f = g
    OBVIOUS
<1>2. \A d \in Days : f[d] \in Nat
    BY BucketParts DEF TypeOK
<1>3. SumOfDays(k) = SumFunctionOnSet(f, Days) /\ SumOfDays(k)' = SumFunctionOnSet(g, Days)
    BY DEF SumOfDays
<1> HIDE DEF f, g
<1> QED BY <1>1, <1>2, <1>3, SumIsNat

LEMMA SumOfDaysIsNat ==
    ASSUME NEW k \in Keys
    PROVE  (TypeOK => SumOfDays(k) \in Nat) /\ (TypeOK' => SumOfDays(k)' \in Nat)
<1>1. ASSUME NEW rows \in [Buckets -> Nat]
      PROVE  SumFunctionOnSet([d \in Days |-> rows[<<k, d>>]], Days) \in Nat
    <2> DEFINE f == [d \in Days |-> rows[<<k, d>>]]
    <2>1. \A d \in Days : f[d] \in Nat
        BY BucketParts
    <2> HIDE DEF f
    <2>2. SumFunctionOnSet(f, Days) \in Nat
        BY <2>1, SumIsNat
    <2> QED BY <2>2 DEF f
<1> QED BY <1>1 DEF SumOfDays, TypeOK

LEMMA NoDaysNoSum ==
    ASSUME NEW k, \A d \in Days : daily[<<k, d>>] = 0
    PROVE  SumOfDays(k) = 0
<1> DEFINE f == [d \in Days |-> daily[<<k, d>>]]
<1>1. Summable(f, Days) /\ \A d \in Days \ {} : f[d] = 0
    BY DEF Summable
<1> HIDE DEF f
<1>2. SumFunctionOnSet(f, Days) = SumFunctionOnSet(f, {})
    BY <1>1, SumOfPart
<1>3. SumFunctionOnSet(f, {}) = 0
    BY SumOfNone
<1> QED BY <1>2, <1>3 DEF SumOfDays, f

(* What the days grow by, written as a sum over all days.                  *)
Grown(i, k) == [d \in Days |-> IF tx[i].snap[<<k, d>>] > 0 THEN AppliedDelta(i, <<k, d>>) ELSE 0]

LEMMA DeltaIsSum ==
    ASSUME TypeOK, NEW i \in Writers, NEW k \in Keys
    PROVE  /\ Summable(Grown(i, k), Days)
           /\ DeltaOf(i, k) = SumFunctionOnSet(Grown(i, k), Days)
<1> DEFINE f == [d \in Days |-> AppliedDelta(i, <<k, d>>)]
           S == {d \in Days : tx[i].snap[<<k, d>>] > 0}
           g == Grown(i, k)
<1>1. \A d \in Days : AppliedDelta(i, <<k, d>>) \in Nat
    BY DeltaIsNat
<1>2. /\ Summable(g, Days) /\ Summable(f, S) /\ S \in SUBSET Days
      /\ (\A d \in Days \ S : g[d] = 0) /\ \A d \in S : f[d] = g[d]
    <2>1. \A d \in Days : g[d] = IF tx[i].snap[<<k, d>>] > 0 THEN AppliedDelta(i, <<k, d>>) ELSE 0
        BY DEF Grown
    <2>2. IsFiniteSet(Days) /\ S \in SUBSET Days
        OBVIOUS
    <2>5. IsFiniteSet(S)
        BY <2>2, FS_Subset
    <2>4. /\ \A d \in S : d \in Days /\ tx[i].snap[<<k, d>>] > 0
          /\ \A d \in Days \ S : ~(tx[i].snap[<<k, d>>] > 0)
        OBVIOUS
    <2>3. \A d \in Days : f[d] = AppliedDelta(i, <<k, d>>)
        OBVIOUS
    <2> HIDE DEF f, g, S
    <2>6. ASSUME NEW d \in Days PROVE g[d] \in Int
        <3>1. AppliedDelta(i, <<k, d>>) \in Int
            BY <1>1
        <3>2. CASE tx[i].snap[<<k, d>>] > 0
            BY <2>1, <3>1, <3>2
        <3>3. CASE ~(tx[i].snap[<<k, d>>] > 0)
            BY <2>1, <3>3
        <3> QED BY <3>2, <3>3
    <2>7. (\A d \in Days \ S : g[d] = 0) /\ \A d \in S : f[d] = g[d]
        BY <2>1, <2>3, <2>4
    <2>8. \A d \in S : f[d] \in Int
        BY <2>4, <2>6, <2>7
    <2> QED BY <2>2, <2>5, <2>6, <2>7, <2>8 DEF Summable
<1>3. DeltaOf(i, k) = SumFunctionOnSet(f, S)
    BY DEF DeltaOf
<1> HIDE DEF f, g, S
<1>4. SumFunctionOnSet(f, S) = SumFunctionOnSet(g, S)
    BY <1>2, SumsOfEqual
<1>5. SumFunctionOnSet(g, Days) = SumFunctionOnSet(g, S)
    BY <1>2, SumOfPart
<1>6. Summable(g, Days) /\ DeltaOf(i, k) = SumFunctionOnSet(g, Days)
    BY <1>2, <1>3, <1>4, <1>5
<1> QED BY <1>6 DEF g

(* What a merge adds to a total covers what it adds to the day, and is the *)
(* same if it found the day as it is.                                      *)
LEMMA DeltaCovers ==
    ASSUME NEW old \in Nat, NEW found \in Nat, NEW snap \in Nat, found <= old
    PROVE  LET new == IF snap > 0 THEN Max2(old, snap) ELSE old
               add == IF snap > 0 THEN Max2(found, snap) - found ELSE 0
           IN  /\ new \in Nat /\ add \in Nat /\ new <= old + add
               /\ (snap > 0 => found = old) => new = old + add
BY DEF Max2

(* A commit adds at least what the days grow by, and exactly that if what  *)
(* it had found is still what the rows hold.                               *)
LEMMA CommitSum ==
    ASSUME Merging, TypeOK', NEW i \in Writers, Commit(i), NEW k \in links \cup {Global}
    PROVE  /\ SumOfDays(k)' <= SumOfDays(k) + tx[i].added[k]
           /\ /\ \A d \in Days : tx[i].snap[<<k, d>>] > 0 => tx[i].existing[<<k, d>>] = daily[<<k, d>>]
              /\ k \in tx[i].present \cup {Global}
              => SumOfDays(k)' = SumOfDays(k) + tx[i].added[k]
<1>1. /\ TypeOK /\ Found(i) /\ Adds(i) /\ tx[i].pc = "commit" /\ k \in Keys
      /\ tx[i].added[k] \in Nat
    BY TxParts DEF Merging, Commit, TypeOK, Keys
<1>2. SumOfDays(k) \in Nat /\ SumOfDays(k)' \in Nat
    BY <1>1, SumOfDaysIsNat
<1> DEFINE Same == \A d \in Days : tx[i].snap[<<k, d>>] > 0 => tx[i].existing[<<k, d>>] = daily[<<k, d>>]
<1>3. CASE \A d \in Days : daily'[<<k, d>>] = daily[<<k, d>>] /\ tx[i].snap[<<k, d>>] = 0
    <2>1. SumOfDays(k)' = SumOfDays(k)
        BY <1>1, <1>3, SumOfDaysStays
    <2>2. tx[i].added[k] = 0
        <3>1. CASE k = Global
            <4> DEFINE g == Grown(i, k)
            <4>1. \A d \in Days \ {} : g[d] = 0
                BY <1>3 DEF Grown
            <4>2. Summable(g, Days) /\ DeltaOf(i, k) = SumFunctionOnSet(g, Days)
                BY <1>1, DeltaIsSum
            <4> HIDE DEF g
            <4>3. SumFunctionOnSet(g, Days) = SumFunctionOnSet(g, {})
                BY <4>1, <4>2, SumOfPart
            <4> QED BY <1>1, <3>1, <4>2, <4>3, SumOfNone DEF Adds, PastTotal
        <3>2. CASE k # Global
            <4>1. k \in Codes
                BY <1>1, <3>2 DEF TypeOK
            <4>2. ASSUME NEW d \in Days PROVE ~(tx[i].snap[<<k, d>>] > 0)
                BY <1>3
            <4>3. k \notin SnapCodes(i)
                BY <1>1, <4>1, <4>2, TxParts
            <4> QED BY <1>1, <4>1, <4>3 DEF Adds
        <3> QED BY <3>1, <3>2
    <2> QED BY <1>2, <2>1, <2>2
<1>4. CASE k \notin tx[i].present \cup {Global}
    <2>1. \A d \in Days : daily'[<<k, d>>] = daily[<<k, d>>]
        <3>1. \A d \in Days : <<k, d>> \in Buckets /\ <<k, d>>[1] = k
            BY <1>1, BucketParts
        <3> QED BY <1>4, <3>1, CommitRaises
    <2>2. SumOfDays(k)' = SumOfDays(k)
        BY <1>1, <2>1, SumOfDaysStays
    <2> QED BY <1>1, <1>2, <1>4, <2>2
<1>5. CASE /\ k \in tx[i].present \cup {Global}
           /\ ~\A d \in Days : daily'[<<k, d>>] = daily[<<k, d>>] /\ tx[i].snap[<<k, d>>] = 0
    <2> DEFINE f == [d \in Days |-> daily[<<k, d>>]]
               h == [d \in Days |-> daily'[<<k, d>>]]
               g == Grown(i, k)
               fg == [d \in Days |-> f[d] + g[d]]
    <2>1. ASSUME NEW d \in Days
          PROVE  /\ daily[<<k, d>>] \in Nat /\ daily'[<<k, d>>] \in Nat /\ g[d] \in Nat
                 /\ daily'[<<k, d>>] <= daily[<<k, d>>] + g[d]
                 /\ Same => daily'[<<k, d>>] = daily[<<k, d>>] + g[d]
        <3> DEFINE b == <<k, d>>
        <3>1. b \in Buckets /\ b[1] = k
            BY <1>1, BucketParts
        <3>2. daily'[b] = IF tx[i].snap[b] > 0 THEN Max2(daily[b], tx[i].snap[b]) ELSE daily[b]
            BY <1>5, <3>1, CommitRaises
        <3>3. /\ daily[b] \in Nat /\ daily'[b] \in Nat /\ tx[i].snap[b] \in Nat
              /\ tx[i].existing[b] \in Nat /\ tx[i].existing[b] <= daily[b]
            BY <1>1, <3>1, TxParts DEF TypeOK, Found
        <3>4. g[d] = IF tx[i].snap[b] > 0 THEN Max2(tx[i].existing[b], tx[i].snap[b]) - tx[i].existing[b] ELSE 0
            BY DEF Grown, AppliedDelta, Committed
        <3>5. Same => (tx[i].snap[b] > 0 => tx[i].existing[b] = daily[b])
            OBVIOUS
        <3> HIDE DEF b, g, Same
        <3>6. /\ daily[b] \in Nat /\ daily'[b] \in Nat /\ g[d] \in Nat
              /\ daily'[b] <= daily[b] + g[d]
              /\ Same => daily'[b] = daily[b] + g[d]
            <4>1. PICK old \in Nat, found \in Nat, snap \in Nat :
                    old = daily[b] /\ found = tx[i].existing[b] /\ snap = tx[i].snap[b]
                BY <3>3
            <4>2. /\ daily'[b] = IF snap > 0 THEN Max2(old, snap) ELSE old
                  /\ g[d] = IF snap > 0 THEN Max2(found, snap) - found ELSE 0
                  /\ found <= old /\ (Same => (snap > 0 => found = old))
                BY <3>2, <3>3, <3>4, <3>5, <4>1
            <4>3. /\ daily'[b] \in Nat /\ g[d] \in Nat /\ daily'[b] <= old + g[d]
                  /\ (snap > 0 => found = old) => daily'[b] = old + g[d]
                BY <4>2, DeltaCovers
            <4> QED BY <4>1, <4>2, <4>3
        <3> QED BY <3>6 DEF b
    <2>2. tx[i].added[k] = DeltaOf(i, k)
        <3>1. CASE k = Global
            BY <1>1, <3>1 DEF Adds, PastTotal
        <3>2. CASE k # Global
            <4>1. k \in Codes /\ k \in tx[i].present
                BY <1>1, <1>5, <3>2 DEF TypeOK
            <4>2. PICK d \in Days : ~(daily'[<<k, d>>] = daily[<<k, d>>] /\ tx[i].snap[<<k, d>>] = 0)
                BY <1>5
            <4>5. <<k, d>> \in Buckets
                BY <1>1, BucketParts
            <4>8. tx[i].snap[<<k, d>>] \in Nat
                BY <1>1, <4>5, TxParts
            <4>6. daily'[<<k, d>>] = IF <<k, d>> \in Written(i)
                    THEN Max2(daily[<<k, d>>], tx[i].snap[<<k, d>>]) ELSE daily[<<k, d>>]
                BY <4>5, CommitRaises
            <4>7. <<k, d>> \in Written(i) => tx[i].snap[<<k, d>>] > 0
                BY <1>1, TxParts
            <4>3. tx[i].snap[<<k, d>>] > 0
                BY <4>2, <4>6, <4>7, <4>8
            <4>4. k \in SnapCodes(i)
                BY <1>1, <4>1, <4>3, TxParts
            <4> QED BY <1>1, <4>1, <4>4 DEF Adds
        <3> QED BY <3>1, <3>2
    <2>3. DeltaOf(i, k) = SumFunctionOnSet(g, Days) /\ Summable(g, Days)
        BY <1>1, DeltaIsSum
    <2>4. Summable(f, Days) /\ Summable(h, Days) /\ Summable(fg, Days)
        BY <2>1 DEF Summable
    <2>5. \A d \in Days : fg[d] = f[d] + g[d] /\ h[d] <= fg[d] /\ (Same => h[d] = fg[d])
        <3> HIDE DEF g, Same
        <3> QED BY <2>1
    <2>6. SumOfDays(k) = SumFunctionOnSet(f, Days) /\ SumOfDays(k)' = SumFunctionOnSet(h, Days)
        BY DEF SumOfDays
    <2> HIDE DEF f, g, h, fg, Same
    <2>7. SumFunctionOnSet(fg, Days) = SumFunctionOnSet(f, Days) + SumFunctionOnSet(g, Days)
        BY <2>3, <2>4, <2>5, SumOfPlus
    <2>8. SumFunctionOnSet(h, Days) <= SumFunctionOnSet(fg, Days)
        BY <2>4, <2>5, SumIsMonotone
    <2>9. Same => SumFunctionOnSet(h, Days) = SumFunctionOnSet(fg, Days)
        BY <2>4, <2>5, SumsOfEqual
    <2>10. /\ SumOfDays(k)' <= SumOfDays(k) + tx[i].added[k]
           /\ Same => SumOfDays(k)' = SumOfDays(k) + tx[i].added[k]
        BY <2>2, <2>3, <2>6, <2>7, <2>8, <2>9
    <2> QED BY <2>10 DEF Same
<1> QED BY <1>3, <1>4, <1>5

-----------------------------------------------------------------------------
(* The totals.                                                             *)

LEMMA NeverBehindInit == Init => TotalsNeverBehind
<1>1. SUFFICES ASSUME Init, NEW k \in Keys PROVE totals[k] >= SumOfDays(k)
    BY DEF Init, TotalsNeverBehind, Keys
<1>2. \A d \in Days : daily[<<k, d>>] = 0
    BY <1>1, BucketParts DEF Init, Zeros
<1>3. totals[k] = 0 /\ SumOfDays(k) = 0
    BY <1>1, <1>2, NoDaysNoSum DEF Init
<1> QED BY <1>3

LEMMA NeverBehindNext == Merging /\ TotalsNeverBehind /\ [Next]_vars => TotalsNeverBehind'
<1>1. SUFFICES ASSUME Merging, TotalsNeverBehind, [Next]_vars, NEW k \in links' \cup {Global}
               PROVE  totals'[k] >= SumOfDays(k)'
    BY DEF TotalsNeverBehind
<1>2. TypeOK /\ TypeOK' /\ k \in Keys
    BY <1>1, TypeNext DEF Merging, TypeOK, Keys
<1> USE <1>1, <1>2
<1>3. SumOfDays(k) \in Nat /\ SumOfDays(k)' \in Nat /\ totals[k] \in Nat
    BY SumOfDaysIsNat DEF TypeOK
<1>4. ASSUME UNCHANGED <<daily, totals, links>> PROVE totals'[k] >= SumOfDays(k)'
    BY <1>4, SumOfDaysStays DEF TotalsNeverBehind
<1>5. ASSUME NEW i \in Writers, Commit(i) PROVE totals'[k] >= SumOfDays(k)'
    <2>1. k \in links \cup {Global} /\ totals'[k] = totals[k] + tx[i].added[k] /\ tx[i].added[k] \in Nat
        BY <1>5, TxParts DEF Commit
    <2>2. totals[k] >= SumOfDays(k) /\ SumOfDays(k)' <= SumOfDays(k) + tx[i].added[k]
        BY <1>5, <2>1, CommitSum DEF TotalsNeverBehind
    <2> QED BY <1>3, <2>1, <2>2
<1>6. ASSUME NEW i \in Writers, Begin(i) \/ Rollback(i) \/ (Merge(i) /\ ~Commit(i))
      PROVE  totals'[k] >= SumOfDays(k)'
    <2>1. UNCHANGED <<daily, totals, links>>
        BY <1>6, MergeKinds DEF Begin, Rollback, Elsewhere
    <2> QED BY <1>4, <2>1
<1>7. ASSUME NEW c \in Codes, CreateLink(c) PROVE totals'[k] >= SumOfDays(k)'
    <2>1. daily' = daily /\ totals' = [totals EXCEPT ![c] = 0] /\ links' = links \cup {c} /\ c \notin links
        BY <1>7 DEF CreateLink
    <2>2. SumOfDays(k)' = SumOfDays(k)
        BY <2>1, SumOfDaysStays
    <2>3. CASE k = c
        <3>1. \A d \in Days : daily[<<c, d>>] = 0
            BY <2>1, BucketParts DEF Merging, DaysOfLinks
        <3>2. SumOfDays(c) = 0
            BY <3>1, NoDaysNoSum
        <3>3. totals'[c] = 0
            BY <2>1 DEF TypeOK, Keys
        <3> QED BY <2>2, <2>3, <3>2, <3>3
    <2>4. CASE k # c
        <3>1. totals'[k] = totals[k] /\ totals[k] >= SumOfDays(k)
            BY <2>1, <2>4 DEF TypeOK, TotalsNeverBehind
        <3> QED BY <2>2, <3>1
    <2> QED BY <2>3, <2>4
<1>8. ASSUME NEW c \in Codes, Cascade(c) PROVE totals'[k] >= SumOfDays(k)'
    <2>1. /\ totals' = [totals EXCEPT ![c] = 0] /\ links' = links \ {c} /\ k # c
          /\ \A b \in Buckets : b[1] # c => daily'[b] = daily[b]
        BY <1>8 DEF Cascade
    <2>2. \A d \in Days : <<k, d>> \in Buckets /\ <<k, d>>[1] = k
        BY BucketParts
    <2>3. SumOfDays(k)' = SumOfDays(k)
        BY <2>1, <2>2, SumOfDaysStays
    <2>4. totals'[k] = totals[k] /\ totals[k] >= SumOfDays(k)
        BY <2>1 DEF TypeOK, TotalsNeverBehind
    <2> QED BY <2>3, <2>4
<1>9. ASSUME NEW c \in Codes, DeleteLink(c) \/ DeleteFails(c) PROVE totals'[k] >= SumOfDays(k)'
    BY <1>4, <1>9 DEF DeleteLink, DeleteFails
<1>10. ASSUME NEW c \in Codes, NEW d \in Days, Click(c, d) PROVE totals'[k] >= SumOfDays(k)'
    BY <1>4, <1>10 DEF Click
<1>11. CASE UNCHANGED vars
    BY <1>4, <1>11 DEF vars
<1> QED BY <1>5, <1>6, <1>7, <1>8, <1>9, <1>10, <1>11 DEF Next

(* Whoever merges, and whatever is created and deleted meanwhile, a total  *)
(* is never behind the sum of its days: no click is left out of it.        *)
THEOREM TotalsCoverDays == Spec => []TotalsNeverBehind
<1>1. Spec => [](Merging /\ TotalsNeverBehind)
    BY MergingInit, NeverBehindInit, MergingNext, NeverBehindNext, PTL DEF Spec
<1> QED BY <1>1, PTL

LEMMA UndisturbedInit == Init => \A i \in Writers : Undisturbed(i)
BY NoTxType DEF Init, Undisturbed, PastUpsert, PastLinks

LEMMA UndisturbedNext ==
    Merging /\ (\A i \in Writers : Undisturbed(i)) /\ [Next]_vars => \A i \in Writers : Undisturbed(i)'
<1>1. SUFFICES ASSUME Merging, NEW i \in Writers, Undisturbed(i), [Next]_vars PROVE Undisturbed(i)'
    OBVIOUS
<1>2. TypeOK /\ TypeOK'
    BY <1>1, TypeNext DEF Merging
<1> USE <1>1, <1>2
<1> DEFINE Seen(k) == \A d \in Days : tx[i].snap[<<k, d>>] > 0 => tx[i].existing[<<k, d>>] = daily[<<k, d>>]
           Reading(k) == IF k = Global THEN tx[i].pc \in {"global_upsert"} \cup PastUpsert
                                       ELSE tx[i].pc \in {"link_upsert"} \cup PastLinks
<1>3. ASSUME tx'[i] = tx[i], \A k \in links' \cup {Global} : <<i, k>> \notin disturbed' =>
                /\ k \in links \cup {Global} /\ <<i, k>> \notin disturbed
                /\ \A d \in Days : daily'[<<k, d>>] = daily[<<k, d>>]
      PROVE  Undisturbed(i)'
    BY <1>3 DEF Undisturbed
<1>4. ASSUME tx'[i].pc \in {"idle", "global_read"} PROVE Undisturbed(i)'
    BY <1>4 DEF Undisturbed, PastUpsert, PastLinks
<1>5. ASSUME NEW j \in Writers, Begin(j) PROVE Undisturbed(i)'
    <2>1. CASE i = j
        BY <1>4, <1>5, <2>1, BeginEffect
    <2>2. CASE i # j
        <3>1. tx'[i] = tx[i] /\ daily' = daily /\ links' = links
            BY <1>5, <2>2, BeginEffect DEF Begin
        <3>2. disturbed' = disturbed \ ({j} \X Keys)
            BY <1>5 DEF Begin
        <3>3. \A k \in links \cup {Global} : <<i, k>> \notin disturbed' => <<i, k>> \notin disturbed
            BY <2>2, <3>2
        <3> QED BY <1>3, <3>1, <3>3
    <2> QED BY <2>1, <2>2
<1>6. ASSUME NEW j \in Writers, Rollback(j) PROVE Undisturbed(i)'
    <2>1. Ends(j) /\ daily' = daily /\ links' = links /\ disturbed' = disturbed
        BY <1>6, EndEffect DEF Rollback
    <2>2. CASE i = j
        BY <1>4, <2>1, <2>2, NoTxType DEF Ends
    <2>3. CASE i # j
        BY <1>3, <2>1, <2>3 DEF Ends
    <2> QED BY <2>2, <2>3
<1>7. ASSUME NEW j \in Writers, Commit(j) PROVE Undisturbed(i)'
    <2>1. Ends(j) /\ links' = links /\ disturbed' = disturbed \cup ((Writers \ {j}) \X Keys)
        BY <1>7, EndEffect DEF Commit
    <2>2. CASE i = j
        BY <1>4, <2>1, <2>2, NoTxType DEF Ends
    <2>3. CASE i # j
        <3>1. links \cup {Global} \subseteq Keys
            BY DEF TypeOK, Keys
        <3>2. \A k \in links' \cup {Global} : <<i, k>> \in disturbed'
            BY <2>1, <2>3, <3>1
        <3> QED BY <3>2 DEF Undisturbed
    <2> QED BY <2>2, <2>3
<1>8. ASSUME NEW j \in Writers, Merge(j), ~Commit(j), i # j PROVE Undisturbed(i)'
    BY <1>3, <1>8, MergeKinds DEF Elsewhere
<1>9. ASSUME Merge(i), ~Commit(i) PROVE Undisturbed(i)'
    <2>1. daily' = daily /\ links' = links /\ disturbed' = disturbed /\ tx'[i].snap = tx[i].snap
        BY <1>9, MergeKinds DEF Elsewhere
    <2>2. SUFFICES ASSUME NEW k \in links \cup {Global}, <<i, k>> \notin disturbed
                   PROVE  /\ Reading(k)' => Seen(k)'
                          /\ k # Global /\ tx'[i].pc \in PastLinks => k \in tx'[i].present
        BY <2>1 DEF Undisturbed
    <2>3. /\ Reading(k) => Seen(k)
          /\ k # Global /\ tx[i].pc \in PastLinks => k \in tx[i].present
        BY <2>2 DEF Undisturbed
    <2>4. /\ \A d \in Days : <<k, d>> \in Buckets /\ tx[i].snap[<<k, d>>] \in Nat
          /\ k = Global => \A d \in Days : <<k, d>> \in GlobalBuckets
          /\ k # Global => k \in links /\ \A d \in Days : <<k, d>> \in LinkBuckets
        BY <2>2, BucketParts, TxParts DEF TypeOK, Keys, GlobalBuckets
    <2>5. CASE GlobalRead(i)
        <3>1. /\ tx'[i].pc = "global_upsert" /\ tx'[i].existing = Read(i, GlobalBuckets)
            BY <2>5, GlobalReadEffect
        <3>2. k = Global => Seen(k)'
            BY <2>1, <2>4, <3>1 DEF Read, InSnap
        <3> QED BY <3>1, <3>2 DEF PastLinks
    <2>6. CASE GlobalUpsert(i) \/ GlobalTotal(i) \/ LinkTotal(i)
        <3>1. /\ tx'[i].existing = tx[i].existing /\ tx'[i].present = tx[i].present
              /\ <<tx[i].pc, tx'[i].pc>> \in {<<"global_upsert", "global_total">>, <<"global_total", "link_read">>,
                                              <<"link_total", "commit">>}
            BY <2>6, GlobalUpsertEffect, GlobalTotalEffect, LinkTotalEffect
        <3>2. Seen(k)' <=> Seen(k)
            BY <2>1, <3>1
        <3>3. (Reading(k)' => Reading(k)) /\ (tx'[i].pc \in PastLinks => tx[i].pc \in PastLinks)
            BY <3>1 DEF PastUpsert, PastLinks
        <3> QED BY <2>3, <3>1, <3>2, <3>3
    <2>7. CASE LinkRead(i)
        <3>1. tx[i].pc = "link_read" /\ tx'[i].pc = "link_upsert" /\ tx'[i].existing = Read(i, LinkBuckets)
            BY <2>7, LinkReadEffect
        <3>2. CASE k = Global
            <4>1. Seen(k)
                BY <2>3, <3>1, <3>2 DEF PastUpsert
            <4>2. \A d \in Days : tx'[i].existing[<<k, d>>] = tx[i].existing[<<k, d>>]
                BY <2>4, <3>1, <3>2, BucketParts DEF Read, InSnap
            <4> QED BY <2>1, <3>2, <4>1, <4>2
        <3>3. CASE k # Global
            <4>1. Seen(k)'
                BY <2>1, <2>4, <3>1, <3>3 DEF Read, InSnap
            <4> QED BY <3>1, <4>1 DEF PastLinks
        <3> QED BY <3>2, <3>3
    <2>8. CASE LinkUpsert(i)
        <3>1. /\ tx'[i].existing = tx[i].existing /\ tx'[i].present = links
              /\ tx[i].pc = "link_upsert" /\ tx'[i].pc = "link_total"
            BY <2>8, LinkUpsertEffect
        <3>2. Seen(k)' <=> Seen(k)
            BY <2>1, <3>1
        <3>3. Reading(k)' => Reading(k)
            BY <3>1 DEF PastUpsert, PastLinks
        <3> QED BY <2>3, <2>4, <3>1, <3>2, <3>3
    <2> QED BY <1>9, <2>5, <2>6, <2>7, <2>8 DEF Merge
<1>10. ASSUME NEW c \in Codes, CreateLink(c) PROVE Undisturbed(i)'
    <2>1. tx' = tx /\ daily' = daily /\ links' = links \cup {c} /\ disturbed' = disturbed \cup (Writers \X {c})
        BY <1>10 DEF CreateLink
    <2>2. \A k \in links' \cup {Global} : <<i, k>> \notin disturbed' => k \in links \cup {Global} /\ <<i, k>> \notin disturbed
        BY <2>1
    <2> QED BY <1>3, <2>1, <2>2
<1>11. ASSUME NEW c \in Codes, Cascade(c) PROVE Undisturbed(i)'
    <2>1. /\ tx' = tx /\ links' = links \ {c} /\ disturbed' = disturbed
          /\ \A b \in Buckets : b[1] # c => daily'[b] = daily[b]
        BY <1>11 DEF Cascade
    <2>2. \A k \in links' \cup {Global} : /\ k \in links \cup {Global} /\ k # c /\ k \in Keys
        BY <2>1 DEF TypeOK, Keys
    <2>3. \A k \in links' \cup {Global}, d \in Days : daily'[<<k, d>>] = daily[<<k, d>>]
        BY <2>1, <2>2, BucketParts
    <2> QED BY <1>3, <2>1, <2>2, <2>3
<1>12. ASSUME UNCHANGED <<tx, daily, links, disturbed>> PROVE Undisturbed(i)'
    BY <1>3, <1>12
<1>13. ASSUME NEW c \in Codes, DeleteLink(c) \/ DeleteFails(c) PROVE Undisturbed(i)'
    BY <1>12, <1>13 DEF DeleteLink, DeleteFails
<1>14. ASSUME NEW c \in Codes, NEW d \in Days, Click(c, d) PROVE Undisturbed(i)'
    BY <1>12, <1>14 DEF Click
<1>15. CASE UNCHANGED vars
    BY <1>12, <1>15 DEF vars
<1> QED BY <1>5, <1>6, <1>7, <1>8, <1>9, <1>10, <1>11, <1>13, <1>14, <1>15 DEF Next

(* A commit that nobody disturbed adds to a total exactly what it adds to  *)
(* the days of the same key.                                               *)
THEOREM TotalsAndDaysAgree == Spec => TotalsFollowDays
<1> DEFINE P == \A i \in Writers : Commit(i) =>
                  \A k \in links \cup {Global} :
                    <<i, k>> \notin disturbed => totals'[k] - totals[k] = SumOfDays(k)' - SumOfDays(k)
           Inv == Merging /\ \A i \in Writers : Undisturbed(i)
<1>1. ASSUME Inv, TypeOK', NEW i \in Writers, Commit(i), NEW k \in links \cup {Global}, <<i, k>> \notin disturbed
      PROVE  totals'[k] - totals[k] = SumOfDays(k)' - SumOfDays(k)
    <2>1. /\ TypeOK /\ k \in Keys /\ tx[i].pc = "commit" /\ Undisturbed(i)
          /\ totals'[k] = totals[k] + tx[i].added[k]
        BY <1>1 DEF Merging, Commit, TypeOK, Keys
    <2>2. /\ \A d \in Days : tx[i].snap[<<k, d>>] > 0 => tx[i].existing[<<k, d>>] = daily[<<k, d>>]
          /\ k \in tx[i].present \cup {Global}
        BY <1>1, <2>1 DEF Undisturbed, PastUpsert, PastLinks
    <2>3. SumOfDays(k)' = SumOfDays(k) + tx[i].added[k]
        BY <1>1, <2>2, CommitSum
    <2>4. totals[k] \in Nat /\ tx[i].added[k] \in Nat /\ SumOfDays(k) \in Nat
        BY <2>1, TxParts, SumOfDaysIsNat DEF TypeOK
    <2> QED BY <2>1, <2>3, <2>4
<1>2. Inv /\ TypeOK' => P
    BY <1>1
<1>3. Init => Inv
    BY MergingInit, UndisturbedInit
<1>4. Inv /\ [Next]_vars => Inv'
    BY MergingNext, UndisturbedNext
<1>5. Inv' => TypeOK'
    BY DEF Merging
<1> HIDE DEF P, Inv
<1>6. Inv /\ [Next]_vars => [P]_vars
    BY <1>2, <1>4, <1>5
<1>7. TotalsFollowDays <=> [][P]_vars
    BY DEF TotalsFollowDays, P
<1> QED BY <1>3, <1>4, <1>6, <1>7, PTL DEF Spec

-----------------------------------------------------------------------------
(* The readers.                                                            *)

(* Without a commit the days of a key stay, or go all at once.             *)
LEMMA DaysStayOrGo ==
    ASSUME TypeOK, [Next]_vars, \A i \in Writers : ~Commit(i), NEW k \in Keys
    PROVE  SumOfDays(k)' = SumOfDays(k) \/ SumOfDays(k)' = 0
<1>1. ASSUME daily' = daily PROVE SumOfDays(k)' = SumOfDays(k)
    BY <1>1, SumOfDaysStays
<1>2. ASSUME NEW i \in Writers, Begin(i) \/ Merge(i) \/ Rollback(i) PROVE SumOfDays(k)' = SumOfDays(k)
    <2>1. ~Commit(i)
        OBVIOUS
    <2>2. daily' = daily
        BY <1>2, <2>1, MergeKinds DEF Begin, Rollback, Elsewhere
    <2> QED BY <1>1, <2>2
<1>3. ASSUME NEW c \in Codes, Cascade(c) PROVE SumOfDays(k)' = SumOfDays(k) \/ SumOfDays(k)' = 0
    <2>1. daily' = [b \in Buckets |-> IF b[1] = c THEN 0 ELSE daily[b]]
        BY <1>3 DEF Cascade
    <2>2. \A d \in Days : <<k, d>> \in Buckets /\ <<k, d>>[1] = k
        BY BucketParts
    <2>3. CASE k = c
        <3>1. \A d \in Days : daily'[<<k, d>>] = 0
            BY <2>1, <2>2, <2>3
        <3> DEFINE f == [d \in Days |-> daily'[<<k, d>>]]
        <3>2. Summable(f, Days) /\ \A d \in Days \ {} : f[d] = 0
            BY <3>1 DEF Summable
        <3>3. SumOfDays(k)' = SumFunctionOnSet(f, Days)
            BY DEF SumOfDays
        <3> HIDE DEF f
        <3>4. SumFunctionOnSet(f, Days) = SumFunctionOnSet(f, {}) /\ SumFunctionOnSet(f, {}) = 0
            BY <3>2, SumOfPart, SumOfNone
        <3> QED BY <3>3, <3>4
    <2>4. CASE k # c
        BY <2>1, <2>2, <2>4, SumOfDaysStays
    <2> QED BY <2>3, <2>4
<1>4. ASSUME NEW c \in Codes, CreateLink(c) \/ DeleteLink(c) \/ DeleteFails(c) PROVE SumOfDays(k)' = SumOfDays(k)
    BY <1>1, <1>4 DEF CreateLink, DeleteLink, DeleteFails
<1>5. ASSUME NEW c \in Codes, NEW d \in Days, Click(c, d) PROVE SumOfDays(k)' = SumOfDays(k)
    BY <1>1, <1>5 DEF Click
<1>6. CASE UNCHANGED vars
    BY <1>1, <1>6 DEF vars
<1> QED BY <1>2, <1>3, <1>4, <1>5, <1>6 DEF Next

LEMMA ApiRefinesMerge == ApiSpec => Spec
<1>1. ApiInit => Init
    BY DEF ApiInit
<1>2. [ApiNext]_apiVars => [Next]_vars
    BY DEF ApiNext, apiVars, Tables, get_totals, get_link_stats, Fails, Over
<1> QED BY <1>1, <1>2, PTL DEF ApiSpec, Spec

Explained == ReadTypeOK /\ WithinTotal

LEMMA ExplainedInit == ApiInit => Explained
BY ApiAssumption DEF ApiInit, NoRead, Explained, ReadTypeOK, WithinTotal, Keys

LEMMA ExplainedNext ==
    Explained /\ Merging /\ TypeOK' /\ TotalsNeverBehind /\ [ApiNext]_apiVars => Explained'
<1>1. SUFFICES ASSUME Explained, Merging, TypeOK', TotalsNeverBehind, [ApiNext]_apiVars PROVE Explained'
    OBVIOUS
<1>2. TypeOK /\ ReadTypeOK /\ WithinTotal
    BY <1>1 DEF Merging, Explained
<1>3. Codes \subseteq Keys /\ Global \in Keys /\ "none" \notin Codes /\ "none" \notin Keys
    BY ApiAssumption DEF Keys
<1> USE <1>1, <1>2, <1>3
<1>4. \A k \in Keys : SumOfDays(k) \in Nat /\ SumOfDays(k)' \in Nat
    BY SumOfDaysIsNat
<1>5. ASSUME Tables, NEW i \in Writers, Commit(i) PROVE Explained'
    <2>1. reads' = [r \in Readers |-> IF reads[r].key \in Codes
                                      THEN [key |-> reads[r].key, total |-> 0, overtaken |-> TRUE] ELSE reads[r]]
        BY <1>5 DEF Tables
    <2>2. ReadTypeOK'
        BY <2>1 DEF ReadTypeOK
    <2>3. WithinTotal'
        BY <2>1 DEF WithinTotal, ReadTypeOK
    <2> QED BY <2>2, <2>3 DEF Explained
<1>6. ASSUME Tables, \A i \in Writers : ~Commit(i) PROVE Explained'
    <2>1. reads' = reads /\ Next
        BY <1>6 DEF Tables
    <2>2. ASSUME NEW r \in Readers, reads[r].key \in Codes, ~reads[r].overtaken
          PROVE  SumOfDays(reads[r].key)' <= reads[r].total
        <3> DEFINE k == reads[r].key
        <3>1. k \in Keys /\ reads[r].total \in Nat /\ SumOfDays(k) <= reads[r].total /\ SumOfDays(k) \in Nat
            BY <1>4, <2>2 DEF ReadTypeOK, WithinTotal
        <3> HIDE DEF k
        <3>2. SumOfDays(k)' = SumOfDays(k) \/ SumOfDays(k)' = 0
            <4>1. k' = k
                BY <2>1 DEF k
            <4>2. \A x \in Keys : SumOfDays(x)' = SumOfDays(x) \/ SumOfDays(x)' = 0
                BY <1>6, <2>1, DaysStayOrGo
            <4> QED BY <3>1, <4>1, <4>2
        <3>3. SumOfDays(k)' <= reads[r].total
            BY <3>1, <3>2
        <3> QED BY <3>3 DEF k
    <2> QED BY <2>1, <2>2 DEF Explained, ReadTypeOK, WithinTotal
<1>7. ASSUME NEW r \in Readers, NEW k \in Keys, get_totals(r, k) PROVE Explained'
    <2>1. /\ k \in links \cup {Global} /\ vars' = vars
          /\ reads' = [reads EXCEPT ![r] = [key |-> k, total |-> IF k = Global THEN 0 ELSE totals[k], overtaken |-> FALSE]]
        BY <1>7 DEF get_totals
    <2>2. daily' = daily
        BY <2>1 DEF vars
    <2>3. (IF k = Global THEN 0 ELSE totals[k]) \in Nat
        BY DEF TypeOK
    <2>4. ReadTypeOK'
        BY <2>1, <2>3 DEF ReadTypeOK
    <2>5. ASSUME NEW x \in Readers, reads'[x].key \in Codes, ~reads'[x].overtaken
          PROVE  SumOfDays(reads'[x].key) <= reads'[x].total
        <3>1. CASE x = r
            <4>1. reads'[x].key = k /\ reads'[x].total = totals[k] /\ k \in links
                BY <2>1, <2>5, <3>1 DEF ReadTypeOK
            <4>2. SumOfDays(k) <= totals[k]
                BY <1>4, <4>1 DEF TotalsNeverBehind, TypeOK
            <4> QED BY <4>1, <4>2
        <3>2. CASE x # r
            BY <2>1, <2>5, <3>2 DEF ReadTypeOK, WithinTotal
        <3> QED BY <3>1, <3>2
    <2>6. WithinTotal'
        BY <2>2, <2>5 DEF WithinTotal, SumOfDays
    <2> QED BY <2>4, <2>6 DEF Explained
<1>8. ASSUME NEW r \in Readers, Over(r) PROVE Explained'
    <2>1. reads' = [reads EXCEPT ![r] = NoRead] /\ daily' = daily
        BY <1>8 DEF Over, vars
    <2>2. ReadTypeOK'
        BY <2>1 DEF ReadTypeOK, NoRead
    <2>3. ASSUME NEW x \in Readers, reads'[x].key \in Codes, ~reads'[x].overtaken
          PROVE  SumOfDays(reads'[x].key) <= reads'[x].total
        <3>1. x # r
            BY <2>1, <2>3 DEF ReadTypeOK, NoRead
        <3> QED BY <2>1, <2>3, <3>1 DEF ReadTypeOK, WithinTotal
    <2>4. WithinTotal'
        BY <2>1, <2>3 DEF WithinTotal, SumOfDays
    <2> QED BY <2>2, <2>4 DEF Explained
<1>9. CASE UNCHANGED apiVars
    <2>1. reads' = reads /\ daily' = daily
        BY <1>9 DEF apiVars, vars
    <2> QED BY <2>1 DEF Explained, ReadTypeOK, WithinTotal, SumOfDays
<1> QED BY <1>5, <1>6, <1>7, <1>8, <1>9 DEF ApiNext, get_link_stats, Fails

(* The clicks per day of an answer add up to no more than its total,       *)
(* whatever window was asked for and whatever became of the link between   *)
(* the two queries, if no merge was committed between them.                *)
THEOREM AnswersAreExplained == ApiSpec => DaysWithinTotal
<1> DEFINE P == \A r \in Readers, days \in Windows :
                  get_link_stats(r, days) /\ ~reads[r].overtaken
                  => DailySince(reads[r].key, days) <= reads[r].total
           Inv == Merging /\ TotalsNeverBehind
<1>1. ASSUME Explained, TypeOK, NEW r \in Readers, NEW days \in Windows,
             reads[r].key \in Codes, ~reads[r].overtaken
      PROVE  DailySince(reads[r].key, days) <= reads[r].total
    <2> DEFINE k == reads[r].key
               f == [d \in Days |-> daily[<<k, d>>]]
               T == {d \in Days : d + days >= Today}
    <2>1. k \in Keys /\ reads[r].total \in Nat /\ SumOfDays(k) <= reads[r].total
        BY <1>1 DEF Keys, Explained, ReadTypeOK, WithinTotal
    <2>2. \A d \in Days : f[d] \in Nat
        BY <1>1, <2>1, BucketParts DEF TypeOK
    <2>3. T \in SUBSET Days /\ IsFiniteSet(T)
        BY FS_Subset
    <2>4. DailySince(k, days) = SumFunctionOnSet(f, T) /\ SumOfDays(k) = SumFunctionOnSet(f, Days)
        BY DEF DailySince, SumOfDays
    <2> HIDE DEF k, f, T
    <2>5. SumFunctionOnSet(f, T) <= SumFunctionOnSet(f, Days)
        BY <2>2, <2>3, SumOfFewer
    <2>6. SumFunctionOnSet(f, T) \in Nat /\ SumFunctionOnSet(f, Days) \in Nat
        BY <2>2, <2>3, SumIsNat
    <2>7. DailySince(k, days) <= reads[r].total
        BY <2>1, <2>4, <2>5, <2>6
    <2> QED BY <2>7 DEF k
<1>2. Explained /\ TypeOK => P
    BY <1>1 DEF get_link_stats
<1>3. Spec => []Inv
    BY MergingInit, NeverBehindInit, MergingNext, NeverBehindNext, PTL DEF Spec
<1>4. (Inv => Merging /\ TypeOK /\ TotalsNeverBehind) /\ (Inv' => TypeOK')
    BY DEF Merging
<1> HIDE DEF P, Inv
<1>5. Explained /\ Inv /\ Inv' /\ [ApiNext]_apiVars => Explained'
    BY <1>4, ExplainedNext
<1>6. Explained /\ Inv /\ [ApiNext]_apiVars => [P]_apiVars
    BY <1>2, <1>4
<1>7. DaysWithinTotal <=> [][P]_apiVars
    BY DEF DaysWithinTotal, P
<1> QED BY <1>3, <1>5, <1>6, <1>7, ExplainedInit, ApiRefinesMerge, PTL DEF ApiSpec
=============================================================================
