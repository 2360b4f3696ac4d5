---------------------------- MODULE AnalyticsApi ----------------------------
(***************************************************************************)
(* The statistics analytics answers over gRPC, while SnapshotMerge goes on *)
(* in the same tables: a total and the clicks per day, in two queries      *)
(* outside a transaction.                                                  *)
(***************************************************************************)
EXTENDS SnapshotMerge

CONSTANTS
    Readers,            \* calls at a time
    Asked,              \* the days a request may ask for
    Today,
    DefaultDays, MaxDays

ASSUME ApiAssumption ==
    /\ Asked \subseteq Nat /\ Days \subseteq Nat /\ Today \in Nat /\ "none" \notin Keys
    /\ DefaultDays \in 1 .. MaxDays /\ MaxDays \in Nat \ {0}

VARIABLE
    reads       \* of each call: the key between its queries, the total it has
                \* read, and (history) if a merge was committed since

apiVars == <<vars, reads>>

NoRead == [key |-> "none", total |-> 0, overtaken |-> FALSE]

ApiInit == Init /\ reads = [r \in Readers |-> NoRead]

-----------------------------------------------------------------------------
(* clamp_days; a request that does not say gets the default.               *)
clamp_days(days) == IF days < 1 THEN 1 ELSE IF days > MaxDays THEN MaxDays ELSE days
Windows == {DefaultDays} \cup {clamp_days(d) : d \in Asked}

(* day >= today - days, so that a week has eight days.                     *)
DailySince(c, days) == SumFunctionOnSet([d \in Days |-> daily[<<c, d>>]], {d \in Days : d + days >= Today})

(* The first query.  A code without a link is answered NotFound, and an    *)
(* error Internal: the call is over and nothing has changed.               *)
get_totals(r, k) ==
    /\ reads[r].key = "none" /\ k \in links \cup {Global}
    /\ reads' = [reads EXCEPT ![r] = [key |-> k, total |-> IF k = Global THEN 0 ELSE totals[k], overtaken |-> FALSE]]
    /\ UNCHANGED vars

Over(r) == reads' = [reads EXCEPT ![r] = NoRead] /\ UNCHANGED vars

(* The second query answers the call.  A link that is gone has no days.    *)
get_link_stats(r, days) ==
    /\ reads[r].key \in Codes
    /\ Over(r)

(* The second query fails; get_global_daily_stats is todo!(), so that the  *)
(* global statistics always end here.                                      *)
Fails(r) == reads[r].key # "none" /\ Over(r)

(* Whatever else happens to the tables.  What a reader has read does not   *)
(* matter any more once it is overtaken.                                   *)
Tables ==
    /\ Next
    /\ reads' = IF \E i \in Writers : Commit(i)
                THEN [r \in Readers |-> IF reads[r].key \in Codes
                                        THEN [key |-> reads[r].key, total |-> 0, overtaken |-> TRUE]
                                        ELSE reads[r]]
                ELSE reads

ApiNext ==
    \/ Tables
    \/ \E r \in Readers :
        \/ \E k \in Keys : get_totals(r, k)
        \/ \E days \in Windows : get_link_stats(r, days)
        \/ Fails(r)

ApiSpec == ApiInit /\ [][ApiNext]_apiVars

-----------------------------------------------------------------------------
(* What a reader sees is explained: the clicks per day add up to no more   *)
(* than the total of the same answer, whichever window was asked for, and  *)
(* also if the link was deleted and its code taken by another one between  *)
(* the two queries.  Only a merge committed between them shows a week that *)
(* is ahead of its total.                                                  *)
DaysWithinTotal ==
    [][\A r \in Readers, days \in Windows :
        get_link_stats(r, days) /\ ~reads[r].overtaken
        => DailySince(reads[r].key, days) <= reads[r].total]_apiVars

=============================================================================
