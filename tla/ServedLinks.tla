----------------------------- MODULE ServedLinks -----------------------------
(***************************************************************************)
(* What core promises of the redirect cache, without its requests, queue   *)
(* and worker.  An entry is filled with a link that was stored under its   *)
(* code, never for longer than that link has left and a wait allows, and   *)
(* only with the code's present link unless a removal is still to reach    *)
(* the cache.  A removal that is over has emptied the entry.  A code that  *)
(* lost its removal, or was sent a link that was gone, is known as astray. *)
(***************************************************************************)
EXTENDS Integers

CONSTANTS Codes, Never, None, NoLink, Empty, MaxWait, Retention

VARIABLES
    links,      \* each code's link and the time to its expiration
    entry,      \* what a redirect is served, and for how long
    known,      \* <<code, number>> of every link ever stored
    removing,   \* codes with a removal that the cache does not know yet
    astray      \* codes whose entry may be out of date without a removal

vars == <<links, entry, known, removing, astray>>

Init ==
    /\ links = [c \in Codes |-> NoLink] /\ entry = [c \in Codes |-> Empty]
    /\ known = {} /\ removing = {} /\ astray = {}

Current(c, id) == id = links[c].id
Serves(c) == entry[c].id # None

(* Numbers are not used again: a new link is not what any entry holds.     *)
Store(c, new) ==
    /\ links[c] = NoLink /\ new.id # None /\ \A k \in known : k[2] # new.id
    /\ links' = [links EXCEPT ![c] = new]
    /\ known' = known \cup {<<c, new.id>>}
    /\ UNCHANGED <<entry, removing, astray>>

Remove(c) ==
    /\ links[c] # NoLink /\ links' = [links EXCEPT ![c] = NoLink]
    /\ removing' = removing \cup {c}
    /\ UNCHANGED <<entry, known, astray>>

(* A link long expired goes without a removal: nothing of it is served.    *)
Purge(c) ==
    /\ links[c].exp = -Retention /\ ~(Serves(c) /\ Current(c, entry[c].id))
    /\ links' = [links EXCEPT ![c] = NoLink]
    /\ UNCHANGED <<entry, known, removing, astray>>

Fill(c, new) ==
    /\ <<c, new.id>> \in known /\ new.ttl > 0
    /\ Current(c, new.id) \/ c \in removing \cup astray
    /\ Current(c, new.id) /\ links[c].exp # Never => new.ttl <= links[c].exp + MaxWait
    /\ entry' = [entry EXCEPT ![c] = new]
    /\ UNCHANGED <<links, known, removing, astray>>

(* The removal reaches the cache, or one of several of the code does.      *)
Drop(c) ==
    /\ c \in removing /\ removing' \in {removing, removing \ {c}}
    /\ entry' = [entry EXCEPT ![c] = Empty]
    /\ UNCHANGED <<links, known, astray>>

(* A removal is lost, or a link is sent that the code does not have.       *)
Stray(c) ==
    /\ astray' = astray \cup {c} /\ removing' \in {removing, removing \ {c}}
    /\ UNCHANGED <<links, entry, known>>

LoseRemovals ==
    /\ astray' = astray \cup removing /\ removing' = {}
    /\ UNCHANGED <<links, entry, known>>

LoseEntries ==
    /\ entry' = [c \in Codes |-> Empty]
    /\ UNCHANGED <<links, known, removing, astray>>

(* Time takes from the entries what it takes from the links, or more.      *)
Elapsed(exp) == IF exp = Never THEN Never ELSE IF exp > -Retention THEN exp - 1 ELSE -Retention
Tick ==
    /\ links' = [c \in Codes |-> [links[c] EXCEPT !.exp = Elapsed(@)]]
    /\ entry' = [c \in Codes |-> IF entry[c].ttl <= 1 THEN Empty ELSE [entry[c] EXCEPT !.ttl = @ - 1]]
    /\ UNCHANGED <<known, removing, astray>>

Next ==
    \/ \E c \in Codes :
          Store(c, links'[c]) \/ Remove(c) \/ Purge(c) \/ Fill(c, entry'[c]) \/ Drop(c) \/ Stray(c)
    \/ LoseRemovals \/ LoseEntries \/ Tick

Spec == Init /\ [][Next]_vars

=============================================================================
