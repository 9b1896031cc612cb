------------------------------ MODULE SnacMap ------------------------------
(***************************************************************************)
(* What the SNAC cache (src/src/snac.c) promises its callers: a collection *)
(* of outstanding requests from which the reply to an id takes the newest  *)
(* request issued under that id, and only that one.                        *)
(***************************************************************************)
EXTENDS Integers, FiniteSets

CONSTANTS
    IdMod,     \* aim_snacid_t has IdMod values (2^32 in the code)
    Ages,      \* the maxage values aim_cleansnacs is called with
    MaxReqs,   \* bound: requests issued
    MaxTime    \* bound: seconds

VARIABLES
    outstanding,  \* the requests cached and not taken: [id, tag, issuetime]
    snacid_next,  \* sess->snacid_next
    issued,       \* requests issued so far: the tag of the newest
    now,          \* time(NULL)
    asked,        \* the id the last step looked up, NoId if it was no lookup
    taken         \* what the lookup returned: {} or {request}

vars == <<outstanding, snacid_next, issued, now, asked, taken>>

NoId == -1

Init ==
    /\ outstanding = {}
    /\ snacid_next = 1
    /\ issued = 0
    /\ now = 0
    /\ asked = NoId
    /\ taken = {}

\* A request gets the next id; it is remembered unless memory runs out.
Issue ==
    /\ issued < MaxReqs
    /\ issued' = issued + 1
    /\ snacid_next' = (snacid_next + 1) % IdMod
    /\ \/ outstanding' = outstanding \cup
             {[id |-> snacid_next, tag |-> issued', issuetime |-> now]}
       \/ outstanding' = outstanding
    /\ asked' = NoId
    /\ taken' = {}
    /\ UNCHANGED now

Newest(id) ==
    {e \in outstanding : e.id = id /\ \A d \in outstanding : d.id = id => d.tag <= e.tag}

Take(id) ==
    /\ asked' = id
    /\ taken' = Newest(id)
    /\ outstanding' = outstanding \ Newest(id)
    /\ UNCHANGED <<snacid_next, issued, now>>

\* Exactly the requests older than maxage are forgotten.
Expire(maxage) ==
    /\ outstanding' = {e \in outstanding : now - e.issuetime <= maxage}
    /\ asked' = NoId
    /\ taken' = {}
    /\ UNCHANGED <<snacid_next, issued, now>>

Tick ==
    /\ now < MaxTime
    /\ now' = now + 1
    /\ UNCHANGED <<outstanding, snacid_next, issued, asked, taken>>

Next ==
    \/ Issue
    \/ \E id \in 0..(IdMod - 1) : Take(id)
    \/ \E a \in Ages : Expire(a)
    \/ Tick

Spec == Init /\ [][Next]_vars
=============================================================================
