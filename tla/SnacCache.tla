----------------------------- MODULE SnacCache -----------------------------
(***************************************************************************)
(* The cache of outstanding SNAC requests (src/src/snac.c), a hash table   *)
(* of singly linked lists, with the server that answers the requests.      *)
(*                                                                         *)
(* A reply carries nothing but the id of the request it answers.  Requests *)
(* may stay unanswered (most replies are never matched against the cache), *)
(* replies may come late, out of order or more than once, ids wrap around, *)
(* some requests carry id 0 and are not cached, and aim_cleansnacs forgets *)
(* the old ones whenever an IM is sent.  All of this may happen together.  *)
(* tag numbers the requests and is what the id is supposed to stand for.   *)
(***************************************************************************)
EXTENDS Integers, Sequences, FiniteSets, SequencesExt

CONSTANTS
    HashSize,     \* FAIM_SNAC_HASH_SIZE (16 in the code)
    IdMod,        \* aim_snacid_t has IdMod values (2^32 in the code)
    Ages,         \* the maxage values aim_cleansnacs is called with
    MaxReqs,      \* bound: requests issued
    MaxTime       \* bound: seconds

ASSUME SizesAssumption == HashSize \in Nat \ {0} /\ IdMod \in Nat \ {0, 1}
ASSUME AgesAssumption == Ages \subseteq Int

VARIABLES
    snac_hash,    \* snac_hash[i]: the i-th list, head first
    snacid_next,  \* sess->snacid_next
    issued,       \* requests issued so far
    now,          \* time(NULL)
    asked,        \* the id the last step looked up, NoId if it was no lookup
    taken,        \* what its aim_remsnac returned: {} or {snac}
    pending       \* what the server may still answer

cacheVars == <<snac_hash, snacid_next, issued, now, asked, taken>>
vars == <<cacheVars, pending>>

Ids == 0..(IdMod - 1)
NoId == -1
Buckets == 0..(HashSize - 1)
Snacs == [id : Ids, tag : Nat, issuetime : Nat]

\* tag is 0 if the request was not cached; again tells that it was answered before.
Requests == [id : Ids, tag : Nat, again : BOOLEAN]

-----------------------------------------------------------------------------
(* aim_session_init, aim_initsnachash *)
Init ==
    /\ snac_hash = [i \in Buckets |-> <<>>]
    /\ snacid_next = 1
    /\ issued = 0
    /\ now = 0
    /\ asked = NoId
    /\ taken = {}
    /\ pending = {}

\* Mutants: the copy goes to the tail of its list, or into the list of the next id.
newsnac_Tail(snac) ==
    LET index == snac.id % HashSize
    IN  snac_hash' = [snac_hash EXCEPT ![index] = Append(@, snac)]

newsnac_WrongList(snac) ==
    LET index == (snac.id + 1) % HashSize
    IN  snac_hash' = [snac_hash EXCEPT ![index] = <<snac>> \o @]

\* aim_newsnac: the copy goes to the head of its list.
aim_newsnac(snac) ==
    LET index == snac.id % HashSize
    IN  snac_hash' = [snac_hash EXCEPT ![index] = <<snac>> \o @]

\* A request leaves with this id.
Send(id, tag) == pending' = pending \cup {[id |-> id, tag |-> tag, again |-> FALSE]}

\* Mutant: the id counter does not wrap.
cachesnac_Wide ==
    /\ issued < MaxReqs
    /\ issued' = issued + 1
    /\ snacid_next' = snacid_next + 1
    /\ aim_newsnac([id |-> snacid_next, tag |-> issued', issuetime |-> now])
    /\ Send(snacid_next, issued')
    /\ asked' = NoId
    /\ taken' = {}
    /\ UNCHANGED now

aim_cachesnac ==
    /\ issued < MaxReqs
    /\ issued' = issued + 1
    /\ snacid_next' = (snacid_next + 1) % IdMod
    /\ aim_newsnac([id |-> snacid_next, tag |-> issued', issuetime |-> now])
    /\ Send(snacid_next, issued')
    /\ asked' = NoId
    /\ taken' = {}
    /\ UNCHANGED now

\* A malloc() failed: the id is used up, nothing is cached, and 0 is returned, with
\* which the request leaves.
CacheSnacFails ==
    /\ issued < MaxReqs
    /\ issued' = issued + 1
    /\ snacid_next' = (snacid_next + 1) % IdMod
    /\ Send(0, 0)
    /\ asked' = NoId
    /\ taken' = {}
    /\ UNCHANGED <<snac_hash, now>>

\* aim_genericreq_n: a request with id 0 that is not cached.
aim_genericreq_n ==
    /\ Send(0, 0)
    /\ UNCHANGED cacheVars

\* The positions of id in its list.
Positions(list, id) == {i \in 1..Len(list) : list[i].id = id}

\* aim_remsnac: unlink and return the first entry with that id, if any.
aim_remsnac(id) ==
    LET index == id % HashSize
        list  == snac_hash[index]
        found == Positions(list, id)
        first == CHOOSE i \in found : \A j \in found : i <= j
    IN  IF found = {}
        THEN taken' = {} /\ UNCHANGED snac_hash
        ELSE /\ taken' = {list[first]}
             /\ snac_hash' = [snac_hash EXCEPT ![index] = RemoveAt(@, first)]

\* An answer is dispatched to a handler that looks its request up; others to the same
\* request may follow.  Assumed: the server answers no request after its id was given
\* out again.
Reply(r) ==
    /\ r \in pending
    /\ r.tag # 0 => issued - r.tag < IdMod
    /\ asked' = r.id
    /\ aim_remsnac(r.id)
    /\ \/ pending' = pending \ {r}
       \/ pending' = (pending \ {r}) \cup {[r EXCEPT !.again = TRUE]}
    /\ UNCHANGED <<snacid_next, issued, now>>

\* A reply to r that is not looked up, or no further one.
NeverLookedUp(r) ==
    /\ r \in pending
    /\ pending' = pending \ {r}
    /\ UNCHANGED cacheVars

\* What the walk along a list leaves of it when it unlinks these positions.
Unlink(list, old) ==
    LET left[n \in 0..Len(list)] ==
            IF n = 0 THEN <<>>
            ELSE IF n \in old THEN left[n - 1] ELSE Append(left[n - 1], list[n])
    IN  left[Len(list)]

aim_cleansnacs(maxage) ==
    /\ snac_hash' = [i \in Buckets |->
          LET list == snac_hash[i]
          IN  Unlink(list, {n \in 1..Len(list) : now - list[n].issuetime > maxage})]
    /\ asked' = NoId
    /\ taken' = {}
    /\ UNCHANGED <<snacid_next, issued, now, pending>>

Tick ==
    /\ now < MaxTime
    /\ now' = now + 1
    /\ UNCHANGED <<snac_hash, snacid_next, issued, asked, taken, pending>>

Next ==
    \/ aim_cachesnac
    \/ CacheSnacFails
    \/ aim_genericreq_n
    \/ \E r \in pending : Reply(r) \/ NeverLookedUp(r)
    \/ \E a \in Ages : aim_cleansnacs(a)
    \/ Tick

Spec == Init /\ [][Next]_vars

-----------------------------------------------------------------------------
(* Properties *)

\* Every variable has its type.
TypeOK ==
    /\ snac_hash \in [Buckets -> Seq(Snacs)]
    /\ snacid_next \in Ids
    /\ issued \in Nat
    /\ now \in Nat
    /\ asked \in Ids \cup {NoId}
    /\ taken \subseteq Snacs
    /\ pending \subseteq Requests

\* The hash table implements the collection of outstanding requests: a lookup
\* by id finds the newest request of that id wherever the lists have put it,
\* removes nothing else, and aging drops exactly the requests that are too old.
Map == INSTANCE SnacMap
          WITH outstanding <- UNION {ToSet(snac_hash[i]) : i \in Buckets}
ImplementsMap == Map!Spec

\* Which request a reply is attributed to: whatever wraps, fails, is repeated or is
\* forgotten, aim_remsnac returns for the first answer to a request with an id of its
\* own that request or nothing, although old requests nobody answered keep their ids
\* in the table.  An answer that is not the first, or whose id is 0, can find another
\* request, but one from before the ids wrapped around, never a newer one.
RightRequest ==
    [][\A r \in pending : Reply(r) => \A s \in taken' :
          \/ s.tag = r.tag
          \/ (r.again \/ r.id = 0) /\ s.tag + IdMod <= r.tag
          \/ r.tag = 0 /\ IdMod <= s.tag]_vars
=============================================================================
