----------------------------- MODULE ResponseCache -----------------------------
(***************************************************************************)
(* utils/cache.js: GET responses are kept in Redis under the reader's      *)
(* organisation, a write deletes its own organisation's entries after the  *)
(* response went out.  A list shows the data of the organisations in the   *)
(* reader's scope, so entries of other organisations may show it too.      *)
(*                                                                         *)
(* A read misses, queries the database and stores the answer; a write      *)
(* updates the database, answers, scans the keys and deletes those found.  *)
(* Nothing orders the steps of a read and a write.                         *)
(***************************************************************************)
EXTENDS Integers, FiniteSets

CONSTANTS Orgs, Scope,   \* Scope[o]: the organisations whose data o's users see
          Urls,          \* the cached lists of one resource
          Readers,       \* GET requests in flight
          Writers,       \* write requests in flight
          MaxChanges     \* bound: changes of an organisation's data

VARIABLES data,          \* version of each organisation's data in MongoDB
          cached,        \* Redis: [org, url] -> the versions the entry shows, and its excuse
          ready,         \* client.status = "ready"
          reading, writing

cache == <<data, cached, ready, reading, writing>>

Keys == Orgs \X Urls
Shown(o) == [p \in Orgs |-> IF p \in Scope[o] THEN data[p] ELSE 0]
NoEntry == [shows |-> [p \in Orgs |-> -1], excused |-> FALSE]
NotReading == [at |-> "idle", key |-> <<>>, saw |-> NoEntry]
NotWriting == [at |-> "idle", org |-> "none", found |-> {}]

\* History: what a change leaves behind is excused where no invalidation will come.
Behind(keys) ==
    /\ cached' = [k \in Keys |-> IF k \in keys /\ cached[k] # NoEntry
                                 THEN [cached[k] EXCEPT !.excused = TRUE] ELSE cached[k]]
Overtake(org) ==
    reading' = [r \in Readers |-> IF reading[r].at = "read" /\ org \in Scope[reading[r].key[1]]
                                  THEN [reading[r] EXCEPT !.saw.excused = TRUE] ELSE reading[r]]

\* A hit is answered from the entry; a miss goes on to the handler.
Miss(r, k) ==
    /\ ready /\ reading[r].at = "idle" /\ cached[k] = NoEntry
    /\ reading' = [reading EXCEPT ![r] = [at |-> "missed", key |-> k, saw |-> NoEntry]]
    /\ UNCHANGED <<data, cached, ready, writing>>

Query(r) ==
    /\ reading[r].at = "missed"
    /\ reading' = [reading EXCEPT ![r].at = "read",
                                  ![r].saw = [shows |-> Shown(reading[r].key[1]), excused |-> FALSE]]
    /\ UNCHANGED <<data, cached, ready, writing>>

\* setex is not awaited; the commands of a client that is not ready wait or are dropped.
Store(r) ==
    /\ reading[r].at = "read"
    /\ cached' = IF ready THEN [cached EXCEPT ![reading[r].key] = reading[r].saw] ELSE cached
    /\ reading' = [reading EXCEPT ![r] = NotReading]
    /\ UNCHANGED <<data, ready, writing>>

Expire(k) ==
    /\ cached[k] # NoEntry
    /\ cached' = [cached EXCEPT ![k] = NoEntry]
    /\ UNCHANGED <<data, ready, reading, writing>>

\* invalidateAfterWrite watches the response of every write of the resource's router.
\* Mutant: creations, answered with 201, are not invalidated.
OkOnly(status) == status = 200
Success(status) == status \in 200 .. 299

Change(w, o) ==
    /\ writing[w].at = "idle" /\ data[o] < MaxChanges
    /\ data' = [data EXCEPT ![o] = @ + 1]
    /\ \E status \in {200, 201} :
          writing' = [writing EXCEPT ![w] =
                        IF Success(status) THEN [at |-> "answered", org |-> o, found |-> {}] ELSE NotWriting]
    /\ Behind({k \in Keys : k[1] # o /\ o \in Scope[k[1]]})
    /\ Overtake(o)
    /\ UNCHANGED ready

\* A handler of another router changes the data: plans and trips change orders.
ChangeElsewhere(o) ==
    /\ data[o] < MaxChanges
    /\ data' = [data EXCEPT ![o] = @ + 1]
    /\ Behind({k \in Keys : o \in Scope[k[1]]})
    /\ Overtake(o)
    /\ UNCHANGED <<ready, writing>>

Matching(o) == {k \in Keys : k[1] = o /\ cached[k] # NoEntry}

Scan(w) ==
    /\ ready /\ writing[w].at = "answered"
    /\ writing' = [writing EXCEPT ![w].at = "scanned", ![w].found = Matching(writing[w].org)]
    /\ UNCHANGED <<data, cached, ready, reading>>

Delete(w) ==
    /\ ready /\ writing[w].at = "scanned"
    /\ cached' = [k \in Keys |-> IF k \in writing[w].found THEN NoEntry ELSE cached[k]]
    /\ writing' = [writing EXCEPT ![w] = NotWriting]
    /\ UNCHANGED <<data, ready, reading>>

\* Redis out of reach: the invalidation is skipped or fails with a warning.
InvalidationLost(w) ==
    /\ ~ready /\ writing[w].at \in {"answered", "scanned"}
    /\ Behind({k \in Keys : k[1] = writing[w].org})
    /\ writing' = [writing EXCEPT ![w] = NotWriting]
    /\ UNCHANGED <<data, ready, reading>>

\* Seeding or clearing demo data flushes the organisation's entries in one go.
FlushOrg(o) ==
    /\ ready
    /\ cached' = [k \in Keys |-> IF k[1] = o THEN NoEntry ELSE cached[k]]
    /\ UNCHANGED <<data, ready, reading, writing>>

RedisComesAndGoes ==
    /\ ready' = ~ready
    /\ UNCHANGED <<data, cached, reading, writing>>

CacheInit ==
    /\ data = [o \in Orgs |-> 0]
    /\ cached = [k \in Keys |-> NoEntry]
    /\ ready = TRUE
    /\ reading = [r \in Readers |-> NotReading]
    /\ writing = [w \in Writers |-> NotWriting]

CacheNext ==
    \/ \E r \in Readers, k \in Keys : Miss(r, k)
    \/ \E r \in Readers : Query(r)
    \/ \E r \in Readers : Store(r)
    \/ \E k \in Keys : Expire(k)
    \/ \E w \in Writers, o \in Orgs : Change(w, o)
    \/ \E o \in Orgs : ChangeElsewhere(o)
    \/ \E w \in Writers : Scan(w)
    \/ \E w \in Writers : Delete(w)
    \/ \E w \in Writers : InvalidationLost(w)
    \/ \E o \in Orgs : FlushOrg(o)
    \/ RedisComesAndGoes

CacheSpec == CacheInit /\ [][CacheNext]_cache

-----------------------------------------------------------------------------
\* "client request sau đọc data mới" (cache.js 97): an entry that shows old data is
\* about to be deleted, or is one the code cannot delete: stored by a read that
\* overlapped the write, written by another organisation or router, or left over
\* from an invalidation that Redis never received.  Nothing else outlives its data
\* for the rest of its time to live.
StaleHasACause ==
    \A k \in Keys :
       cached[k] # NoEntry /\ cached[k].shows # Shown(k[1])
       => \/ cached[k].excused
          \/ \E w \in Writers : writing[w].org = k[1] /\ (writing[w].at = "answered" \/ k \in writing[w].found)
=============================================================================
