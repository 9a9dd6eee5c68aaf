----------------------------- MODULE StoreScan -----------------------------
(***************************************************************************)
(* Session iteration: Manager.Iterate (manager.go) takes every stored      *)
(* session from doStoreAll, which calls RedisStore.AllCtx when Iterate is  *)
(* given a context and RedisStore.All when it is given nil.  Both page     *)
(* through Redis with SCAN cursor MATCH prefix* and read each page with    *)
(* MGET.  While the iterator runs, request goroutines commit and delete    *)
(* sessions, so the store changes between the SCAN, the MGET and the next  *)
(* SCAN.                                                                    *)
(*                                                                         *)
(* SCAN is abstracted by its documented guarantee: the keyspace is a       *)
(* sequence of NB slots, the reply to cursor c holds the matching keys of  *)
(* slot c that are present at that moment, and its cursor is the next     *)
(* slot, 0 after the last one.  A slot with no matching key gives an empty *)
(* page with a non-zero cursor, as MATCH filtering does.  Values are left  *)
(* out: a record is its key, and MGET gives "" for a key deleted since the *)
(* SCAN.                                                                    *)
(***************************************************************************)
EXTENDS Naturals, FiniteSets

CONSTANTS
    Keys,       \* session keys (prefix ++ token) that requests may store
    NB,         \* number of SCAN slots
    Bucket,     \* the slot of each key: a function Keys -> 0..NB-1
    CtxKinds    \* the contexts Iterate may be given: subset of {"nil", "ctx"}

ASSUME NB \in Nat \ {0} /\ Bucket \in [Keys -> 0..(NB - 1)]
ASSUME CtxKinds \subseteq {"nil", "ctx"}

VARIABLES
    store,      \* keys present in Redis
    iter,       \* where Iterate is: idle, scan, mget, visit, done
    variant,    \* "All" or "AllCtx": which store method doStoreAll called
    cursor,     \* the cursor variable of the SCAN loop
    page,       \* entry: the last SCAN reply [elements, cursor]
    all,        \* keys of the map the loop builds
    toVisit,    \* keys of allSessions Iterate has not ranged over yet
    visited,    \* tokens fn has been called with
    outcome,    \* "ok" or "err": what Iterate returned
    stable      \* keys stored when Iterate began and not deleted since

vars == <<store, iter, variant, cursor, page, all, toVisit, visited,
          outcome, stable>>

NoPage == [elements |-> {}, cursor |-> 0]

TypeOK ==
    /\ store \subseteq Keys
    /\ iter \in {"idle", "scan", "mget", "visit", "done"}
    /\ variant \in {"All", "AllCtx"}
    /\ cursor \in 0..(NB - 1)
    /\ page \in [elements : SUBSET Keys, cursor : 0..(NB - 1)]
    /\ all \subseteq Keys /\ toVisit \subseteq Keys /\ visited \subseteq Keys
    /\ outcome \in {"none", "ok", "err"}
    /\ stable \subseteq Keys

Init ==
    /\ store \in SUBSET Keys
    /\ iter = "idle"
    /\ variant = "All"
    /\ cursor = 0
    /\ page = NoPage
    /\ all = {} /\ toVisit = {} /\ visited = {}
    /\ outcome = "none"
    /\ stable = {}

(* SCAN cursor MATCH prefix*: the present keys of slot c, next cursor.     *)
ScanReply(c) ==
    [elements |-> {k \in store : Bucket[k] = c}, cursor |-> (c + 1) % NB]

(* Iterate returning err from doStoreAll, from a store call or from fn.    *)
Fail ==
    /\ iter' = "done" /\ outcome' = "err"
    /\ UNCHANGED <<store, variant, cursor, page, all, toVisit, visited, stable>>

(* doStoreAll returned: Iterate ranges over the map.                       *)
Return(m) ==
    /\ iter' = "visit" /\ toVisit' = m

(* Manager.Iterate -> doStoreAll: AllCtx when ctx is non-nil, else All.    *)
Iterate ==
    /\ iter = "idle"
    /\ \E k \in CtxKinds :
        variant' = IF k = "ctx" THEN "AllCtx" ELSE "All"
    /\ iter' = "scan" /\ cursor' = 0 /\ all' = {}
    /\ stable' = store
    /\ UNCHANGED <<store, page, toVisit, visited, outcome>>

(* All, one turn of the loop up to the MGET: the cursor is taken from the  *)
(* reply and the loop breaks on 0 before that reply's elements are read;   *)
(* an empty page goes round again.                                         *)
AllScan ==
    /\ iter = "scan" /\ variant = "All"
    /\ LET e == ScanReply(cursor) IN
        /\ cursor' = e.cursor /\ page' = e
        /\ IF e.cursor = 0 THEN Return(all)
           ELSE IF e.elements = {} THEN UNCHANGED <<iter, toVisit>>
           ELSE iter' = "mget" /\ UNCHANGED toVisit
    /\ UNCHANGED <<store, variant, all, visited, outcome, stable>>

(* AllCtx, one turn up to the MGET: an empty page goes round again with    *)
(* the cursor it had, before the reply's cursor is taken.                  *)
AllCtxScan ==
    /\ iter = "scan" /\ variant = "AllCtx"
    /\ LET e == ScanReply(cursor) IN
        IF e.elements = {} THEN UNCHANGED vars
        ELSE /\ page' = e /\ iter' = "mget"
             /\ UNCHANGED <<store, variant, cursor, all, toVisit, visited,
                            outcome, stable>>

(* MGET of the page: a key deleted since the SCAN reads "" and is skipped. *)
(* AllCtx then takes the reply's cursor and breaks on 0.                   *)
Mget ==
    /\ iter = "mget"
    /\ all' = all \cup (page.elements \cap store)
    /\ IF variant = "All"
       THEN iter' = "scan" /\ UNCHANGED <<cursor, toVisit>>
       ELSE /\ cursor' = page.cursor
            /\ IF page.cursor = 0 THEN Return(all')
               ELSE iter' = "scan" /\ UNCHANGED toVisit
    /\ UNCHANGED <<store, variant, page, visited, outcome, stable>>

(* SCAN or MGET answering an error: All/AllCtx return nil, err.            *)
StoreError ==
    /\ iter \in {"scan", "mget"}
    /\ Fail

(* Iterate: one session of the map handed to fn; fn returning nil.         *)
Visit ==
    /\ iter = "visit"
    /\ IF toVisit = {}
       THEN iter' = "done" /\ outcome' = "ok" /\ UNCHANGED <<toVisit, visited>>
       ELSE \E k \in toVisit :
              /\ toVisit' = toVisit \ {k} /\ visited' = visited \cup {k}
              /\ UNCHANGED <<iter, outcome>>
    /\ UNCHANGED <<store, variant, cursor, page, all, stable>>

(* fn returning an error for the session it was given.                     *)
VisitError ==
    /\ iter = "visit" /\ toVisit # {}
    /\ Fail

(* A request goroutine committing a session (SET) or deleting it (DEL).    *)
Commit(k) ==
    /\ store' = store \cup {k}
    /\ UNCHANGED <<iter, variant, cursor, page, all, toVisit, visited,
                   outcome, stable>>

Delete(k) ==
    /\ store' = store \ {k}
    /\ stable' = stable \ {k}
    /\ UNCHANGED <<iter, variant, cursor, page, all, toVisit, visited, outcome>>

(* The steps of the iterating goroutine that do not depend on an error.    *)
Iterator == AllScan \/ AllCtxScan \/ Mget \/ Visit

Next ==
    \/ Iterate \/ Iterator \/ StoreError \/ VisitError
    \/ \E k \in Keys : Commit(k) \/ Delete(k)

(* The iterating goroutine is never starved: it keeps issuing its calls.   *)
(* Redis errors, fn errors and other requests' writes are not assumed.    *)
Spec == Init /\ [][Next]_vars /\ WF_vars(Iterator)

-----------------------------------------------------------------------------
(* Manager.Iterate's doc: it "retrieves all active sessions from the store *)
(* and executes fn for each".  Once Iterate has begun it returns, and when *)
(* it returns nil, fn has been called for every session that was stored    *)
(* throughout the iteration (SCAN's guarantee), whichever of RedisStore.All*)
(* or AllCtx doStoreAll used.                                              *)
IterateVisitsAll ==
    iter \in {"scan", "mget", "visit"}
        ~> (iter = "done" /\ (outcome = "ok" => stable \subseteq visited))

=============================================================================
