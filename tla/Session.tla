------------------------------ MODULE Session -------------------------------
(***************************************************************************)
(* The session middleware of middleware/session: Config.Handle (scs.go),   *)
(* the pooled per-request Data (data.go) and the Manager (manager.go),     *)
(* over the Redis store (RedisStore) and the JSON codec (JSONCodec).       *)
(*                                                                         *)
(* Workers are fasthttp goroutines, each serving one request at a time for *)
(* some client; a client's requests carry its current session cookie and   *)
(* two workers may serve the same client at once.  A request goes          *)
(*    Begin (getSession: pool Acquire + SetToken)                          *)
(*    Start (Data.Start, LoadSession)                                      *)
(*    handler operations on the session, at most MaxOps of them            *)
(*    Commit (Manager.commit: EXPIREAT, then SET unless EXPIREAT hit a     *)
(*    key; the cookie; DataPool.Release).  Another request, or the key's   *)
(*    expiry, can come between the two Redis calls.                        *)
(* A panic in a handler goroutine is not recovered by fasthttp: it ends    *)
(* the process ("crashed") and Restart brings up a new one with an empty   *)
(* pool; Redis keeps its contents.                                         *)
(*                                                                         *)
(* Data's token is a slice into a buffer that holds sessionPrefix followed *)
(* by the token bytes; every store key is built from the slice's data      *)
(* pointer with a fixed length (unsafe.Slice(ptr - len(prefix), 55)), so   *)
(* the key is made of the bytes in the buffer whatever the slice length.   *)
(* A Data record keeps those bytes as "buf" and the slice length as        *)
(* "hasToken".  Tokens and CSRF tokens are numbered as they are generated  *)
(* (crypto/rand never repeats one in practice); buffer bytes 0 are the     *)
(* zeroed bytes of a new buffer.  A cookie of 0 is an absent or empty      *)
(* session cookie.  Clients present only tokens the server issued, so      *)
(* isValidToken accepts every non-empty cookie.                            *)
(***************************************************************************)
EXTENDS Naturals, FiniteSets, Functions, TLC

CONSTANTS
    Workers,      \* fasthttp worker goroutines
    Clients,      \* browsers holding a session cookie
    DataObjs,     \* Data objects the DataPool can hand out
    Keys,         \* session value keys
    Payloads,     \* opaque session value payloads
    PutTypes,     \* Go types of the values handlers Put
    HandlerOps,   \* the session operations handlers call
    MaxRequests,  \* bound on requests served
    MaxOps,       \* bound on session operations per request
    StoreFails,   \* whether Redis calls may return an error
    Corruption,   \* whether a stored blob may be replaced by garbage
    Prefix,       \* the bytes "scs:session:"
    Junk,         \* other bytes that may precede a caller's slice in memory
    Nil,          \* a nil slice or nil map
    Corrupt       \* a blob that does not unmarshal

Ops == {"Put", "Remove", "Clear", "Destroy", "RenewToken", "Regenerate",
        "MergeSession", "Invalidate"}

ASSUME /\ HandlerOps \subseteq Ops
       /\ Cardinality(DataObjs) >= Cardinality(Workers)
       /\ MaxRequests \in Nat /\ MaxOps \in Nat
       /\ StoreFails \in BOOLEAN /\ Corruption \in BOOLEAN
       /\ 0 \notin Payloads

Redis == INSTANCE RedisStore
Codec == INSTANCE JSONCodec

VARIABLES
    pc,          \* pc[w]: "Idle", "Load" (before Start), "Handler", or "Set"
                 \* (Commit's SET still to be sent)
    cl,          \* cl[w]: the client whose request w serves
    obj,         \* obj[w]: the Data object w acquired
    newToken,    \* newToken[w]: SetToken generated a token
    nops,        \* nops[w]: session operations done by the handler
    data,        \* data[d]: the fields of Data object d
    free,        \* Data objects in the pool
    store,       \* Redis contents
    cookie,      \* cookie[c]: the session cookie client c holds
    nextTok,     \* tokens generated so far
    nextCsrf,    \* CSRF tokens generated so far
    reqs,        \* requests begun
    crashed,     \* the process has died of a panic
    destroyed,   \* tokens whose session Destroy deleted
    renewed,     \* tokens RenewToken or Invalidate replaced
    metCorrupt   \* keys whose corrupt blob a LoadSession has met

vars == <<pc, cl, obj, newToken, nops, data, free, store, cookie, nextTok,
          nextCsrf, reqs, crashed, destroyed, renewed, metCorrupt>>

Values == [type : PutTypes, data : Payloads]
NoValues == [k \in {} |-> Nil]
Statuses == {"Unmodified", "Modified", "Destroyed"}

\* sessionPrefix ++ token bytes: the key of a token
Key(t) == <<Prefix, t>>
\* the key every Manager store call builds from d.token
DataKey(d) == Key(data[d].buf)

-----------------------------------------------------------------------------
(* Data objects                                                            *)

\* DataPool's New: prefix copied in, token slice empty over zeroed bytes,
\* empty CSRF slice of capacity 30, empty map.
NewData == [buf |-> 0, hasToken |-> FALSE, csrf |-> 0, values |-> NoValues,
            status |-> "Unmodified", started |-> FALSE]

\* Data.reset: slices cut to length 0 (a nil one stays nil), map cleared.
Reset(r) == [r EXCEPT !.hasToken = FALSE,
                      !.csrf     = IF r.csrf = Nil THEN Nil ELSE 0,
                      !.values   = IF r.values = Nil THEN Nil ELSE NoValues,
                      !.status   = "Unmodified",
                      !.started  = FALSE]

\* Data.Migrate(destroy): delete the old record, then a new token.
MigrateStore(d, destroy) ==
    IF destroy /\ data[d].hasToken THEN Redis!Delete(store, DataKey(d)) ELSE store
Migrate(r) == [r EXCEPT !.buf = nextTok + 1, !.hasToken = TRUE, !.status = "Modified"]

SetData(d, r) == data' = [data EXCEPT ![d] = r]

\* The end of Handle: DataPool.Release (reset) and the worker is free.
ReleaseAndIdle(w, r) ==
    /\ data' = [data EXCEPT ![obj[w]] = Reset(r)]
    /\ free' = free \cup {obj[w]}
    /\ pc' = [pc EXCEPT ![w] = "Idle"]

Panic == crashed' = TRUE

-----------------------------------------------------------------------------
Init ==
    /\ pc = [w \in Workers |-> "Idle"]
    /\ cl = [w \in Workers |-> CHOOSE c \in Clients : TRUE]
    /\ obj = [w \in Workers |-> CHOOSE d \in DataObjs : TRUE]
    /\ newToken = [w \in Workers |-> FALSE]
    /\ nops = [w \in Workers |-> 0]
    /\ data = [d \in DataObjs |-> NewData]
    /\ free = DataObjs
    /\ store = << >>
    /\ cookie = [c \in Clients |-> 0]
    /\ nextTok = 0
    /\ nextCsrf = 0
    /\ reqs = 0
    /\ crashed = FALSE
    /\ destroyed = {}
    /\ renewed = {}
    /\ metCorrupt = {}

\* Data.SetToken: a present, valid cookie is copied into the token;
\* otherwise GenerateToken2 writes a new token into the buffer.
SetToken(c) == IF cookie[c] # 0 THEN cookie[c] ELSE nextTok + 1

\* Handle -> getSession: Acquire a Data, SetToken(cookie).  A present,
\* valid cookie is copied into the token; otherwise GenerateToken2 writes a
\* new token into the buffer.  (New() and a reset object differ only in
\* the buffer bytes, which SetToken overwrites.)
Begin(w, c) ==
    /\ ~crashed /\ pc[w] = "Idle" /\ reqs < MaxRequests
    /\ \E d \in free :
         /\ SetData(d, [data[d] EXCEPT !.buf = SetToken(c), !.hasToken = TRUE])
         /\ free' = free \ {d}
         /\ obj' = [obj EXCEPT ![w] = d]
    /\ newToken' = [newToken EXCEPT ![w] = (cookie[c] = 0)]
    /\ nextTok' = IF cookie[c] = 0 THEN nextTok + 1 ELSE nextTok
    /\ cl' = [cl EXCEPT ![w] = c]
    /\ pc' = [pc EXCEPT ![w] = "Load"]
    /\ nops' = [nops EXCEPT ![w] = 0]
    /\ reqs' = reqs + 1
    /\ UNCHANGED <<store, cookie, nextCsrf, crashed, destroyed, renewed, metCorrupt>>

\* Data.Start -> LoadSession: Find fails.  Start returns the StoreError,
\* handleStatefulRequest returns it without running the chain, Handle
\* releases the Data; no cookie is sent.
StartStoreError(w) ==
    /\ ~crashed /\ pc[w] = "Load" /\ ~newToken[w] /\ StoreFails
    /\ ReleaseAndIdle(w, data[obj[w]])
    /\ UNCHANGED <<cl, obj, newToken, nops, store, cookie, nextTok, nextCsrf,
                   reqs, crashed, destroyed, renewed, metCorrupt>>

\* Data.Start -> LoadSession finds a blob that does not decode.  Decode
\* returns nil for both the CSRF token and the map, the record is deleted
\* with Store.Delete, and LoadSession returns nil.  Start then generates a
\* CSRF token into d.csrfToken[:30] of the nil slice, which panics.
StartCorrupt(w) ==
    LET d == obj[w] IN
    /\ ~crashed /\ pc[w] = "Load" /\ ~newToken[w]
    /\ Redis!Find(store, DataKey(d)).found
    /\ Codec!DecodeFails(store[DataKey(d)])
    /\ SetData(d, [data[d] EXCEPT !.csrf = Nil, !.values = Nil])
    /\ store' = Redis!Delete(store, DataKey(d))
    /\ metCorrupt' = metCorrupt \cup {DataKey(d)}
    /\ Panic
    /\ UNCHANGED <<pc, cl, obj, newToken, nops, free, cookie, nextTok, nextCsrf,
                   reqs, destroyed, renewed>>

\* Variant of Start that generates a CSRF token only for a new session.
StartCsrfOnlyWhenNew(w) ==
    LET d     == obj[w]
        found == Redis!Find(store, DataKey(d))
        load  == ~newToken[w] /\ found.found
        dec   == Codec!Decode(found.data)
        r1    == IF load THEN [data[d] EXCEPT !.csrf = dec.csrfToken, !.values = dec.values]
                         ELSE data[d]
        gen   == newToken[w] /\ r1.csrf = 0
        r2    == IF gen THEN [r1 EXCEPT !.csrf = nextCsrf + 1] ELSE r1
    IN
    /\ ~crashed /\ pc[w] = "Load"
    /\ ~(load /\ Codec!DecodeFails(found.data))
    /\ SetData(d, [r2 EXCEPT !.started = TRUE])
    /\ nextCsrf' = IF gen THEN nextCsrf + 1 ELSE nextCsrf
    /\ pc' = [pc EXCEPT ![w] = "Handler"]
    /\ UNCHANGED <<cl, obj, newToken, nops, free, store, cookie, nextTok, reqs,
                   crashed, destroyed, renewed, metCorrupt>>

\* Data.Start: load the session unless the token is new (a miss leaves the
\* Data as it is), generate a CSRF token if none was loaded, and go on with
\* the chain (SetUserValue, c.Next()).
Start(w) ==
    LET d     == obj[w]
        found == Redis!Find(store, DataKey(d))
        load  == ~newToken[w] /\ found.found
        dec   == Codec!Decode(found.data)
        r1    == IF load THEN [data[d] EXCEPT !.csrf = dec.csrfToken, !.values = dec.values]
                         ELSE data[d]
        gen   == r1.csrf = 0
        r2    == IF gen THEN [r1 EXCEPT !.csrf = nextCsrf + 1] ELSE r1
    IN
    /\ ~crashed /\ pc[w] = "Load"
    /\ ~(load /\ Codec!DecodeFails(found.data))
    /\ SetData(d, [r2 EXCEPT !.started = TRUE])
    /\ nextCsrf' = IF gen THEN nextCsrf + 1 ELSE nextCsrf
    /\ pc' = [pc EXCEPT ![w] = "Handler"]
    /\ UNCHANGED <<cl, obj, newToken, nops, free, store, cookie, nextTok, reqs,
                   crashed, destroyed, renewed, metCorrupt>>

-----------------------------------------------------------------------------
(* Session operations of a handler.                                         *)

\* Manager.sessionDataFromCxt: the handler runs with the request's Data in
\* the context (between Start and Commit), else the call panics
HasSession(w) == ~crashed /\ pc[w] = "Handler"

\* a session call of the handler; MaxOps bounds their number per request
Op(w, name) == HasSession(w) /\ nops[w] < MaxOps /\ name \in HandlerOps
CountOp(w) == nops' = [nops EXCEPT ![w] = @ + 1]

\* Data.Put
DataPut(r, k, v) == [r EXCEPT !.values = (k :> v) @@ r.values, !.status = "Modified"]

\* Data.Pop and Data.Remove of a key that is present
DataRemove(r, k) == [r EXCEPT !.values = Restrict(r.values, DOMAIN r.values \ {k}),
                              !.status = "Modified"]

\* Data.Clear of a non-empty map
DataClear(r) == [r EXCEPT !.values = NoValues, !.status = "Modified"]

\* Data.GetString/GetBool/GetInt/GetFloat/...: Get(key) then a type
\* assertion to the getter's type; a missing key or another type gives the
\* zero value, 0 here (no payload is 0).
TypedGet(vals, k, t) ==
    IF k \in DOMAIN vals /\ vals[k].type = t THEN vals[k].data ELSE 0

\* Manager.GetString/GetInt/...: the request's Data from the context bag,
\* then its typed getter
ManagerGet(w, k, t) == TypedGet(data[obj[w]].values, k, t)

\* Data.Flush: the map is cleared, the status is left alone
Flush(r) == [r EXCEPT !.values = NoValues]

\* Manager.Put -> Data.Put
Put(w, k, v) ==
    LET r == data[obj[w]] IN
    /\ Op(w, "Put")
    /\ SetData(obj[w], DataPut(r, k, v))
    /\ CountOp(w)
    /\ UNCHANGED <<pc, cl, obj, newToken, free, store, cookie, nextTok, nextCsrf,
                   reqs, crashed, destroyed, renewed, metCorrupt>>

\* Manager.Remove and Manager.Pop (a missing key returns early)
Remove(w, k) ==
    LET r == data[obj[w]] IN
    /\ Op(w, "Remove")
    /\ k \in DOMAIN r.values
    /\ SetData(obj[w], DataRemove(r, k))
    /\ CountOp(w)
    /\ UNCHANGED <<pc, cl, obj, newToken, free, store, cookie, nextTok, nextCsrf,
                   reqs, crashed, destroyed, renewed, metCorrupt>>

\* Manager.Clear -> Data.Clear (an empty map returns early)
Clear(w) ==
    LET r == data[obj[w]] IN
    /\ Op(w, "Clear")
    /\ r.values # NoValues
    /\ SetData(obj[w], DataClear(r))
    /\ CountOp(w)
    /\ UNCHANGED <<pc, cl, obj, newToken, free, store, cookie, nextTok, nextCsrf,
                   reqs, crashed, destroyed, renewed, metCorrupt>>

\* Manager.Destroy(ctx, c): doStoreDelete (DeleteCtx for a non-nil ctx,
\* Store.Delete for nil); on a store error it returns the error and leaves
\* the Data as it was; otherwise status = Destroyed, then Data.reset.
Destroy(w, withCtx) ==
    LET d == obj[w] IN
    /\ Op(w, "Destroy")
    /\ \/ /\ store' = IF withCtx THEN Redis!DeleteCtx(store, DataKey(d))
                                ELSE Redis!Delete(store, DataKey(d))
          /\ SetData(d, Reset([data[d] EXCEPT !.status = "Destroyed"]))
          /\ destroyed' = IF data[d].hasToken THEN destroyed \cup {data[d].buf}
                                              ELSE destroyed
       \/ /\ StoreFails
          /\ UNCHANGED <<store, data, destroyed>>
    /\ CountOp(w)
    /\ UNCHANGED <<pc, cl, obj, newToken, free, cookie, nextTok, nextCsrf, reqs,
                   crashed, renewed, metCorrupt>>

\* Manager.RenewToken = Data.Migrate(true); Data.Invalidate = Flush (the
\* map is cleared without a status change) then Migrate(true).
Renew(w, name) ==
    LET d == obj[w]
        r == IF name = "Invalidate" THEN Flush(data[d]) ELSE data[d]
    IN
    /\ Op(w, name)
    /\ store' = MigrateStore(d, TRUE)
    /\ SetData(d, Migrate(r))
    /\ nextTok' = nextTok + 1
    /\ renewed' = IF data[d].hasToken THEN renewed \cup {data[d].buf} ELSE renewed
    /\ CountOp(w)
    /\ UNCHANGED <<pc, cl, obj, newToken, free, cookie, nextCsrf, reqs, crashed,
                   destroyed, metCorrupt>>

\* Data.Regenerate(destroy) = Migrate(destroy) then RegenerateCsrfToken,
\* which base64-encodes into d.csrfToken[:0], a slice of length 0: the
\* encoder's first write is out of range and panics.
Regenerate(w, destroy) ==
    /\ Op(w, "Regenerate")
    /\ store' = MigrateStore(obj[w], destroy)
    /\ Panic
    /\ UNCHANGED <<pc, cl, obj, newToken, nops, data, free, cookie, nextTok,
                   nextCsrf, reqs, destroyed, renewed, metCorrupt>>

\* Manager.MergeSession(ctx, c, token) -> Data.MergeSession.  The store key
\* is built from the caller's slice like every other key: the 12 bytes in
\* front of it, which are not the prefix unless the caller's slice happens
\* to sit in a Data token buffer, are read as the prefix.  A missing record
\* (or a Find error) returns nil; a corrupt one returns the decode error.
MergeSession(w, t, withCtx, before) ==
    LET d     == obj[w]
        r     == data[d]
        key   == <<before, t>>
        found == IF withCtx THEN Redis!FindCtx(store, key) ELSE Redis!Find(store, key)
        other == Codec!Decode(found.data).values
    IN
    /\ Op(w, "MergeSession")
    /\ ~(r.hasToken /\ r.buf = t)
    /\ found.found /\ ~Codec!DecodeFails(found.data)
    /\ SetData(d, [r EXCEPT !.values = r.values @@ other, !.status = "Modified"])
    /\ store' = IF withCtx THEN Redis!DeleteCtx(store, key) ELSE Redis!Delete(store, key)
    /\ CountOp(w)
    /\ UNCHANGED <<pc, cl, obj, newToken, free, cookie, nextTok, nextCsrf, reqs,
                   crashed, destroyed, renewed, metCorrupt>>

-----------------------------------------------------------------------------
\* handleStatefulRequest after c.Next(): the cookie after a successful
\* commit.  A Destroyed status deletes the client's cookie and any other
\* sets it to d.token.
SendCookie(w, r) ==
    cookie' = [cookie EXCEPT ![cl[w]] = IF r.status = "Destroyed" THEN 0
                                        ELSE IF r.hasToken THEN r.buf ELSE 0]

\* handleStatefulRequest after c.Next(): Manager.commit encodes
\* (csrfToken, values) and calls Store.Commit under the key of d.token with
\* modified = (status = Modified).  An unmodified session sends EXPIREAT
\* first: an error returns it (no cookie is sent, Handle releases the
\* Data); a non-zero count returns nil and the cookie is sent.  A modified
\* session, or a count of 0, goes on to the SET.
Commit(w) ==
    LET d == obj[w]
        r == data[d]
    IN
    /\ ~crashed /\ pc[w] = "Handler"
    /\ \/ /\ r.status = "Modified"
          /\ pc' = [pc EXCEPT ![w] = "Set"]
          /\ UNCHANGED <<data, free, cookie>>
       \/ /\ r.status # "Modified"
          /\ \/ /\ Redis!ExpireAt(store, DataKey(d))
                /\ SendCookie(w, r)
                /\ ReleaseAndIdle(w, r)
             \/ /\ ~Redis!ExpireAt(store, DataKey(d))
                /\ pc' = [pc EXCEPT ![w] = "Set"]
                /\ UNCHANGED <<data, free, cookie>>
             \/ /\ StoreFails
                /\ ReleaseAndIdle(w, r)
                /\ UNCHANGED cookie
    /\ UNCHANGED <<cl, obj, newToken, nops, store, nextTok, nextCsrf, reqs,
                   crashed, destroyed, renewed, metCorrupt>>

\* Store.Commit's SET key value EXAT expiry; on success the cookie is sent,
\* on an error it is not.  Handle then releases the Data.
CommitSet(w) ==
    LET d    == obj[w]
        r    == data[d]
        blob == Codec!Encode(r.csrf, r.values)
    IN
    /\ ~crashed /\ pc[w] = "Set"
    /\ \/ /\ store' = Redis!Set(store, DataKey(d), blob)
          /\ SendCookie(w, r)
       \/ /\ StoreFails
          /\ UNCHANGED <<store, cookie>>
    /\ ReleaseAndIdle(w, r)
    /\ UNCHANGED <<cl, obj, newToken, nops, nextTok, nextCsrf, reqs, crashed,
                   destroyed, renewed, metCorrupt>>

-----------------------------------------------------------------------------
(* The environment.                                                        *)

\* A key reaches the EXAT expiry Commit gave it.
Expire(k) ==
    /\ k \in DOMAIN store
    /\ store' = Restrict(store, DOMAIN store \ {k})
    /\ UNCHANGED <<pc, cl, obj, newToken, nops, data, free, cookie, nextTok,
                   nextCsrf, reqs, crashed, destroyed, renewed, metCorrupt>>

\* A stored blob is overwritten with bytes that do not unmarshal.
CorruptBlob(k) ==
    /\ Corruption /\ k \in DOMAIN store /\ store[k] # Corrupt
    /\ store' = [store EXCEPT ![k] = Corrupt]
    /\ metCorrupt' = metCorrupt \ {k}
    /\ UNCHANGED <<pc, cl, obj, newToken, nops, data, free, cookie, nextTok,
                   nextCsrf, reqs, crashed, destroyed, renewed>>

\* The process is started again: no request in flight, a new empty pool.
Restart ==
    /\ crashed
    /\ crashed' = FALSE
    /\ pc' = [w \in Workers |-> "Idle"]
    /\ data' = [d \in DataObjs |-> NewData]
    /\ free' = DataObjs
    /\ UNCHANGED <<cl, obj, newToken, nops, store, cookie, nextTok, nextCsrf,
                   reqs, destroyed, renewed, metCorrupt>>

\* Every request has been served.
Done ==
    /\ ~crashed /\ reqs = MaxRequests /\ \A w \in Workers : pc[w] = "Idle"
    /\ UNCHANGED vars

IssuedTokens == 1..nextTok

Next ==
    \/ \E w \in Workers :
         \/ \E c \in Clients : Begin(w, c)
         \/ StartStoreError(w) \/ StartCorrupt(w) \/ Start(w)
         \/ \E k \in Keys, v \in Values : Put(w, k, v)
         \/ \E k \in Keys : Remove(w, k)
         \/ Clear(w)
         \/ \E b \in BOOLEAN : Destroy(w, b) \/ Regenerate(w, b)
         \/ Renew(w, "RenewToken") \/ Renew(w, "Invalidate")
         \/ \E t \in IssuedTokens, b \in BOOLEAN, p \in {Prefix, Junk} :
              MergeSession(w, t, b, p)
         \/ Commit(w) \/ CommitSet(w)
    \/ \E k \in DOMAIN store : Expire(k) \/ CorruptBlob(k)
    \/ Restart
    \/ Done

Spec == Init /\ [][Next]_vars

-----------------------------------------------------------------------------
(* Properties                                                              *)

\* Data.Start: whenever a handler runs on a started session it has a CSRF
\* token, whether the session is new, was loaded, or was loaded from a
\* record written without one; the csrf middleware compares against it.
CsrfReady ==
    \A w \in Workers :
        (HasSession(w) /\ data[obj[w]].started)
            => data[obj[w]].csrf \notin {0, Nil}

\* Manager.Destroy, Manager.RenewToken and LoadSession (spec 4.7, P7, P9;
\* manager.go 167-168; data.go 155): a record the session code has deleted
\* stays gone.  A token retired by Destroy, or replaced by RenewToken or
\* Invalidate, has no record in the store again, whatever the request that
\* retired it commits; a blob that does not decode is deleted when a load
\* meets it, so a corrupt record is met by at most one load.
DeletedRecordsGone ==
    /\ \A t \in destroyed \cup renewed : Key(t) \notin DOMAIN store
    /\ \A k \in metCorrupt : k \notin DOMAIN store \/ store[k] # Corrupt

\* Spec P6 ("Put, Commit, a new request presents the cookie, Get returns
\* the value") through the typed getters handlers use: every value a handler
\* finds in its session, Put in this request or loaded from the record an
\* earlier request committed through JSONCodec, is returned by the getter of
\* a type handlers Put (a value Put as an int comes back from GetInt).
GettersSeeWhatWasPut ==
    \A w \in Workers :
        (~crashed /\ pc[w] = "Handler" /\ data[obj[w]].values # Nil) =>
            \A k \in DOMAIN data[obj[w]].values :
                \E t \in PutTypes : ManagerGet(w, k, t) = data[obj[w]].values[k].data

\* What a later request of a session reads back (spec P6, P7, P9): records
\* the session code deleted stay gone, and the values it committed come
\* back through the getters of the types they were Put with.
LaterRequestReadsBack == DeletedRecordsGone /\ GettersSeeWhatWasPut

=============================================================================
