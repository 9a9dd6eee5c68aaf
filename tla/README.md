# TLA+ models of newacorn/wx

This directory holds TLA+ models of the web stack in `src/`:

- the fasthttp-routing router (a fork of qiangxue/fasthttp-routing): its
  `Ctx` pool, the handler chain and the reverse-URL builders;
- its session middleware over Redis, with the session token codec;
- the CSRF middleware.

TLC checks the models with the `.cfg` files listed below. `PROJECT.json`
records four things:

- the components, and which of them are modelled;
- the runs and their mutants;
- the findings and the hazards;
- the map from each definition to the source lines it translates.

## The system

| Part | Source | State | Operations |
|---|---|---|---|
| Router | `router.go`, `route.go` (the route store and route groups are not in `src/`) | route stores, `r.routes`, `maxParams`, group handlers, `Ctx` pool, not-found chain | `New`, `Use`, `NotFound`, `Route.add`/`Get`/.../`To`, `Route.Name`, `Router.add`, `HandleRequest`, `find`, `findAllowedMethods`, `handleError`, `MethodNotAllowedHandler`, `NotFoundHandler` |
| Request context | `context.go` | `index`, `handlers`, data bag, `bytes` scratch buffer, XFF caches (`RIP`, `RHost`, `RPort`, `RSecure`, `XFFInfo`) | `Next`, `Abort`, `Get`/`Set`, `IP`, `Host`, `Port`, `Secure`/`Proto`, `URL`, `clear` |
| Route templates | `route.go` | per route: template, segments, parameter names, regexps | `newRoute`, `buildURLTemplate`, `buildURLTemplate2`, `URL`, `URLByIndex`, `URLByNames` |
| XFF middleware | `middleware/xff/xff.go` | `xffInfo` in the `Ctx` | `New`, `isFromTrustedProxy`, `IP`, `Host`, `Port`, `Secure`, `normalizeAndFilterClientIps` |
| Session middleware | `middleware/session/{scs,data,manager}.go` | pooled `Data` (token buffer, CSRF token, values, status), `DataPool` | `Handle`, `getSession`/`SetToken`, `Start`/`LoadSession`, `Put`, `Pop`/`Remove`, `Clear`, `Destroy`, `RenewToken`, `Invalidate`, `Regenerate`, `MergeSession`, commit, `Iterate` |
| Redis store | `middleware/session/redisstore/redisstore.go` | Redis key space | `Find(Ctx)`, `Commit(Ctx)`, `Delete(Ctx)`, `All`, `AllCtx` |
| JSON codec | `middleware/session/jsonCodec.go` | none | `Encode`, `Decode` |
| Token codec | `helpers/utilcrypt/utils.go`, `data.go` | none | `AppendHash`, `ValidateHash`, `GenerateToken2`, `isValidToken` |
| CORS middleware | `middleware/cors/cors.go` | none | `New`'s handler, `hasMatchingPath`, `isPreflightRequest` (the header computation is not modelled) |
| Content negotiation | `helpers.go` | none | `getOffer` and its parsers |
| CSRF middleware | `middleware/csrf/verifyCsrfToken.go` | none (it reads the session) | `handle`, `isReading`, `tokensMatch` |

How the parts interact:

1. fasthttp calls `Router.HandleRequest` on a worker goroutine. The router
   takes a `Ctx` from a `sync.Pool`, finds the route's handler chain (or
   the not-found chain), and runs it with `Ctx.Next`.
2. `Next` is a loop that calls the handlers in turn. A middleware calls
   `c.Next()` from inside its own body, so the loops nest.
3. An error that comes out of the outermost `Next` goes to `handleError`.
   Then `c.clear()` runs and the `Ctx` goes back to the pool.

The session middleware is one handler of the chain:

1. It takes a `Data` from its own pool. It copies the cookie's token into
   the `Data`'s buffer, right after the bytes `scs:session:`, or generates
   a new token there.
2. It loads the record from Redis and runs the rest of the chain with
   `c.Next()`.
3. It commits the session to Redis, writes the cookie and releases the
   `Data`.

Every Redis key is built with `unsafe.Slice` from the 12 bytes before the
token slice, with a fixed length of 55. Two requests of one browser may run
at the same time on two workers, so they share a Redis record. A panic in a
handler is not recovered, so it ends the process. Redis outlives the
process.

The CSRF middleware compares the request's token with the session's CSRF
token. The session's token was made by `GenerateToken2` and carries a
`SimpleHash` checksum.

## Modules

- `RedisStore.tla`: the store's methods as operators over a function from
  keys to blobs.
  - A key is a sequence of parts. `<<Prefix, t>>` is the key the manager
    means.
  - `FindCtx` and `Delete` put `r.prefix` in front once more, so they use
    `<<Prefix, Prefix, t>>`.
  - `Commit` is two Redis calls, kept apart: `ExpireAt` (sent only when
    `modified = FALSE`; a non-zero count ends the commit) and `Set`.
- `JSONCodec.tla`: `Encode`/`Decode` of `Aux{V, CR}`.
  - A Go number comes back as `float64`, because that is what JSON does to
    a number held in an `interface{}`.
  - A blob that does not unmarshal is the model value `Corrupt`.
- `Session.tla`: the session middleware for a set of worker goroutines, a
  set of clients and a pool of `Data` objects.
  - Each worker goes `Idle -> Load -> Handler -> (Set ->) Idle`:
    - `Begin` is `getSession` (`Acquire`, then `SetToken`).
    - `Start`, `StartStoreError` and `StartCorrupt` are the three outcomes
      of `Data.Start`/`LoadSession`.
    - In between come the handler's session operations. Each one is the
      `Manager` method together with the `Data` method it calls
      (`DataPut`, `DataRemove`, `DataClear`, `Flush`, `Migrate`).
    - `Commit` is the end of `handleStatefulRequest` up to the first Redis
      call: for an unmodified session the EXPIREAT, and then the cookie and
      `Release` when it hit a key. `CommitSet` is the SET that follows a
      miss, or a modified session's only call, then the cookie
      (`SendCookie`) and `Release`. Another request, or an expiry, can run
      between the two. Every Redis call may fail (`StoreFails`), and then
      no cookie is sent.
    - `Destroy` returns the store error of its delete and leaves the
      `Data` as it was.
    - `HasSession` is `sessionDataFromCxt`: a session call is possible
      while the handler runs. `MaxOps` bounds the calls per request; it is
      a bound of the model, not of the code.
  - `data[d]` holds a `Data`'s fields:
    - `buf`: the token bytes in the buffer;
    - `hasToken`: the slice length is non-zero;
    - `csrf`: a CSRF token number, 0 for empty, or `Nil`;
    - `values`, `status` and `started`.
  - A key is built from `buf` whatever the slice length, as the code does.
  - The environment may expire a key or corrupt a blob. It also restarts a
    crashed process with an empty pool.
  - `MergeSession`'s key takes whatever 12 bytes precede the caller's
    slice. That read is undefined behaviour, so the model chooses between
    `Prefix` and `Junk`.
  - `ManagerGet` is `Manager.Get` followed by the typed getters
    (`GetInt`, `GetString`, ...): a value of another Go type reads as
    the zero value.
  - Ghost variables `destroyed`, `renewed` and `metCorrupt` record what the
    code promised, so that the properties can refer to it.
  - `MCSession.tla` gives the model's small sets.
- `Registration.tla`: route registration. Each registration call is an
  action: `Use`, `NotFound`, a method shortcut or `To` through `newRoute`,
  a method added to a `Route` made earlier, and `Name`.
  - `store` is `r.stores`: method and path give the `routeData`.
    `AddMethods` is `Route.add`: the chain is `combineHandlers` of the
    group's handlers at that moment and the route's own.
  - The route store and `RouteGroup` are not in `src/`. `StoreAdd` keeps
    the first `routeData` for a path (spec 3.3, "first-registered wins"),
    and is marked `spec_modelled`.
  - `Find` and `AllowedMethods` are `find` and `findAllowedMethods`. Paths
    are model values; matching is `RouteURL`'s.
- `MCRequestChain.tla`: `Registration` and `HandlerChain` composed, each
  by `INSTANCE`.
  - Registration calls run first. Then `Serve` is `HandleRequest`: the
    chain `find` returns becomes `HandlerChain`'s `handlers`, and
    `HandlerChain`'s steps run it.
  - Each handler takes a shape its code can take on this request. cors
    (`DefCfg`) returns nil without `Next` exactly on a preflight
    (OPTIONS with Access-Control-Request-Method) to a path under `/api`
    or `/sanctum/csrf-cookie`. `MethodNotAllowedHandler` aborts exactly
    when another method has the path. session may fail its commit, and
    an application handler may return an error.
- `HandlerChain.tla`: one request's chain run by `Ctx.Next`, `Abort` and
  `handleError`.
  - A chain is a sequence of handler shapes. Each shape is the shape of
    handlers in this repository:

    | Shape | Behaviour | Handlers |
    |---|---|---|
    | `Pass` | returns nil without `Next` | cors preflight |
    | `Wrap` | returns `Next`'s error | compress, cors, xff, session with a good commit |
    | `WrapFail` | returns `Next`'s error, or the commit error | session with a failing commit |
    | `Fail` | returns a plain error | CSRF mismatch |
    | `FailHTTP` | returns an HTTPError | `NotFoundHandler` |
    | `Abort` | calls `Abort` and returns nil | `MethodNotAllowedHandler` |

  - Go's recursion is modelled as an explicit stack of running handler
    bodies, with a `mode` that says where control is in `Next`. Each of
    `Next`'s statements is an action (`EnterNext`, `CallHandler`,
    `LoopEnd`, `ReturnError`, `Continue`).
  - `StoppedNow` and `FirstErr` map the detailed state to
    `ChainAbstract.tla`, and `ChainRefinesAbstract` is `Abs!Spec` for
    `Abs == INSTANCE ChainAbstract WITH ...`.
- `ChainAbstract.tla`: what a request's chain promises, with the recursion
  left out. Handlers `Start` one after the other; `Abort` or an error stops
  the chain; a started session wrapper may `Raise` a commit error; `Finish`
  writes the status of the first error.
- `StoreScan.tla` and `MCStoreScan.tla`: `Manager.Iterate` over
  `doStoreAll`, which calls `RedisStore.AllCtx` (context given) or `All`
  (nil), while request goroutines `Commit` and `Delete` sessions.
  - SCAN is abstracted by its guarantee: `NB` slots, the reply to cursor
    `c` holds the present keys of slot `c` and the cursor of the next slot
    (0 after the last). A slot with no key gives an empty page.
  - `AllScan`, `AllCtxScan` and `Mget` are one turn of each loop, in the
    code's order: `All` takes the cursor and breaks on 0 before it reads
    that reply; `AllCtx` loops on an empty page without taking the
    cursor, which is a stutter.
  - `stable` is a ghost: the keys stored when `Iterate` began and not
    deleted since.
- `Router.tla`: `HandleRequest` over a pool of `Ctx` objects.
  - A request is one atomic step. A `Ctx` belongs to one goroutine from
    `pool.Get` to `pool.Put`, so requests on different `Ctx` objects do
    not interact. What one request leaves in a `Ctx` is found by the next
    request that gets that `Ctx`.
  - The route chain is `[xff, h]`, where `h` uses the data bag and calls
    a sequence of accessors from `Calls` (`IP`, `Host`, `Port`, `Secure`;
    `Proto` is `Secure`). `RunCalls` threads the `Ctx` fields through the
    calls, so each sees what the earlier ones cached.
  - `CtxHost`, `CtxPort`, `CtxSecure` and `CtxIP` are the `Ctx` methods,
    and `XffHost`, `XffPort`, `XffSecure` the `xffInfo` fill-ins they call.
    A request's `fwd` record holds its Host header, X-Forwarded-Host (host
    and optional port), X-Forwarded-Port, X-Forwarded-Proto and TLS. The not-found chain is `[xff, MethodNotAllowedHandler,
    NotFoundHandler]`.
  - The route store is a set of (method, path) pairs.
  - `sync.Pool` and Go's map order are nondeterministic, so the model
    chooses the `Ctx` a request gets and the order in which
    `findAllowedMethods` visits the stores.
  - `c.bytes` is a sequence of method names and commas. `AppendAllowed`
    adds `m,` per matching store, and `NotFoundChain` then adds `OPTIONS`
    with no comma after it, as router.go:191 does. `AllowWords` splits the
    header value at its commas, so a method written right after an
    earlier request's `OPTIONS` is the word `OPTIONSPOST`, not `POST`.
  - `MCRouter.tla` gives three paths: one with two methods, one with one
    method and one with none; a request either has no forwarding headers
    or X-Forwarded-Host `h1` without a port and X-Forwarded-Proto https;
    the handler calls `Host, Port, Host, Secure, IP`. The two `Ctx`
    objects are symmetric.
- `TokenHash.tla`: `SimpleHash` in uint16 (each step `% 2^16`), base64url
  without padding as what it does to bytes, `GenerateToken2` and
  `isValidToken`.
- `TokenCodec.tla` and `MCTokenCodec.tla`: a token's life. The server
  issues it, and the client returns it unchanged, with one character
  replaced, cut short or extended by two characters. Then `SetToken`
  decides whether to use it. `buf` is the pooled `Data`'s token buffer
  (zeros, or an earlier session's token), and `key` the Redis key
  `Data.Key` reads: `CopyToken` is `append(d.token[:0], token...)` within
  the buffer's 43 characters for a short cookie and a fresh array for a
  long one.
- `Csrf.tla`: the decision of the CSRF middleware's `handle`, for the
  session's real CSRF token. A request carries no token, the session's
  own token, or a forged one.
- `MCCredentials.tla`: `TokenCodec` and `Csrf` side by side, each by
  `INSTANCE`, each step one of theirs with the other's variables
  unchanged. Both take their verdict from `ValidateHash`, and one run
  asks both whether a credential the server accepts is one it issued.
- `ContentNegotiation.tla` and `MCContentNegotiation.tla`: `getOffer` in
  `helpers.go`, a pure function, as one negotiation per step over every
  Accept header of up to two ranges and every list of up to two offers.
  - `MediaRanges` and `Params` are `forEachMediaRange` and
    `forEachParameter`, including quoted commas and escapes, the
    functor's early stop, and the `;q=` fast path.
  - `AcceptedOf` is `getOffer`'s functor: the quality in thousandths
    (`ParseUfloat`), the quality-0 skip, specificity and params.
  - `SortAcceptedTypes` is the binary insertion sort step by step
    (`BinSearch`, `MoveTo`), with the code's comparison as `GoesAfter`.
  - `FirstOffer` is the offer loop with `acceptsOffer` or
    `acceptsOfferType` and `paramsMatch`.
  - `DocumentedBefore` and `DocumentedParamsMatch` are the rules the
    code's comments state; the properties compare against them.
- `RouteURL.tla` and `MCRouteURL.tla`: route path compilation and reverse
  URLs.
  - Strings are sequences of one-character strings, indexed from 0 as in
    Go (`At`, `Sub`).
  - Each scanning loop of the code is a `RECURSIVE` operator.
    `QueryEscape` and `strings.Replace` are modelled by what they do.
  - The route store and fasthttp's path decoding are not in this
    repository. `Match` and `PathDecode` are written from the spec (P3,
    sections 3 and 4.2), and are marked `spec_modelled` in the map.
  - Regexps are a literal prefix or `.*`.

## Runs

| Run | Module / cfg | Expect | What it shows |
|---|---|---|---|
| `session_main` | `MCSession` / `MCSession.cfg` | pass | Two workers, one client, two pooled `Data`, three requests of one session call each; every operation; store errors in every Redis call, corrupt blobs, the `Regenerate` panic and restarts. Every handler on a started session has a CSRF token (`CsrfReady`). This includes a request that loads the record a concurrent `Destroy`'s commit wrote without one. About 570k states, 10 seconds. |
| `session_deleted` | `MCSession` / `SessionDeleted.cfg` | violation | `LaterRequestReadsBack`: a later request reads back what the session code left in Redis. Its two conjuncts, a deleted record stays gone (`DeletedRecordsGone`) and a getter of the type that was Put returns the value (`GettersSeeWhatWasPut`, with `int` values), were each checked on their own and are violated. The first is also broken by an unmodified request whose EXPIREAT misses a key a concurrent `Destroy` deleted, and whose SET then writes the record back. |
| `chain_main` | `HandlerChain` / `MCHandlerChain.cfg` | pass | Over every chain of up to three handlers of the six shapes, the recursive `Next` implements `ChainAbstract` (`ChainRefinesAbstract`): handlers start in order at most once, `Abort` and errors stop the chain through any nesting, the status is the first error's, and every request is served. |
| `chain_registered` | `MCRequestChain` / `RequestChain.cfg` | violation | `ChainAsDocumented`, over every setup of up to three registration calls and one request. Its first conjunct, `ServedChainHasMiddleware`, says the served chain starts with every handler given to `Use`. Its second, `RegisteredChainEndsOnReturn`, says a handler other than `MethodNotAllowedHandler` that returns without `Next` ends the chain. Each conjunct was checked on its own and is violated. |
| `router_main` | `MCRouter` / `MCRouter.cfg` | pass | Three requests over two pooled `Ctx`, with X-Forwarded-For/Host/Proto headers, xff skips and all four accessors. It fires every action of `Router` and checks `TypeOK`, whose mutant lets a `bad` X-Forwarded-For entry become the client IP. Every property about what a request gets is violated, so they are in `router_stale_ctx`. About 73k states, under 1.5 minutes. |
| `router_stale_ctx` | `MCRouter` / `RouterStaleCtx.cfg` | violation | `ResponseIsOwn`: what a request gets (Allow, IP, host, port, scheme) depends on that request only. It is violated within one request (`Host` after `Port` is doubled) and across requests through `c.bytes` and the XFF caches. The `Allow` clause alone, checked on its own, is broken by two 405s on one `Ctx`. The second of them gets an `Allow` that does not name a routed method. |
| `token_main` | `MCTokenCodec` / `MCTokenCodec.cfg` | pass | Every issued token is accepted when it comes back unchanged (`IssuedTokenAccepted`), for 4096 raw strings of six bytes, through the uint16 checksum, the byte order and base64url. |
| `credentials_forged` | `MCCredentials` / `Credentials.cfg` | violation | `CredentialsAreIssued`: a cookie `SetToken` accepts is the one issued and its key is that token's (`AcceptedCookieIsIssued`), and a forged state-changing request is rejected by the CSRF check (`ForgedWriteRejected`). Each conjunct was checked on its own and is violated: by a replaced character, by the short cookie `AAAA` and by a long cookie; and by a session whose own CSRF token passes `ValidateHash`. |
| `negotiation` | `MCContentNegotiation` / `Negotiation.cfg` | violation | `NegotiatesAsDocumented`: `getOffer` answers as if the accepted types were tried in the documented order (`NegotiatesByPrecedence`), and `paramsMatch` gives a repeated parameter its last value and keeps the rest (`ParamsMatchAsDocumented`). Each conjunct was checked on its own and is violated at depth 3. |
| `url_main` | `MCRouteURL` / `MCRouteURL.cfg` | pass | Every path of up to four characters over `/ < > : a`, malformed ones included, plus seven application routes. The two template compilers agree (`TemplateIsSegments`). |
| `url_reverse` | `MCRouteURL` / `ReverseURLs.cfg` | violation | `ReverseURLsRouteBack`: `Route.URL`'s output routes back to its values (`URLRoundTrip`, spec P3), so does `URLByIndex`'s (`URLByIndexRoundTrip`), `URLByNames` agrees with it (`URLByNamesAgrees`), and neither builder panics (`BuildersDoNotPanic`, spec 2). Each conjunct is violated on its own. |
| `store_iterate` | `MCStoreScan` / `StoreIterate.cfg` | violation | `IterateVisitsAll`: `Iterate` returns, and when it returns nil it has visited every session stored throughout. `All` drops the last page; `AllCtx` never returns on an empty page. |

Every property of a passing run has a mutant in `PROJECT.json`. A mutant
is a variant of one mapped definition that a plausible bug would give, for
example:

- `Start` that makes a CSRF token only for a new session;
- `Next` without `index++`;
- `Abort` that leaves the index;
- a wrapper that drops `Next`'s error;
- `normalizeAndFilterClientIps` without the `ParseIP` check;
- `AppendHash` writing big-endian.

With the mutant in place, TLC finds the property violated.

## Findings

The violation runs show the following.

- **A destroyed session's record comes back, empty, from its own
  request** (`session_deleted`). `Manager.Destroy` deletes the record and
  sets status `Destroyed`. Then `reset()` sets the status back to
  `Unmodified`, but the token bytes stay in the buffer. The commit after
  the handler finds no key and SETs a record with no values and no CSRF
  token under the destroyed token. The client gets an empty cookie
  instead of a deletion. A concurrent unmodified request of the same
  session can also write its loaded values back: its EXPIREAT misses the
  deleted key and its SET follows.
- **`RedisStore.Delete` deletes the wrong key** (`session_deleted`). It
  prefixes the already-prefixed key, so `RenewToken` and `Invalidate`
  leave the old session in Redis. So does the corrupt-record cleanup in
  `LoadSession`.
- **A corrupt record kills the process** (`session_deleted`). `Decode`
  returns nil slices. `Start` then slices the nil CSRF token (`[:30]`) and
  panics. The record is never deleted, so every request with that cookie
  panics again.
- **`Regenerate` always panics.** `RegenerateCsrfToken` base64-encodes
  into `csrfToken[:0]`. `session_main` includes this step as a crash.
- **Returning without `Next` does not end the chain**
  (`chain_registered`). The loop in `Next` goes on after any nil return,
  against spec 4.4. After `r.Use(cors.New())`, a preflight to `/api/a`
  with no route for it runs cors, which sets 204. Then
  `MethodNotAllowedHandler` and `NotFoundHandler` run, and the answer is
  404.
- **`Use` after a route does not reach it** (`chain_registered`).
  `Route.add` copies the group's handlers when the route is registered
  (route.go:144). A later `Use` reaches only the not-found chain, which is
  rebuilt. `Use`'s comment says it shares the handlers with all routes.
- **`c.bytes` survives the pool** (`router_stale_ctx`). `Allow` headers
  collect methods from earlier requests, and a path with no route answers
  405 instead of 404. `OPTIONS` is appended with no comma after it, so the
  next 405 on the `Ctx` glues its first method onto it. After a request
  for `/b` (GET), an OPTIONS request for `/a` (GET, POST) gets
  `GET,OPTIONSPOST,GET,OPTIONS`, which does not name POST.
- **`c.RIP`, `RHost`, `RPort`, `RSecure` and `XFFInfo` survive the pool**
  (`router_stale_ctx`). A later request on the same `Ctx` is told an
  earlier client's address, host, port or scheme.
- **`Port` doubles the host** (`router_stale_ctx`). `Ctx.Port` re-runs
  `xffInfo.Port`, which calls `xffInfo.Host`, which appends the
  X-Forwarded-Host to `c.RHost` again: `Host, Port, Host` gives `h1`,
  `443`, `h1h1`.
- **`GetInt` of a stored int is 0** (`session_deleted`). `JSONCodec`, the
  default codec, decodes every number as `float64`, so after a round trip
  through Redis the typed getters miss and `PopInt` loses the value
  (spec P6).
- **`All` drops the last SCAN page; `AllCtx` spins** (`store_iterate`).
  `All` breaks on cursor 0 before reading that reply's keys; `AllCtx`
  `continue`s on an empty page without taking the new cursor.
- **Short and long cookies** (`credentials_forged`). `AAAA` decodes to three
  zero bytes, which pass `ValidateHash`; the key is then `AAAA` followed
  by 39 characters of the previous token left in the pooled 43-character
  buffer (the key is the 55 bytes from the prefix on). A cookie longer
  than 43 characters is copied to a new array, and the key is read from
  the 12 bytes before it.
- **The token checksum covers bytes 0-2 only** (`credentials_forged`). It is 0
  whenever byte 2 is 0. Changing any other random byte keeps a token
  valid.
- **The CSRF shortcut** (`credentials_forged`). `handle` passes any
  request when `ValidateHash` holds for the session's own encoded CSRF
  token. That does not depend on the request, and it holds for about 1 in
  64k sessions.
- **`sortAcceptedTypes` compares specificity with `<`** (`negotiation`).
  Its third clause (helpers.go:538) says `specificity <` where `==` was
  meant, so a range with more parameters is not put first. For Accept
  `text/html;a=1,text/html` and offers `html`, `text/html;a=1`, `getOffer`
  returns `html`; the comment at helpers.go:523 says the range with more
  parameters comes first.
- **`paramsMatch` drops the parameters after a repeated one**
  (`negotiation`). Its functor returns false on a name it has seen
  (helpers.go:203), which ends `forEachParameter`. For Accept
  `text/html;a=1;a=2;b=3` the offer `text/html;a=2;b=9` is accepted,
  though `b=3` is required.
- **`Route.URL` escaping** (`url_reverse`). `QueryEscape` writes a space
  as `+`, and the path decoder leaves `+` alone.
- **`URLByIndex` does not escape** (`url_reverse`). It concatenates the
  values as they are, so `%2F` passes the `/` check and comes back as
  `/`. `Route.URL` escapes; the spec's round trip (P3) names only `URL`.
- **`Route.URL` pairs** (`url_reverse`). The pairs loop steps by one, so
  every value is also tried as a name.
- **`URLByNames` names** (`url_reverse`). It takes a value equal to a
  parameter name as that name.
- **`URLByNames` panic** (`url_reverse`). It indexes `r.regexps` with the
  index into `names` (route.go:168), so a rejected value for a second
  regexp parameter panics.
- **Empty segments panic** (`url_reverse`). `URLByIndex` and
  `URLByNames` read `s[0]` of each template segment; the paths `""`,
  `<a>` and `/<a><b>` give an empty one.

## Bounds

- **Session.** Two workers and one client are enough for two concurrent
  requests of one session, which every session hazard needs. Two `Data`
  objects let a freed object be reused while the other is in use. Three
  requests allow these sequences:
  - create a session, then run two requests of it at once;
  - destroy, then reload.

  One key, one payload and one Go type are enough, because no property
  tells values apart. `session_main` allows one session call per request.
  Its hazard needs `Destroy` in one request and a load in another, so
  one call is enough, and the run takes seconds instead of minutes.
  `session_deleted` allows two calls per request.
- **Router.** Two `Ctx` and three requests let a `Ctx` serve, in order, a
  405, a 404 and a route. One X-Forwarded-For entry from a trusted proxy,
  or a bad entry, covers each branch of `IP`. An X-Forwarded-Host without
  a port leaves `c.RPort` at 0, the case in which `Port` re-runs `Host`;
  the call sequence `Host, Port, Host, Secure, IP` reaches every cache.
  `router_main` has one client address and the proxy (about 73k states,
  under 1.5 minutes). A second client adds nothing `TypeOK` tells apart
  and takes the run past 5 minutes.
- **Registration.** Three calls, from `Use` (cors or session), `NotFound`,
  `Get`/`Options`/`To` on two paths (one under cors's prefixes, one with
  a parameter) and `Name`. This allows a route before and after a `Use`,
  two `Use`s, and a preflight to a path with or without a route under
  each method.
- **StoreScan.** Three keys in two slots, two of them in the last slot,
  so that a last page and a first page both hold keys and a slot can be
  emptied by a `Delete`.
- **HandlerChain.** Chains of up to three handlers over all six shapes
  allow a wrapper around a wrapper around a stopper.
- **TokenCodec.** `token_main` uses six random bytes instead of 30. With
  the checksum that is eight bytes, which end in a partial base64 group
  as the code's 32 do (11 characters against 43). `credentials_forged`
  uses four. The checksum
  reads bytes 0-2 only, and the byte values {0, 1, 200, 255} reach the
  uint16 wrap and the zero product.
- **ContentNegotiation.** Up to two ranges per header, from ranges with
  zero, one, two and a repeated parameter, a quoted value holding a comma,
  `text/*`, `*/*;q=0` and a lower quality; up to two offers, with and
  without parameters and the extension `html`. Two ranges are the least a
  wrong order needs, and the sort is insertion of each range in turn.
  The plain kind (languages) covers `acceptsOffer` and `*`.
- **RouteURL.** Every path of up to four characters includes every
  placement of `<`, `>` and `:` that fits. The values include the empty
  string, a name, a space, a slash and the escaped slash `%2F`.

## Fairness

- `HandlerChain` and `ChainAbstract` assume weak fairness of `Next`: one
  goroutine serves the request and no handler of the repository blocks, so
  the chain keeps stepping until the response is written.
- `StoreScan` assumes weak fairness of the iterating goroutine's own steps
  (`Iterator`), never of Redis errors, `fn` errors or other requests'
  writes: the goroutine is scheduled and its Redis calls return.
- The other runs check safety only. fasthttp gives no fairness between
  requests; Redis expiry and corruption are environment steps. The runs
  that stop (`Done`, `Served`, `Checked`, `Decided`) stop when their bound
  is reached and stutter there, so deadlock is checked everywhere.

## Not modelled

- **The route store and route groups** (`store.go`, `group.go`). They
  are not in `src/`. The `Router` model abstracts them to a set of routes.
  `RouteURL` models the match from the spec. `Registration` models the
  store's `Add` and the group's `Use` from the spec.
- **cors's header computation, compress, and the RFC 7239 `Forwarded`
  parsing of xff.** cors's `configureAllowedOrigin` and the other header
  setters are per-request string work that the spec puts out of scope.
  Only cors's decision to end or wrap the chain is modelled
  (`MCRequestChain`). compress transforms bodies, and its place in the
  chain is a `HandlerChain` shape. `DefCfg` does not trust `Forwarded`,
  so its parsing loops do not run.
- **The ETag and cache helpers in `helpers.go`** (`matchEtag`,
  `isEtagStale`, `isNoCache`), `getGroupPath` and the TLS helper. They are
  stateless string checks with no caller in the repository. Content
  negotiation is modelled, although it also has no caller.
- **`main.go`, `demo/xml.go`, and the `session/main` and `compress/main`
  demo programs.** These are application glue and are out of the spec's
  scope.
- **The small utilities** `quickSort`, `utilnet`, `utilos`, `log` and
  `unsafefn`. Their only role here is the verdict on an XFF entry, the
  model's `"bad"`.
- **Timing** (TTL seconds, cookie `Max-Age`, `rememberMe`). A key's
  expiry is the environment's `Expire` step.
