------------------------------- MODULE Router -------------------------------
(***************************************************************************)
(* Router.HandleRequest (router.go) over its pool of Ctx objects           *)
(* (context.go), with the xff middleware (middleware/xff) registered by    *)
(* Use and the default not-found chain MethodNotAllowedHandler,            *)
(* NotFoundHandler.                                                        *)
(*                                                                         *)
(* A Ctx stays with one goroutine from pool.Get to pool.Put, so requests   *)
(* on different Ctx objects do not interact; what one request leaves in a  *)
(* Ctx is what a later request that gets the same Ctx from the pool finds. *)
(* A request is therefore one step, and the pool hands out any of its      *)
(* objects (sync.Pool promises no order).                                  *)
(*                                                                         *)
(* The route chain is [xff, h]: h reads c.Get(DataKey), c.Set(DataKey, ..) *)
(* and c.IP(), and returns nil.  The not-found chain is                    *)
(* [xff, MethodNotAllowedHandler, NotFoundHandler].  xff's Skip may bypass *)
(* the middleware for a request; then it only calls c.Next().  The route   *)
(* store is a set of (method, path) pairs: which route a path matches is   *)
(* the business of RouteTrie; here a path either has a route for a method  *)
(* or it has not.                                                          *)
(*                                                                         *)
(* Addresses: a request comes from a peer address; the X-Forwarded-For     *)
(* header is a sequence of entries, each an address or "bad" (an entry     *)
(* SplitIpAndPort or ParseIP rejects).  TrustProxies is the set of         *)
(* addresses in the configured proxy ranges.                               *)
(***************************************************************************)
EXTENDS Naturals, Sequences, SequencesExt, FiniteSets

CONSTANTS
    Ctxs,          \* Ctx objects the pool can hand out
    Methods,       \* methods with a route store (r.stores keys)
    Paths,         \* request paths
    Routes,        \* (method, path) pairs that have a route
    Addrs,         \* IP addresses
    TrustProxies,  \* addresses inside the xff TrustProxies ranges
    MaxXff,        \* longest X-Forwarded-For header
    MaxRequests,   \* bound on requests served
    Fwds,          \* Host, X-Forwarded-Host/Port/Proto headers and TLS
    Calls,         \* sequences of Ctx accessors a route handler may call
    None           \* a nil pointer or empty slice

ASSUME /\ Routes \subseteq Methods \X Paths
       /\ TrustProxies \subseteq Addrs
       /\ MaxXff \in Nat /\ MaxRequests \in Nat

ReqMethods == Methods \cup {"OPTIONS"}
XffEntries == Addrs \cup {"bad"}
XffHeaders == UNION {[1..n -> XffEntries] : n \in 0..MaxXff}

Requests == [method : ReqMethods, path : Paths, peer : Addrs,
             xff : XffHeaders, skip : BOOLEAN, fwd : Fwds]

VARIABLES
    ctx,     \* ctx[c]: the fields of Ctx object c that outlive a request
    reqs,    \* requests served
    resp     \* the last response, and what its handlers saw

vars == <<ctx, reqs, resp>>

\* Router.New's pool.New: bytes of capacity 40, every other field zero
NewCtx == [data |-> FALSE, bytes |-> << >>, rip |-> None, rhost |-> << >>,
           rport |-> 0, rsecure |-> "unknown", xffInfo |-> None]

Init ==
    /\ ctx = [c \in Ctxs |-> NewCtx]
    /\ reqs = 0
    /\ resp = [status |-> 200, allow |-> None, ans |-> << >>,
               req |-> None]

-----------------------------------------------------------------------------
(* Helpers                                                                 *)

\* router.find: the route of (method, path), or the not-found chain
HasRoute(rq) == <<rq.method, rq.path>> \in Routes

\* findAllowedMethods: every method store whose Get matches the path
AllowedMethods(path) == {m \in Methods : <<m, path>> \in Routes}

\* Variant of normalizeAndFilterClientIps without the ParseIP check.
RECURSIVE RealIpAcceptsBad(_, _)
RealIpAcceptsBad(xs, i) ==
    IF i = 0 THEN None
    ELSE IF xs[i] \notin TrustProxies THEN xs[i]
    ELSE RealIpAcceptsBad(xs, i - 1)

\* normalizeAndFilterClientIps: the rightmost entry that parses and is not
\* in a trusted range, or "" (None) if there is none
RECURSIVE RealIpFrom(_, _)
RealIpFrom(xs, i) ==
    IF i = 0 THEN None
    ELSE IF xs[i] # "bad" /\ xs[i] \notin TrustProxies THEN xs[i]
    ELSE RealIpFrom(xs, i - 1)
RealIp(xs) == RealIpFrom(xs, Len(xs))

\* xffInfo.isFromTrustedProxy: evaluated once per xffInfo and cached
Trust(x, rq) ==
    IF x.trust # "unknown" THEN x.trust
    ELSE IF rq.peer \in TrustProxies THEN "trusted" ELSE "untrusted"

\* isFromTrustedProxy run on c.XFFInfo: the verdict is cached in it
WithTrust(x, rq) == [x EXCEPT !.xffInfo = [trust |-> Trust(x.xffInfo, rq)]]
Trusted(x) == x.xffInfo.trust = "trusted"

\* Ctx.IP with its xffInfo.IP fill-in: the cached c.RIP if it is not
\* empty; otherwise, from a trusted proxy, the real IP of the header is
\* appended to c.RIP; an empty c.RIP falls back to the peer address.
\* Returns the new Ctx fields and the address.
CtxIP(x, rq) ==
    IF x.xffInfo = None THEN [c |-> x, v |-> rq.peer]
    ELSE IF x.rip # None THEN [c |-> x, v |-> x.rip]
    ELSE LET x1  == WithTrust(x, rq)
             rip == IF Trusted(x1) THEN RealIp(rq.xff) ELSE None
             x2  == [x1 EXCEPT !.rip = rip]
         IN [c |-> x2, v |-> IF rip # None THEN rip ELSE rq.peer]

\* xffInfo.Host: from a trusted proxy, X-Forwarded-Host is split into host
\* and port; an unparsable one is ignored; a port is stored negated in
\* c.RPort and the host is appended to c.RHost.
XffHost(x, rq) ==
    LET x1 == WithTrust(x, rq)
        h  == rq.fwd.xfh
    IN IF ~Trusted(x1) \/ h = None \/ h.host = "bad" THEN x1
       ELSE [x1 EXCEPT !.rport = IF h.port = None THEN @ ELSE -h.port,
                       !.rhost = @ \o <<h.host>>]

\* xffInfo.Port: xffInfo.Host, then X-Forwarded-Port into c.RPort
XffPort(x, rq) ==
    LET x1 == XffHost(x, rq) IN
    IF ~Trusted(x1) \/ rq.fwd.xfport = None THEN x1
    ELSE [x1 EXCEPT !.rport = rq.fwd.xfport]

\* xffInfo.Secure: X-Forwarded-Proto sets c.RSecure; "https" (like "on",
\* "ssl", "1") is PROTOSECURE, any other value PROTOUNSECURE
XffSecure(x, rq) ==
    LET x1 == WithTrust(x, rq) IN
    IF ~Trusted(x1) \/ rq.fwd.xfproto = None THEN x1
    ELSE [x1 EXCEPT !.rsecure = IF rq.fwd.xfproto = "https"
                                THEN "secure" ELSE "unsecure"]

\* Ctx.Host: a non-empty c.RHost, else xffInfo.Host and c.RHost if that
\* filled it, else the host of the Host header
CtxHost(x, rq) ==
    IF x.xffInfo # None /\ x.rhost # << >> THEN [c |-> x, v |-> x.rhost]
    ELSE LET x1 == IF x.xffInfo = None THEN x ELSE XffHost(x, rq) IN
         [c |-> x1, v |-> IF x.xffInfo # None /\ x1.rhost # << >>
                          THEN x1.rhost ELSE <<rq.fwd.host>>]

\* Ctx.Secure: a known c.RSecure, else xffInfo.Secure, else IsTLS
CtxSecure(x, rq) ==
    IF x.xffInfo # None /\ x.rsecure # "unknown"
    THEN [c |-> x, v |-> x.rsecure = "secure"]
    ELSE LET x1 == IF x.xffInfo = None THEN x ELSE XffSecure(x, rq) IN
         [c |-> x1, v |-> IF x.xffInfo # None /\ x1.rsecure # "unknown"
                          THEN x1.rsecure = "secure" ELSE rq.fwd.tls]

\* Ctx.Port: a positive c.RPort, else xffInfo.Port with a negative c.RPort
\* turned positive, and c.RPort if non-zero; else the port of the Host
\* header; else 443 or 80 by Ctx.Secure
CtxPort(x, rq) ==
    IF x.xffInfo # None /\ x.rport > 0 THEN [c |-> x, v |-> x.rport]
    ELSE LET x1 == IF x.xffInfo = None THEN x
                   ELSE [XffPort(x, rq) EXCEPT !.rport = IF @ < 0 THEN -@ ELSE @]
         IN IF x.xffInfo # None /\ x1.rport # 0 THEN [c |-> x1, v |-> x1.rport]
            ELSE IF rq.fwd.port # None THEN [c |-> x1, v |-> rq.fwd.port]
            ELSE LET s == CtxSecure(x1, rq) IN
                 [c |-> s.c, v |-> IF s.v THEN 443 ELSE 80]

\* one accessor call of the handler
CtxCall(x, rq, name) ==
    CASE name = "IP"     -> CtxIP(x, rq)
      [] name = "Host"   -> CtxHost(x, rq)
      [] name = "Port"   -> CtxPort(x, rq)
      [] name = "Secure" -> CtxSecure(x, rq)

\* the handler's accessor calls in order: the Ctx they leave and what
\* each answered
RECURSIVE RunCalls(_, _, _)
RunCalls(x, rq, cs) ==
    IF cs = << >> THEN [c |-> x, ans |-> << >>]
    ELSE LET r    == CtxCall(x, rq, Head(cs))
             rest == RunCalls(r.c, rq, Tail(cs))
         IN [c |-> rest.c, ans |-> <<[call |-> Head(cs), v |-> r.v]>> \o rest.ans]

\* the xff middleware: c.XFFInfo = &xffInfo{cfg}, unless Skip
Xff(x, rq) == IF rq.skip THEN x ELSE [x EXCEPT !.xffInfo = [trust |-> "unknown"]]

\* the orders in which ranging over r.stores may visit the matching stores
AllowOrders(path) ==
    {s \in [1..Cardinality(AllowedMethods(path)) -> Methods] :
        ToSet(s) = AllowedMethods(path)}

\* findAllowedMethods: m and then ',' appended to c.bytes for each matching
\* store, in the order the range over r.stores visits them
AppendAllowed(b, order) == FoldLeft(LAMBDA acc, m : acc \o <<m, ",">>, b, order)

\* the words of an Allow header value, split at its commas: the bytes are
\* held as a sequence of method names and commas, so a word is the run of
\* names between two commas (a name glued to another is a longer word)
AllowWords(b) ==
    LET cuts == <<0>> \o SetToSortSeq({i \in DOMAIN b : b[i] = ","}, <)
                \o <<Len(b) + 1>>
    IN {SubSeq(b, cuts[k] + 1, cuts[k + 1] - 1) : k \in 1 .. Len(cuts) - 1}

\* MethodNotAllowedHandler: findAllowedMethods appends to c.bytes, which
\* keeps what earlier requests on the Ctx left there; if c.bytes is then
\* non-empty "OPTIONS" is appended with no comma after it, Allow is set to
\* c.bytes, the status to 405 unless the method is OPTIONS, and the chain
\* is aborted; otherwise it returns nil and the chain goes on to
\* NotFoundHandler, whose HTTPError handleError turns into a 404.
NotFoundChain(x, rq, order) ==
    LET b == AppendAllowed(x.bytes, order) IN
    IF b = << >>
    THEN [c |-> x, status |-> 404, allow |-> None]
    ELSE [c |-> [x EXCEPT !.bytes = Append(b, "OPTIONS")],
          status |-> IF rq.method = "OPTIONS" THEN 200 ELSE 405,
          allow |-> AllowWords(Append(b, "OPTIONS"))]

\* Ctx.clear: data and route are dropped; nothing else is reset
ClearCtx(x) == [x EXCEPT !.data = FALSE]

-----------------------------------------------------------------------------
(* HandleRequest: pool.Get, c.init, find, the chain, handleError, c.clear, *)
(* pool.Put.                                                               *)

\* a route matches: [xff, h]; h sees the data bag, Sets it and calls
\* one of the sequences of accessors Calls allows
ServeRoute(c, rq) ==
    /\ HasRoute(rq)
    /\ \E cs \in Calls :
         LET x1  == Xff(ctx[c], rq)
             got == RunCalls(x1, rq, cs)
         IN
         /\ ctx' = [ctx EXCEPT ![c] = ClearCtx([got.c EXCEPT !.data = TRUE])]
         /\ resp' = [status |-> 200, allow |-> None, ans |-> got.ans,
                     req |-> rq]

\* no route: [xff, MethodNotAllowedHandler, NotFoundHandler]
ServeNotFound(c, rq) ==
    /\ ~HasRoute(rq)
    /\ \E order \in AllowOrders(rq.path) :
         LET out == NotFoundChain(Xff(ctx[c], rq), rq, order) IN
         /\ ctx' = [ctx EXCEPT ![c] = ClearCtx(out.c)]
         /\ resp' = [status |-> out.status, allow |-> out.allow, ans |-> << >>,
                     req |-> rq]

HandleRequest(c, rq) ==
    /\ reqs < MaxRequests
    /\ reqs' = reqs + 1
    /\ ServeRoute(c, rq) \/ ServeNotFound(c, rq)

\* every request has been served
Served == reqs = MaxRequests /\ UNCHANGED vars

Next == (\E c \in Ctxs, rq \in Requests : HandleRequest(c, rq)) \/ Served

Spec == Init /\ [][Next]_vars

-----------------------------------------------------------------------------
(* Properties                                                              *)

Accessors == {"IP", "Host", "Port", "Secure"}
FwdHosts == {f.xfh.host : f \in {g \in Fwds : g.xfh # None}}

CtxRecs == [data : BOOLEAN, bytes : Seq(ReqMethods \cup {","}), rip : Addrs \cup {None},
            rhost : Seq(FwdHosts), rport : Int,
            rsecure : {"unknown", "secure", "unsecure"},
            xffInfo : {None} \cup [trust : {"unknown", "trusted", "untrusted"}]]

TypeOK ==
    /\ ctx \in [Ctxs -> CtxRecs]
    /\ reqs \in 0..MaxRequests
    /\ resp.status \in {200, 404, 405}
    /\ \A i \in DOMAIN resp.ans :
         /\ resp.ans[i].call \in Accessors
         /\ resp.ans[i].call = "IP" => resp.ans[i].v \in Addrs

\* the methods that have a route for a path, by the route table itself
RoutedMethods(path) == {m \in Methods : <<m, path>> \in Routes}

\* the client address of a request: the real IP of a trusted proxy's
\* X-Forwarded-For when the xff middleware ran, the peer otherwise
OwnIP(rq) ==
    IF ~rq.skip /\ rq.peer \in TrustProxies /\ RealIp(rq.xff) # None
    THEN RealIp(rq.xff) ELSE rq.peer

\* the xff middleware ran for a request from a trusted proxy
Forwarded(rq) == ~rq.skip /\ rq.peer \in TrustProxies

\* the host, scheme and port of a request: those a trusted proxy forwarded
\* in X-Forwarded-Host/Proto/Port, else those of the Host header and the
\* connection
OwnHost(rq) ==
    IF Forwarded(rq) /\ rq.fwd.xfh # None /\ rq.fwd.xfh.host # "bad"
    THEN <<rq.fwd.xfh.host>> ELSE <<rq.fwd.host>>
OwnSecure(rq) ==
    IF Forwarded(rq) /\ rq.fwd.xfproto # None
    THEN rq.fwd.xfproto = "https" ELSE rq.fwd.tls
OwnPort(rq) ==
    LET h == rq.fwd.xfh IN
    CASE Forwarded(rq) /\ rq.fwd.xfport # None -> rq.fwd.xfport
      [] Forwarded(rq) /\ h # None /\ h.host # "bad" /\ h.port # None -> h.port
      [] rq.fwd.port # None -> rq.fwd.port
      [] OTHER -> IF OwnSecure(rq) THEN 443 ELSE 80
Own(call, rq) ==
    CASE call = "IP" -> OwnIP(rq) [] call = "Host" -> OwnHost(rq)
      [] call = "Port" -> OwnPort(rq) [] call = "Secure" -> OwnSecure(rq)

\* Ctx.clear and the pool (spec P8): what a request gets depends on that
\* request only, never on what an earlier request left in its pooled Ctx.
\* MethodNotAllowedHandler's Allow header, split at its commas, lists exactly
\* the methods with a route for the path, and OPTIONS (and a path no method has a route for gets a 404),
\* and Ctx.IP, Host, Port and Secure tell a handler, each time it calls
\* them, the client address, host, port and scheme of its own request.
ResponseIsOwn ==
    resp.req # None =>
        /\ ~HasRoute(resp.req) =>
               IF RoutedMethods(resp.req.path) = {}
               THEN resp.status = 404
               ELSE resp.allow = {<<m>> : m \in RoutedMethods(resp.req.path) \cup {"OPTIONS"}}
        /\ HasRoute(resp.req) =>
               \A i \in DOMAIN resp.ans :
                   resp.ans[i].v = Own(resp.ans[i].call, resp.req)

=============================================================================
