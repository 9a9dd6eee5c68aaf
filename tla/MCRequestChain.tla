--------------------------- MODULE MCRequestChain ---------------------------
(***************************************************************************)
(* Registration and HandlerChain composed: the router is set up by a      *)
(* sequence of registration calls, then one request is served.  Router.   *)
(* HandleRequest takes the chain Router.find returns, and Ctx.Next runs    *)
(* it; each handler of the chain takes one of the HandlerChain shapes its  *)
(* code can take on this request.                                          *)
(***************************************************************************)
EXTENDS Naturals, Sequences, SequencesExt

CONSTANTS MethodSet, Paths, Names, ParamsOf, UseHs, RouteHs, NotFoundHs,
          MaxCalls, MaxLen, Shapes, ShapesOf,
          CorsPath   \* cors Config.Path: "*" or path prefixes

VARIABLES groupHandlers, notFound, notFoundHandlers, store, routePath,
          routes, maxParams, calls,
          handlers, index, stack, mode, val, status, ran, raised,
          phase,   \* "register" until serving begins, then "serve"
          req      \* the request served: its method, path and chain

Reg   == INSTANCE Registration
Chain == INSTANCE HandlerChain

regVars == <<groupHandlers, notFound, notFoundHandlers, store, routePath,
             routes, maxParams, calls>>
chainVars == <<handlers, index, stack, mode, val, status, ran, raised>>
vars == <<regVars, chainVars, phase, req>>

\* a request: its method, its path (one of the routes' paths), whether it
\* carries Access-Control-Request-Method; chain is filled in by find
Requests == [method : MethodSet, path : Paths, acrm : BOOLEAN, chain : {<< >>}]

Init ==
    /\ Reg!Init
    /\ handlers = << >> /\ index = -1 /\ stack = << >> /\ mode = "next"
    /\ val = "nil" /\ status = 200 /\ ran = << >> /\ raised = FALSE
    /\ phase = "register"
    /\ req = CHOOSE r \in Requests : TRUE

\* strings.HasPrefix
Str(x) == [k \in 1 .. Len(x) |-> SubSeq(x, k, k)]
HasPrefix(x, pre) == IsPrefix(Str(pre), Str(x))

\* cors Config.hasMatchingPath
HasMatchingPath(p) ==
    /\ CorsPath # << >>
    /\ CorsPath[1] = "*" \/ \E i \in 1 .. Len(CorsPath) : HasPrefix(p, CorsPath[i])

\* isPreflightRequest: OPTIONS with an Access-Control-Request-Method header
IsPreflight(r) == r.method = "OPTIONS" /\ r.acrm

\* the shapes a handler can take on request r:
\* - cors (New's handler, with Skip nil) returns nil without Next on a
\*   preflight to a matching path, and otherwise returns Next's error;
\* - MethodNotAllowedHandler aborts when some method has the path and
\*   returns nil otherwise; NotFoundHandler returns an HTTPError
ShapesFor(h, r) ==
    CASE h = "cors" ->
             IF HasMatchingPath(r.path) /\ IsPreflight(r) THEN {"Pass"} ELSE {"Wrap"}
      [] h = "MethodNotAllowedHandler" ->
             IF Reg!AllowedMethods(r.path) # {} THEN {"Abort"} ELSE {"Pass"}
      [] h = "NotFoundHandler" -> {"FailHTTP"}
      [] OTHER -> ShapesOf[h]

\* a registration call before serving
Register ==
    /\ phase = "register"
    /\ Reg!RegNext
    /\ UNCHANGED <<chainVars, phase, req>>

\* Router.HandleRequest: c.init, then c.handlers = r.find(method, path)
\* and the first c.Next()
Serve(r) ==
    /\ phase = "register"
    /\ LET hh == Reg!Find(r.method, r.path) IN
       /\ handlers' \in {s \in [1 .. Len(hh) -> Shapes] :
                            \A i \in 1 .. Len(hh) : s[i] \in ShapesFor(hh[i], r)}
       /\ req' = [r EXCEPT !.chain = hh]
    /\ index' = -1 /\ stack' = << >> /\ mode' = "next" /\ val' = "nil"
    /\ status' = 200 /\ ran' = << >> /\ raised' = FALSE
    /\ phase' = "serve"
    /\ UNCHANGED regVars

\* a step of Ctx.Next, a handler body or handleError
Run ==
    /\ phase = "serve"
    /\ Chain!Next
    /\ UNCHANGED <<regVars, phase, req>>

Next ==
    \/ Register
    \/ \E r \in Requests : Serve(r)
    \/ Run

Spec == Init /\ [][Next]_vars

-----------------------------------------------------------------------------
(* The setup: Use with cors (DefCfg) or session, routes with one          *)
(* application handler under a path cors covers and one it does not (with *)
(* a parameter), a name, and NotFound(NotFoundHandler).                   *)

MCUseHs == {<<"cors">>, <<"session">>}
MCCorsPath == <<"/api", "/sanctum/csrf-cookie">>   \* DefCfg.Path
MCRouteHs == {<<"app">>}
MCNotFoundHs == {<<"NotFoundHandler">>}
MCParamsOf == "/api/a" :> 0 @@ "/b/<id>" :> 1

\* session wraps Next and may fail its commit; an application handler
\* returns nil or an error
MCShapesOf == "session" :> {"Wrap", "WrapFail"} @@ "app" :> {"Pass", "Fail"}

-----------------------------------------------------------------------------

\* Router.Use's comment: it "appends the specified handlers to the router
\* and shares them with all routes", and spec 4.1: a route's chain is the
\* group middleware followed by its own handlers.  The chain a request
\* runs starts with every handler Use was given, whenever the route was
\* registered.
ServedChainHasMiddleware ==
    phase = "serve" => IsPrefix(groupHandlers, req.chain)

\* Spec 4.4 over the chains registration builds: a handler that returns
\* without calling Next ends the chain (cors relies on it for a
\* preflight).  MethodNotAllowedHandler is left out: spec 4.1 has it fall
\* through to the 404 handler when no other method has the path.
RegisteredChainEndsOnReturn ==
    \A k \in 1 .. Len(ran) :
        /\ handlers[ran[k] + 1] = "Pass"
        /\ req.chain[ran[k] + 1] # "MethodNotAllowedHandler"
        => k = Len(ran)

\* both documented rules of how a registered chain is built and run
ChainAsDocumented == ServedChainHasMiddleware /\ RegisteredChainEndsOnReturn

=============================================================================
