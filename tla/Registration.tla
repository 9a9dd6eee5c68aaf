---------------------------- MODULE Registration ----------------------------
(***************************************************************************)
(* Route registration on the Router (router.go, route.go): New, Use,       *)
(* NotFound, the RouteGroup shortcuts that make a Route with newRoute and  *)
(* add one method to it (Get, Post, ..., To), Route.add on a Route made    *)
(* before, Route.Name, and Router.add's store insert.  find and            *)
(* findAllowedMethods read the result when a request is served.            *)
(*                                                                         *)
(* Handlers are model values; a chain is the sequence combineHandlers      *)
(* built.  A path is a model value: matching is the RouteURL model's.      *)
(* The route store (store.go) and RouteGroup (group.go) are not in this    *)
(* repository: their Add, Use and shortcuts follow the spec (section 3.3:  *)
(* the store tracks the largest parameter count; "first-registered wins"). *)
(* routeCount is never read and is left out.                               *)
(***************************************************************************)
EXTENDS Naturals, Sequences, SequencesExt

CONSTANTS
    MethodSet,    \* HTTP methods a route is registered under
    Paths,        \* route paths
    Names,        \* names given with Route.Name
    ParamsOf,     \* the number of parameters of each path
    UseHs,        \* handler lists passed to Router.Use
    RouteHs,      \* handler lists passed to a route
    NotFoundHs,   \* handler lists passed to Router.NotFound
    MaxCalls      \* registration calls in one setup

\* New: r.NotFound(MethodNotAllowedHandler, NotFoundHandler)
DefaultNotFound == <<"MethodNotAllowedHandler", "NotFoundHandler">>

NoEntry == [handlers |-> << >>, route |-> 0]

VARIABLES
    groupHandlers,     \* r.RouteGroup.handlers, which Use appends to
    notFound,          \* r.notFound
    notFoundHandlers,  \* r.notFoundHandlers
    store,             \* r.stores[method]: path -> routeData (or NoEntry)
    routePath,         \* the Routes newRoute made, by creation order: their path
    routes,            \* r.routes: path or name -> Route (0 for none)
    maxParams,         \* r.maxParams
    calls              \* registration calls made

regVars == <<groupHandlers, notFound, notFoundHandlers, store, routePath,
             routes, maxParams, calls>>

Keys == Paths \cup Names

\* New (router.go): empty maps, the root group with no handlers, and the
\* default not-found handlers
Init ==
    /\ groupHandlers = << >>
    /\ notFound = DefaultNotFound
    /\ notFoundHandlers = DefaultNotFound
    /\ store = [m \in MethodSet |-> [p \in Paths |-> NoEntry]]
    /\ routePath = << >>
    /\ routes = [k \in Keys |-> 0]
    /\ maxParams = 0
    /\ calls = 0

Call == calls < MaxCalls /\ calls' = calls + 1

\* combineHandlers: a new slice holding h1 then h2
CombineHandlers(h1, h2) == h1 \o h2

\* routeStore.Add: the first routeData registered for a path is kept; the
\* path's parameter count is returned
StoreAdd(st, m, p, data) ==
    IF st[m][p] = NoEntry THEN [st EXCEPT ![m][p] = data] ELSE st

\* Router.add: the method's store (made on first use, here every method's
\* store starts empty) gets the routeData
RouterAdd(st, m, p, data) == StoreAdd(st, m, p, data)

\* Router.add: r.maxParams grows to the count store.Add returns
MaxParamsAfter(p) == IF ParamsOf[p] > maxParams THEN ParamsOf[p] ELSE maxParams

\* Route.add for each method in ms of Route k (path p): the chain is
\* combineHandlers(r.group.handlers, handlers) at this moment
AddMethods(p, k, ms, hs) ==
    LET data == [handlers |-> CombineHandlers(groupHandlers, hs), route |-> k]
    IN /\ store' = FoldLeft(LAMBDA st, m : RouterAdd(st, m, p, data), store, ms)
       /\ maxParams' = MaxParamsAfter(p)

\* Router.Use: RouteGroup.Use appends, then notFoundHandlers is rebuilt
Use(hs) ==
    /\ Call
    /\ groupHandlers' = groupHandlers \o hs
    /\ notFoundHandlers' = CombineHandlers(groupHandlers', notFound)
    /\ UNCHANGED <<notFound, store, routePath, routes, maxParams>>

\* Router.NotFound
NotFound(hs) ==
    /\ Call
    /\ notFound' = hs
    /\ notFoundHandlers' = CombineHandlers(groupHandlers, hs)
    /\ UNCHANGED <<groupHandlers, store, routePath, routes, maxParams>>

\* r.Get(path, hs), r.Post, ..., r.To("M1,M2", path, hs): newRoute
\* registers the new Route under its path, then Route.Get (or To's loop
\* over strings.Split(methods, ",")) adds each method
NewRoute(p, ms, hs) ==
    /\ Call
    /\ routePath' = Append(routePath, p)
    /\ routes' = [routes EXCEPT ![p] = Len(routePath')]
    /\ AddMethods(p, Len(routePath'), ms, hs)
    /\ UNCHANGED <<groupHandlers, notFound, notFoundHandlers>>

\* route.Get(hs) (or Post, ...) on a Route made earlier
AddMethod(k, m, hs) ==
    /\ Call
    /\ AddMethods(routePath[k], k, <<m>>, hs)
    /\ UNCHANGED <<groupHandlers, notFound, notFoundHandlers, routePath, routes>>

\* Route.Name: r.routes[combineNames(group.name, name)] = r; the root
\* group's name is ""
Name(k, n) ==
    /\ Call
    /\ routes' = [routes EXCEPT ![n] = k]
    /\ UNCHANGED <<groupHandlers, notFound, notFoundHandlers, store, routePath, maxParams>>

\* method lists a route is registered under (one, or two for To)
MethodLists == {<<m>> : m \in MethodSet} \cup
              ({<<m1, m2>> : m1, m2 \in MethodSet} \ {<<m, m>> : m \in MethodSet})

RegNext ==
    \/ \E hs \in UseHs : Use(hs)
    \/ \E hs \in NotFoundHs : NotFound(hs)
    \/ \E p \in Paths, ms \in MethodLists, hs \in RouteHs : NewRoute(p, ms, hs)
    \/ \E k \in 1 .. Len(routePath), m \in MethodSet, hs \in RouteHs : AddMethod(k, m, hs)
    \/ \E k \in 1 .. Len(routePath), n \in Names : Name(k, n)

-----------------------------------------------------------------------------
(* Serving reads                                                           *)

\* Router.find: the route's chain, or notFoundHandlers
Find(m, p) == IF store[m][p] # NoEntry THEN store[m][p].handlers ELSE notFoundHandlers

\* Router.findAllowedMethods: the methods whose store has the path
AllowedMethods(p) == {m \in MethodSet : store[m][p] # NoEntry}

\* Router.Route
RouteOf(n) == routes[n]

=============================================================================
