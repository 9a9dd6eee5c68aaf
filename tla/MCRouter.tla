------------------------------ MODULE MCRouter ------------------------------
(* Router with three paths: one with two methods, one with one, one with   *)
(* none; the client and proxy addresses are given in the cfg.  A request   *)
(* either carries no forwarding headers, or X-Forwarded-Host without a     *)
(* port and X-Forwarded-Proto https; the handler calls the accessors.      *)
EXTENDS Router, TLC

MCRoutes == {<<"GET", "/a">>, <<"POST", "/a">>, <<"GET", "/b">>}

MCPlain == [host |-> "h0", port |-> None, xfh |-> None, xfport |-> None,
            xfproto |-> None, tls |-> FALSE]
MCProxied == [host |-> "h0", port |-> None, xfh |-> [host |-> "h1", port |-> None],
              xfport |-> None, xfproto |-> "https", tls |-> FALSE]
MCFwds == {MCPlain, MCProxied}

MCCalls == {<<"Host", "Port", "Host", "Secure", "IP">>}

\* the pool hands out any of its objects: the Ctx objects are interchangeable
MCCtxSymmetry == Permutations(Ctxs)
=============================================================================
