----------------------------- MODULE MCRouteURL -----------------------------
(* Route paths and parameter values for checking RouteURL.                 *)
EXTENDS RouteURL

\* every path of up to four characters over the characters the compiler
\* treats specially and one letter
ShortPaths == UNION {[1 .. n -> {"/", "<", ">", ":", "a"}] : n \in 0 .. 4}

\* routes as applications write them
Str(s) == [k \in 1 .. Len(s) |-> SubSeq(s, k, k)]
MCAppPaths == {Str("/<a>/<b>"), Str("/<a>/<b:b>"), Str("/u/<a>"), Str("/u/<a:a>"),
             Str("/u/*"), Str("/<a>/*"), Str("/<a:>/<a>")}

MCRawPaths == ShortPaths \cup MCAppPaths
\* values: empty, letters, a space, a slash, and an escaped slash
MCValues == {<< >>, <<"a">>, <<"b">>, <<" ">>, <<"/">>, <<"%", "2", "F">>}
=============================================================================
