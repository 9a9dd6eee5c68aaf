------------------------------ MODULE RouteURL ------------------------------
(***************************************************************************)
(* The path template compiler and the reverse-URL builders of route.go:    *)
(* newRoute's trailing "*" rewrite, buildURLTemplate, buildURLTemplate2,   *)
(* Route.URL, Route.URLByIndex and Route.URLByNames, and the match a URL   *)
(* meets when it comes back.                                               *)
(*                                                                         *)
(* A string is a sequence of one-character strings and is indexed the way  *)
(* Go indexes it: At(s, i) is s[i] and Sub(s, a, b) is s[a:b], from 0.     *)
(* The route store (store.go) and fasthttp's path decoding are not part of *)
(* this repository; Match and PathDecode are what the spec says of them    *)
(* (sections 3, 4.2 and P3).                                               *)
(***************************************************************************)
EXTENDS Integers, Sequences, SequencesExt

CONSTANTS
    RawPaths,   \* route paths given to newRoute (after the group prefix)
    Values,     \* parameter values callers pass
    Nil         \* a nil *regexp.Regexp, a missing match

At(s, i) == s[i + 1]
Sub(s, a, b) == SubSeq(s, a + 1, b)

\* "<" + name + ">"
Tok(name) == <<"<">> \o name \o <<">">>

\* the regexp newRoute puts in place of a trailing "*"
CatchAll == <<".", "*">>

\* newRoute: path = group.prefix + path; a trailing "*" becomes "<*:.*>"
NewRoutePath(raw) ==
    IF raw # << >> /\ Last(raw) = "*"
    THEN Front(raw) \o Tok(<<"*", ":">> \o CatchAll)
    ELSE raw

\* the index of the first ':' between the '<' at start and the '>' at i
ColonAt(p, start, i) ==
    LET cs == {j \in start + 1 .. i - 1 : At(p, j) = ":"}
    IN IF cs = {} THEN -1 ELSE Min(cs)

\* the parameter name of the token p[start:i+1]
ParamName(p, start, i) ==
    LET c == ColonAt(p, start, i)
    IN IF c = -1 THEN Sub(p, start + 1, i) ELSE Sub(p, start + 1, c)

\* buildURLTemplate2: the regexp of the token, nil if it has none or an
\* empty one
ParamRegex(p, start, i) ==
    LET c == ColonAt(p, start, i)
    IN IF c = -1 \/ c + 1 = i THEN Nil ELSE Sub(p, c + 1, i)

\* Variant of buildURLTemplate that does not reset start after a token.
RECURSIVE TemplateScanNoReset(_, _, _, _, _)
TemplateScanNoReset(p, i, start, end, tpl) ==
    IF i = Len(p)
    THEN IF end < 0 THEN p
         ELSE IF end < Len(p) - 1 THEN tpl \o Sub(p, end + 1, Len(p))
         ELSE tpl
    ELSE IF At(p, i) = "<" /\ start < 0
    THEN TemplateScanNoReset(p, i + 1, i, end, tpl)
    ELSE IF At(p, i) = ">" /\ start >= 0
    THEN TemplateScanNoReset(p, i + 1, start, i,
                      tpl \o Sub(p, end + 1, start) \o Tok(ParamName(p, start, i)))
    ELSE TemplateScanNoReset(p, i + 1, start, end, tpl)

\* buildURLTemplate: the path with the regexps of its tokens removed.  The
\* scan is at i, start is the '<' of an open token or -1, end the last '>'.
RECURSIVE TemplateScan(_, _, _, _, _)
TemplateScan(p, i, start, end, tpl) ==
    IF i = Len(p)
    THEN IF end < 0 THEN p
         ELSE IF end < Len(p) - 1 THEN tpl \o Sub(p, end + 1, Len(p))
         ELSE tpl
    ELSE IF At(p, i) = "<" /\ start < 0
    THEN TemplateScan(p, i + 1, i, end, tpl)
    ELSE IF At(p, i) = ">" /\ start >= 0
    THEN TemplateScan(p, i + 1, -1, i,
                      tpl \o Sub(p, end + 1, start) \o Tok(ParamName(p, start, i)))
    ELSE TemplateScan(p, i + 1, start, end, tpl)

BuildURLTemplate(p) == TemplateScan(p, 0, -1, -1, << >>)

\* Variant of buildURLTemplate2 that leaves out empty literals.
RECURSIVE SegmentScanSkipsEmpty(_, _, _, _, _)
SegmentScanSkipsEmpty(p, i, start, end, acc) ==
    IF i = Len(p)
    THEN [acc EXCEPT !.segments =
             IF end < 0 THEN Append(@, p)
             ELSE IF end < Len(p) - 1 THEN Append(@, Sub(p, end + 1, Len(p)))
             ELSE @]
    ELSE IF At(p, i) = "<" /\ start < 0
    THEN SegmentScanSkipsEmpty(p, i + 1, i, end, acc)
    ELSE IF At(p, i) = ">" /\ start >= 0
    THEN SegmentScanSkipsEmpty(p, i + 1, -1, i,
             [segments   |-> acc.segments \o
                               (IF end + 1 = start THEN << >> ELSE << Sub(p, end + 1, start) >>)
                               \o << Tok(ParamName(p, start, i)) >>,
              paramNames |-> Append(acc.paramNames, ParamName(p, start, i)),
              regexps    |-> Append(acc.regexps, ParamRegex(p, start, i))])
    ELSE SegmentScanSkipsEmpty(p, i + 1, start, end, acc)

\* buildURLTemplate2: segments (literals and "<name>" tokens), paramNames
\* and regexps, in one scan like buildURLTemplate's
RECURSIVE SegmentScan(_, _, _, _, _)
SegmentScan(p, i, start, end, acc) ==
    IF i = Len(p)
    THEN [acc EXCEPT !.segments =
             IF end < 0 THEN Append(@, p)
             ELSE IF end < Len(p) - 1 THEN Append(@, Sub(p, end + 1, Len(p)))
             ELSE @]
    ELSE IF At(p, i) = "<" /\ start < 0
    THEN SegmentScan(p, i + 1, i, end, acc)
    ELSE IF At(p, i) = ">" /\ start >= 0
    THEN SegmentScan(p, i + 1, -1, i,
             [segments   |-> acc.segments \o
                               << Sub(p, end + 1, start), Tok(ParamName(p, start, i)) >>,
              paramNames |-> Append(acc.paramNames, ParamName(p, start, i)),
              regexps    |-> Append(acc.regexps, ParamRegex(p, start, i))])
    ELSE SegmentScan(p, i + 1, start, end, acc)

BuildURLTemplate2(p) ==
    SegmentScan(p, 0, -1, -1, [segments |-> << >>, paramNames |-> << >>, regexps |-> << >>])

\* newRoute: the Route's path, template, segments, paramNames and regexps
NewRoute(raw) ==
    LET p == NewRoutePath(raw) IN
    [path |-> p, template |-> BuildURLTemplate(p)] @@ BuildURLTemplate2(p)

\* regexp.MustCompile(`^` + re).MatchString(v), for the regexps a route of
\* RawPaths can have: a literal, or the catch-all
RegexMatch(re, v) == re = CatchAll \/ IsPrefix(re, v)

\* strings.Contains(v, "/")
HasSlash(v) == \E k \in DOMAIN v : v[k] = "/"

-----------------------------------------------------------------------------
(* Reverse URLs                                                            *)

\* url.QueryEscape: unreserved characters (letters, digits, '-', '_', '.',
\* '~') stay, ' ' becomes '+', any other byte becomes %XX
Unreserved == {"a", "b", "c", "u", "A", "B", "C", "E", "F", "2", "3", "5",
               "-", "_", ".", "~"}
HexOf == ("/" :> <<"2", "F">>) @@ ("<" :> <<"3", "C">>) @@ (">" :> <<"3", "E">>)
         @@ (":" :> <<"3", "A">>) @@ ("+" :> <<"2", "B">>) @@ ("*" :> <<"2", "A">>)
         @@ ("%" :> <<"2", "5">>)
EscapeChar(c) ==
    IF c \in Unreserved THEN <<c>>
    ELSE IF c = " " THEN <<"+">>
    ELSE <<"%">> \o HexOf[c]
QueryEscape(v) == FlattenSeq([k \in DOMAIN v |-> EscapeChar(v[k])])

\* strings.Replace(s, old, new, -1) with old non-empty: every
\* non-overlapping occurrence, left to right
RECURSIVE StringsReplace(_, _, _)
StringsReplace(s, old, new) ==
    IF Len(s) < Len(old) THEN s
    ELSE IF SubSeq(s, 1, Len(old)) = old
    THEN new \o StringsReplace(SubSeq(s, Len(old) + 1, Len(s)), old, new)
    ELSE <<Head(s)>> \o StringsReplace(Tail(s), old, new)

\* Route.URL: for i := 0; i < len(pairs); i++, the token "<pairs[i]>" is
\* replaced by the escaped pairs[i+1], or by "" for the last element
RECURSIVE URLLoop(_, _, _)
URLLoop(s, pairs, i) ==
    IF i = Len(pairs) THEN s
    ELSE LET value == IF i < Len(pairs) - 1 THEN QueryEscape(At(pairs, i + 1)) ELSE << >>
         IN URLLoop(StringsReplace(s, Tok(At(pairs, i)), value), pairs, i + 1)

URL(route, pairs) == URLLoop(route.template, pairs, 0)

\* the outcome of URLByIndex and URLByNames: an error, a panic, or a url
Result(err, url) == [err |-> err, url |-> url]

\* the value check both builders make: no '/' in a value for a parameter
\* without a regexp, a match of its regexp otherwise
ValueOK(re, v) == IF re = Nil THEN ~HasSlash(v) ELSE RegexMatch(re, v)
ValueErr(re) == IF re = Nil THEN "slash" ELSE "regex"

\* Variant of URLByIndex's final loop that does not advance j.
RECURSIVE IndexConcatNoAdvance(_, _, _, _)
IndexConcatNoAdvance(segs, params, j, url) ==
    IF segs = << >> THEN Result("none", url)
    ELSE IF Head(segs) = << >> THEN Result("panic", url)
    ELSE IF Head(Head(segs)) = "<"
    THEN IF j >= Len(params) THEN Result("panic", url)
         ELSE IndexConcatNoAdvance(Tail(segs), params, j, url \o At(params, j))
    ELSE IndexConcatNoAdvance(Tail(segs), params, j, url \o Head(segs))

\* URLByIndex's final loop: params in place of the tokens; s[0] of an
\* empty segment, or params[j] past the end (a trailing literal that begins
\* with an unclosed '<'), is an index out of range
RECURSIVE IndexConcat(_, _, _, _)
IndexConcat(segs, params, j, url) ==
    IF segs = << >> THEN Result("none", url)
    ELSE IF Head(segs) = << >> THEN Result("panic", url)
    ELSE IF Head(Head(segs)) = "<"
    THEN IF j >= Len(params) THEN Result("panic", url)
         ELSE IndexConcat(Tail(segs), params, j + 1, url \o At(params, j))
    ELSE IndexConcat(Tail(segs), params, j, url \o Head(segs))

\* Route.URLByIndex
URLByIndex(route, params) ==
    LET bad == {i \in 0 .. Len(params) - 1 :
                   ~ValueOK(At(route.regexps, i), At(params, i))}
    IN IF Len(params) # Len(route.paramNames) THEN Result("count", << >>)
       ELSE IF bad # {} THEN Result(ValueErr(At(route.regexps, Min(bad))), << >>)
       ELSE IndexConcat(route.segments, params, 0, << >>)


\* URLByNames's check of each name (even i) and the value after it: the
\* first parameter of that name, then the value check; names[i+1] past the
\* end, and r.regexps[i] (not i1) in the error message, past the end or nil,
\* panic
RECURSIVE NamesCheck(_, _, _)
NamesCheck(route, names, i) ==
    IF i >= Len(names) THEN "none"
    ELSE IF i % 2 = 1 THEN NamesCheck(route, names, i + 1)
    ELSE LET hits == {i1 \in 0 .. Len(route.paramNames) - 1 :
                          At(route.paramNames, i1) = At(names, i)}
         IN IF hits = {} THEN "noName"
            ELSE LET re == At(route.regexps, Min(hits)) IN
                 IF i + 1 >= Len(names) THEN "panic"
                 ELSE IF ValueOK(re, At(names, i + 1)) THEN NamesCheck(route, names, i + 1)
                 ELSE IF re # Nil /\ (i >= Len(route.regexps) \/ At(route.regexps, i) = Nil)
                      THEN "panic"
                 ELSE ValueErr(re)

\* URLByNames's final loop: for a token, the element after the first
\* element of names (a name or a value) equal to the token's name; s[1:0]
\* of a segment "<" and names[i+1] past the end panic
RECURSIVE NamesConcat(_, _, _)
NamesConcat(segs, names, url) ==
    IF segs = << >> THEN Result("none", url)
    ELSE IF Head(segs) = << >> THEN Result("panic", url)
    ELSE IF Head(Head(segs)) = "<" /\ Len(Head(segs)) = 1 THEN Result("panic", url)
    ELSE IF Head(Head(segs)) = "<"
    THEN LET name == SubSeq(Head(segs), 2, Len(Head(segs)) - 1)
             hits == {i \in 0 .. Len(names) - 1 : At(names, i) = name}
         IN IF hits = {} THEN NamesConcat(Tail(segs), names, url)
            ELSE IF Min(hits) + 1 >= Len(names) THEN Result("panic", url)
            ELSE NamesConcat(Tail(segs), names, url \o At(names, Min(hits) + 1))
    ELSE NamesConcat(Tail(segs), names, url \o Head(segs))

\* Route.URLByNames
URLByNames(route, names) ==
    IF Len(names) \div 2 # Len(route.paramNames) THEN Result("count", << >>)
    ELSE LET e == NamesCheck(route, names, 0) IN
         IF e # "none" THEN Result(e, << >>)
         ELSE NamesConcat(route.segments, names, << >>)

-----------------------------------------------------------------------------
(* The way back: fasthttp's RequestCtx.Path and the route store's Get      *)

\* %XX is decoded; '+' stays what it is in a path
RECURSIVE PathDecode(_)
PathDecode(u) ==
    IF u = << >> THEN << >>
    ELSE IF Len(u) >= 3 /\ Head(u) = "%" /\ \E c \in DOMAIN HexOf : HexOf[c] = SubSeq(u, 2, 3)
    THEN <<CHOOSE c \in DOMAIN HexOf : HexOf[c] = SubSeq(u, 2, 3)>> \o PathDecode(SubSeq(u, 4, Len(u)))
    ELSE <<Head(u)>> \o PathDecode(Tail(u))

\* the longest prefix of path without '/'
UpToSlash(path) ==
    LET cut == {k \in DOMAIN path : path[k] = "/"}
    IN IF cut = {} THEN path ELSE SubSeq(path, 1, Min(cut) - 1)

\* store.Get for one route: segments alternate literal (odd positions) and
\* parameter (even positions); a parameter without a regexp takes the run
\* up to the next '/', one with a regexp what the regexp matches at its
\* start; the values, or Nil if the path does not match
RECURSIVE MatchFrom(_, _, _, _)
MatchFrom(route, k, path, vals) ==
    IF k > Len(route.segments) THEN IF path = << >> THEN vals ELSE Nil
    ELSE IF k % 2 = 1
    THEN IF IsPrefix(route.segments[k], path)
         THEN MatchFrom(route, k + 1, SubSeq(path, Len(route.segments[k]) + 1, Len(path)), vals)
         ELSE Nil
    ELSE LET re == route.regexps[k \div 2]
             v  == CASE re = CatchAll       -> path
                     [] re = Nil            -> UpToSlash(path)
                     [] IsPrefix(re, path)  -> re
                     [] OTHER               -> Nil
         IN IF v = Nil THEN Nil
            ELSE MatchFrom(route, k + 1, SubSeq(path, Len(v) + 1, Len(path)), Append(vals, v))

Match(route, path) == MatchFrom(route, 1, path, << >>)


-----------------------------------------------------------------------------
(* A route and the reverse URLs callers ask of it                          *)

VARIABLES
    route,   \* the Route newRoute compiled
    call     \* the last reverse-URL call: builder, values, result

vars == <<route, call>>

NoCall == [kind |-> "none", values |-> << >>, res |-> Result("none", << >>)]

\* values for the first parameters of a route, in order
Args(r) == UNION {[1 .. n -> Values] : n \in 0 .. Len(r.paramNames)}

\* name1, value1, name2, value2, ...
Pairs(r, vals) == FlattenSeq([k \in DOMAIN vals |-> <<r.paramNames[k], vals[k]>>])

Init ==
    /\ route \in {NewRoute(raw) : raw \in RawPaths}
    /\ call = NoCall

\* Ctx.URL / Route.URL with name-value pairs
CallURL(vals) ==
    /\ call' = [kind |-> "URL", values |-> vals,
                res |-> Result("none", URL(route, Pairs(route, vals)))]
    /\ UNCHANGED route

\* Route.URLByIndex
CallURLByIndex(vals) ==
    /\ call' = [kind |-> "URLByIndex", values |-> vals, res |-> URLByIndex(route, vals)]
    /\ UNCHANGED route

\* Route.URLByNames with name-value pairs
CallURLByNames(vals) ==
    /\ call' = [kind |-> "URLByNames", values |-> vals,
                res |-> URLByNames(route, Pairs(route, vals))]
    /\ UNCHANGED route

Next ==
    \E vals \in Args(route) :
        CallURL(vals) \/ CallURLByIndex(vals) \/ CallURLByNames(vals)

Spec == Init /\ [][Next]_vars

-----------------------------------------------------------------------------
(* Properties                                                              *)

Chars == {"/", "<", ">", ":", "a", "b", "c", "u", " ", "*", ".", "+", "%",
          "-", "_", "~", "2", "3", "A", "B", "C", "E", "F", "5"}

TypeOK ==
    /\ route.path \in Seq(Chars)
    /\ Len(route.segments) \in {2 * Len(route.paramNames), 2 * Len(route.paramNames) + 1}
    /\ Len(route.regexps) = Len(route.paramNames)
    /\ call.kind \in {"none", "URL", "URLByIndex", "URLByNames"}
    /\ call.res.err \in {"none", "count", "slash", "regex", "noName", "panic"}

\* a value the route's parameter k accepts whole: no '/' without a
\* regexp, the regexp's text for a literal regexp, anything for "*"
Satisfies(r, k, v) ==
    LET re == r.regexps[k] IN
    CASE re = Nil      -> ~HasSlash(v)
      [] re = CatchAll -> TRUE
      [] OTHER         -> v = re

\* a route the store can parse back: its path starts with '/', its
\* parameter names are distinct, and every parameter is followed by a
\* literal that starts with '/', or ends the path
Separated(r) ==
    /\ r.path # << >> /\ Head(r.path) = "/"
    /\ \A j, k \in DOMAIN r.paramNames : j # k => r.paramNames[j] # r.paramNames[k]
    /\ \A k \in DOMAIN r.paramNames :
         \/ 2 * k = Len(r.segments)
         \/ r.segments[2 * k + 1] # << >> /\ Head(r.segments[2 * k + 1]) = "/"

\* a call with a complete set of values that satisfy the constraints of a
\* route the store can parse back
Complete(r, vals) ==
    /\ Separated(r)
    /\ Len(vals) = Len(r.paramNames)
    /\ \A k \in DOMAIN vals : Satisfies(r, k, vals[k])

\* buildURLTemplate and buildURLTemplate2 scan the path separately: the
\* template URL fills in is the segments URLByIndex and URLByNames
\* concatenate, for every path, malformed ones included.
TemplateIsSegments == route.template = FlattenSeq(route.segments)

\* Spec P3 (URL round trip): a URL built by Route.URL from a complete set
\* of values that satisfy the route's constraints routes back, through
\* fasthttp's path decoding and the store's match, to the same values.
URLRoundTrip ==
    call.kind = "URL" /\ Complete(route, call.values)
        => Match(route, PathDecode(call.res.url)) = call.values

\* URLByIndex, like Route.URL under spec P3: when it returns a URL without
\* an error for a complete set of values, that URL routes back, through
\* fasthttp's path decoding and the store's match, to the values it was
\* given.
URLByIndexRoundTrip ==
    call.kind = "URLByIndex" /\ call.res.err = "none" /\ Complete(route, call.values)
        => Match(route, PathDecode(call.res.url)) = call.values

\* URLByNames: the names select the parameters, so it builds the URL
\* URLByIndex builds from the same values in order, or fails as it does.
URLByNamesAgrees ==
    call.kind = "URLByNames" /\ Separated(route)
        => call.res = URLByIndex(route, call.values)


\* Spec 2 ("never panics on malformed input; malformed tokens degrade to
\* literal text"): the builders that return an error return one instead of
\* panicking, on routes of malformed paths as on any other, for any values.
BuildersDoNotPanic ==
    call.kind \in {"URLByIndex", "URLByNames"} => call.res.err # "panic"

\* Spec P3 for the reverse-URL builders a handler calls by name: Route.URL's
\* URL routes back to its values (URLRoundTrip), so does URLByIndex's
\* (URLByIndexRoundTrip), and URLByNames builds what URLByIndex builds from
\* the same values (URLByNamesAgrees); and neither URLByIndex nor URLByNames
\* panics (BuildersDoNotPanic).
ReverseURLsRouteBack ==
    /\ URLRoundTrip /\ URLByIndexRoundTrip /\ URLByNamesAgrees
    /\ BuildersDoNotPanic

=============================================================================
