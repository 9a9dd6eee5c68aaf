------------------------- MODULE ContentNegotiation -------------------------
(***************************************************************************)
(* Content negotiation in helpers.go (taken over from fiber): getOffer     *)
(* picks, for an Accept-style header and a list of offers, the offer to    *)
(* answer with.  It splits the header into media ranges                    *)
(* (forEachMediaRange), reads each range's parameters and quality          *)
(* (forEachParameter, fasthttp.ParseUfloat), drops ranges of quality 0,    *)
(* sorts the rest (sortAcceptedTypes) and returns the first offer that the *)
(* first range accepts: acceptsOfferType for media types, acceptsOffer for *)
(* charsets, encodings and languages.                                      *)
(*                                                                         *)
(* A string is a sequence of one-character strings, indexed from 0 as Go   *)
(* does: At(s, i) is s[i], Sub(s, a, b) is s[a:b], Drop(s, a) is s[a:].    *)
(* A quality is an integer number of thousandths.                          *)
(***************************************************************************)
EXTENDS Integers, Sequences, SequencesExt, TLC

CONSTANTS
    TypeRanges,   \* media ranges an Accept header is made of
    TypeOffers,   \* media types and extensions a handler offers
    PlainRanges,  \* ranges of Accept-Charset/-Encoding/-Language headers
    PlainOffers,  \* charsets, encodings or languages a handler offers
    MaxRanges,    \* most ranges in one header
    ExtMime       \* utils.GetMIME on the extensions offered

Str(s) == [k \in 1 .. Len(s) |-> SubSeq(s, k, k)]
At(s, i) == s[i + 1]
Sub(s, a, b) == SubSeq(s, a + 1, b)
Drop(s, a) == SubSeq(s, a + 1, Len(s))

\* strings.IndexByte
IndexByte(s, c) ==
    LET is == {i \in 0 .. Len(s) - 1 : At(s, i) = c}
    IN IF is = {} THEN -1 ELSE Min(is)

\* strings.TrimLeft / TrimRight with " "
RECURSIVE TrimLeftSp(_)
TrimLeftSp(s) == IF s # << >> /\ Head(s) = " " THEN TrimLeftSp(Tail(s)) ELSE s
RECURSIVE TrimRightSp(_)
TrimRightSp(s) == IF s # << >> /\ Last(s) = " " THEN TrimRightSp(Front(s)) ELSE s

Uppers == Str("ABCDEFGHIJKLMNOPQRSTUVWXYZ")
Lowers == Str("abcdefghijklmnopqrstuvwxyz")
Digits == Str("0123456789")

\* utils.EqualFold: equal up to ASCII case
LowerChar(c) ==
    LET k == SelectInSeq(Uppers, LAMBDA u : u = c) IN IF k = 0 THEN c ELSE Lowers[k]
EqualFold(a, b) ==
    Len(a) = Len(b) /\ \A i \in 1 .. Len(a) : LowerChar(a[i]) = LowerChar(b[i])

\* validHeaderFieldByte: a tchar of RFC 9110 (less the backquote, which no
\* input here holds)
TChars == ToSet(Uppers \o Lowers \o Digits \o Str("!#$%&*+-.^_|~")) \cup {"'"}

-----------------------------------------------------------------------------
(* Parsing                                                                 *)

\* forEachMediaRange's scan of a header with a '"': n stops at a ',' with
\* an even number of quotes before it; a '\' inside quotes flips escaping,
\* and an unescaped '"' counts as a quote
RECURSIVE QuotedScan(_, _, _, _)
QuotedScan(h, n, quotes, escaping) ==
    IF n >= Len(h) THEN n
    ELSE LET c == At(h, n) IN
         IF c = "," /\ quotes % 2 = 0 THEN n
         ELSE QuotedScan(h, n + 1,
                         IF c = "\"" /\ ~escaping THEN quotes + 1 ELSE quotes,
                         IF c = "\\" /\ quotes % 2 = 1 THEN ~escaping ELSE escaping)

\* forEachMediaRange: the ranges it hands its functor, in order
RECURSIVE RangesFrom(_, _)
RangesFrom(h, dq) ==
    IF h = << >> THEN << >>
    ELSE LET t == TrimLeftSp(h)
             c == IndexByte(t, ",")
             n == IF dq THEN QuotedScan(t, 0, 0, FALSE)
                  ELSE IF c = -1 THEN Len(t) ELSE c
         IN <<Sub(t, 0, n)>> \o (IF n >= Len(t) THEN << >>
                                 ELSE RangesFrom(Drop(t, n + 1), dq))
MediaRanges(h) == RangesFrom(h, IndexByte(h, "\"") # -1)

RECURSIVE TokenEnd(_, _)
TokenEnd(p, n) == IF n < Len(p) /\ At(p, n) \in TChars THEN TokenEnd(p, n + 1) ELSE n

\* the unescaped '"' that closes a quoted-string, or -1
RECURSIVE QuoteEnd(_, _, _)
QuoteEnd(p, n, escaping) ==
    IF n >= Len(p) THEN -1
    ELSE IF At(p, n) = "\"" /\ ~escaping THEN n
    ELSE QuoteEnd(p, n + 1, At(p, n) = "\\" /\ ~escaping)

\* forEachParameter: the <<name, value>> pairs it hands its functor before
\* the list ends or is malformed (the functor's early stop is the caller's)
RECURSIVE Params(_)
Params(params) ==
    LET p == TrimLeftSp(params) IN
    IF p = << >> \/ Head(p) # ";" THEN << >>
    ELSE LET q == TrimLeftSp(Tail(p)) IN
    IF q = << >> \/ Head(q) \notin TChars THEN << >>
    ELSE LET n == TokenEnd(q, 1) IN
    IF n >= Len(q) - 1 \/ At(q, n) # "=" THEN << >>
    ELSE IF At(q, n + 1) = "\""
    THEN LET e == QuoteEnd(q, n + 2, FALSE) IN
         IF e = -1 THEN << >>
         ELSE <<<<Sub(q, 0, n), Sub(q, n + 2, e)>>>> \o Params(Drop(q, e + 1))
    ELSE IF At(q, n + 1) \in TChars
    THEN LET e == TokenEnd(q, n + 2) IN
         <<<<Sub(q, 0, n), Sub(q, n + 1, e)>>>> \o Params(Drop(q, e))
    ELSE << >>

RECURSIVE DigitsVal(_)
DigitsVal(s) == IF s = << >> THEN 0
                ELSE DigitsVal(Front(s)) * 10 + (SelectInSeq(Digits, LAMBDA d : d = Last(s)) - 1)
IsDigits(s) == s # << >> /\ \A i \in 1 .. Len(s) : s[i] \in ToSet(Digits)

\* fasthttp.ParseUfloat of a decimal with at most three fraction digits,
\* in thousandths
ParseUfloat(s) ==
    LET dot == IndexByte(s, ".")
        ip  == IF dot = -1 THEN s ELSE Sub(s, 0, dot)
        fp  == IF dot = -1 THEN << >> ELSE Drop(s, dot + 1)
    IN IF IsDigits(ip) /\ (fp = << >> \/ IsDigits(fp)) /\ Len(fp) <= 3
       THEN [ok |-> TRUE,
             q |-> DigitsVal(ip) * 1000 + DigitsVal(fp) * 10 ^ (3 - Len(fp))]
       ELSE [ok |-> FALSE, q |-> 0]

IsQ(p) == p[1] \in {<<"q">>, <<"Q">>}

\* getOffer's specificity of a spec
Specificity(spec) ==
    CASE spec \in {Str("*/*"), <<"*">>} -> 1
      [] IsSuffix(Str("/*"), spec)      -> 2
      [] IndexByte(spec, "/") # -1      -> 3
      [] OTHER                          -> 4

\* getOffer's functor on the k-th media range: the accepted type it
\* appends, or nothing for a range of quality 0.  ";q=" alone is read
\* directly; otherwise forEachParameter stops at the first q parameter,
\* and params is kept only if a parameter other than q came before it.
AcceptedOf(accept, k) ==
    LET i     == IndexByte(accept, ";")
        rest  == Drop(accept, i)
        fast  == IsPrefix(Str(";q="), rest) /\ IndexByte(Drop(accept, i + 3), ";") = -1
        ps    == Params(rest)
        qi    == SelectInSeq(ps, IsQ)
        fastQ == ParseUfloat(TrimRightSp(Drop(accept, i + 3)))
        slowQ == IF qi = 0 THEN [ok |-> FALSE, q |-> 0] ELSE ParseUfloat(ps[qi][2])
        qv    == IF fast THEN fastQ ELSE slowQ
        q     == IF i # -1 /\ qv.ok THEN qv.q ELSE 1000
        has   == ~fast /\ (IF qi = 0 THEN ps ELSE SubSeq(ps, 1, qi - 1)) # << >>
        spec  == TrimRightSp(IF i = -1 THEN accept ELSE Sub(accept, 0, i))
    IN IF i # -1 /\ q = 0 THEN << >>
       ELSE <<[spec |-> spec, q |-> q, specificity |-> Specificity(spec),
               order |-> k, params |-> IF i # -1 /\ has THEN rest ELSE << >>]>>

AcceptedTypes(header) ==
    LET rs == MediaRanges(header)
    IN FlattenSeq([k \in 1 .. Len(rs) |-> AcceptedOf(rs[k], k)])

-----------------------------------------------------------------------------
(* Matching                                                                *)

\* paramsMatch's spec parameters: collected up to a q parameter; a name
\* seen before takes the new value and ends the collection
RECURSIVE SpecParams(_, _)
SpecParams(ps, acc) ==
    IF ps = << >> \/ IsQ(Head(ps)) THEN acc
    ELSE LET p   == Head(ps)
             old == {k \in 1 .. Len(acc) : EqualFold(acc[k][1], p[1])}
         IN IF old # {} THEN [acc EXCEPT ![Min(old)] = <<acc[Min(old)][1], p[2]>>]
            ELSE SpecParams(Tail(ps), Append(acc, p))

\* paramsMatch: every spec parameter is the offer's first parameter of
\* that name, with the same value up to case
ParamsMatch(specParamStr, offerParams) ==
    \/ specParamStr = << >>
    \/ LET sp == SpecParams(Params(specParamStr), << >>)
           op == Params(offerParams)
       IN \A k \in 1 .. Len(sp) :
            LET j == SelectInSeq(op, LAMBDA x : EqualFold(x[1], sp[k][1]))
            IN j # 0 /\ EqualFold(op[j][2], sp[k][2])

\* acceptsOffer: a spec ending in '*', or one the offer is a prefix of
AcceptsOffer(spec, offer) ==
    (spec # << >> /\ Last(spec) = "*") \/ IsPrefix(offer, spec)

\* acceptsOfferType: */*, the offer's MIME type (an extension is looked up
\* with GetMIME), or <type>/* on either side, and then paramsMatch
AcceptsOfferType(spec, offerType, specParams) ==
    LET i        == IndexByte(offerType, ";")
        mime     == IF i = -1 THEN offerType ELSE Sub(offerType, 0, i)
        oparams  == IF i = -1 THEN << >> ELSE Drop(offerType, i)
        mimetype == IF IndexByte(mime, "/") # -1 THEN mime ELSE ExtMime[mime]
        s        == IndexByte(mimetype, "/")
    IN IF spec = Str("*/*") \/ spec = mimetype THEN ParamsMatch(specParams, oparams)
       ELSE /\ IsPrefix(Sub(mimetype, 0, s), spec)
            /\ Drop(spec, s) = Str("/*") \/ Drop(mimetype, s) = Str("/*")
            /\ ParamsMatch(specParams, oparams)

IsAccepted(kind, at, offer) ==
    IF kind = "type" THEN AcceptsOfferType(at.spec, offer, at.params)
    ELSE AcceptsOffer(at.spec, offer)

-----------------------------------------------------------------------------
(* Sorting and choosing                                                    *)

\* sortAcceptedTypes' test for putting at[i] after at[mid]
GoesAfter(x, m) ==
    \/ x.q < m.q
    \/ x.q = m.q /\ x.specificity < m.specificity
    \/ x.q = m.q /\ x.specificity < m.specificity /\ Len(x.params) < Len(m.params)
    \/ /\ x.q = m.q /\ x.specificity = m.specificity
       /\ Len(x.params) = Len(m.params) /\ x.order > m.order

\* the binary search for the place of x among at[lo..hi]
RECURSIVE BinSearch(_, _, _, _)
BinSearch(at, x, lo, hi) ==
    IF lo > hi THEN lo
    ELSE LET mid == (lo + hi) \div 2 IN
         IF GoesAfter(x, At(at, mid)) THEN BinSearch(at, x, mid + 1, hi)
         ELSE BinSearch(at, x, lo, mid - 1)

\* the swaps of the inner loop: at[i] moves down to position lo
MoveTo(at, i, lo) == Sub(at, 0, lo) \o <<At(at, i)>> \o Sub(at, lo, i) \o Drop(at, i + 1)

RECURSIVE InsertFrom(_, _)
InsertFrom(at, i) ==
    IF i >= Len(at) THEN at
    ELSE InsertFrom(MoveTo(at, i, BinSearch(at, At(at, i), 0, i - 1)), i + 1)

\* sortAcceptedTypes: binary insertion sort
SortAcceptedTypes(at) == IF Len(at) < 2 THEN at ELSE InsertFrom(at, 1)

\* the first non-empty offer the first accepting type accepts, or ""
FirstOffer(kind, ats, offers) ==
    LET hits == {h \in (1 .. Len(ats)) \X (1 .. Len(offers)) :
                    offers[h[2]] # << >> /\ IsAccepted(kind, ats[h[1]], offers[h[2]])}
        best == CHOOSE h \in hits : \A g \in hits :
                    h[1] < g[1] \/ (h[1] = g[1] /\ h[2] <= g[2])
    IN IF hits = {} THEN << >> ELSE offers[best[2]]

\* getOffer
GetOffer(kind, header, offers) ==
    IF offers = << >> THEN << >>
    ELSE IF header = << >> THEN offers[1]
    ELSE LET ats == AcceptedTypes(header) IN
         FirstOffer(kind, IF Len(ats) > 1 THEN SortAcceptedTypes(ats) ELSE ats, offers)

-----------------------------------------------------------------------------
(* One negotiation per step, over every header of up to MaxRanges ranges   *)
(* and every list of up to two offers.                                     *)

RECURSIVE Join(_)
Join(rs) == IF Len(rs) <= 1 THEN FlattenSeq(rs) ELSE Head(rs) \o <<",">> \o Join(Tail(rs))

Headers(R) == {Join(rs) : rs \in UNION {[1 .. n -> {Str(r) : r \in R}] : n \in 0 .. MaxRanges}}
OfferLists(O) == UNION {[1 .. n -> {Str(o) : o \in O}] : n \in 0 .. 2}

Requests ==
    [kind : {"type"}, header : Headers(TypeRanges), offers : OfferLists(TypeOffers)]
    \cup [kind : {"plain"}, header : Headers(PlainRanges), offers : OfferLists(PlainOffers)]

VARIABLE neg   \* the last negotiation: the request and what getOffer chose

Init == neg = [req |-> CHOOSE r \in Requests : TRUE, res |-> << >>, done |-> FALSE]

Negotiate(r) == neg' = [req |-> r, res |-> GetOffer(r.kind, r.header, r.offers), done |-> TRUE]

Next == \E r \in Requests : Negotiate(r)

Spec == Init /\ [][Next]_neg

-----------------------------------------------------------------------------

\* the order sortAcceptedTypes' comment documents (RFC 9110): higher
\* quality first, then higher specificity, then more parameters ("text/
\* html;a=1;b=2 comes before text/html;a=1"), then header order
DocumentedBefore(x, y) ==
    \/ x.q > y.q
    \/ x.q = y.q /\ x.specificity > y.specificity
    \/ x.q = y.q /\ x.specificity = y.specificity /\ Len(x.params) > Len(y.params)
    \/ /\ x.q = y.q /\ x.specificity = y.specificity
       /\ Len(x.params) = Len(y.params) /\ x.order < y.order

\* getOffer and sortAcceptedTypes' comment: the offer chosen is the one
\* the accepted types, tried in the documented order of precedence, pick.
NegotiatesByPrecedence ==
    LET r   == neg.req
        ats == AcceptedTypes(r.header)
    IN neg.done /\ r.header # << >> /\ r.offers # << >> =>
         neg.res = FirstOffer(r.kind, SortSeq(ats, DocumentedBefore), r.offers)


\* paramsMatch as its comment documents it: the spec parameters before
\* the q parameter, a parameter given twice taking its last value, are
\* all found, with that value, among the offer's parameters
DocumentedParamsMatch(specParamStr, offerParams) ==
    LET ps  == Params(specParamStr)
        qi  == SelectInSeq(ps, IsQ)
        pre == IF qi = 0 THEN ps ELSE SubSeq(ps, 1, qi - 1)
        op  == Params(offerParams)
        LastValue(k) ==
            pre[Max({j \in 1 .. Len(pre) : EqualFold(pre[j][1], pre[k][1])})][2]
    IN \/ specParamStr = << >>
       \/ \A k \in 1 .. Len(pre) :
            LET j == SelectInSeq(op, LAMBDA x : EqualFold(x[1], pre[k][1]))
            IN j # 0 /\ EqualFold(op[j][2], LastValue(k))

OfferParams(o) == IF IndexByte(o, ";") = -1 THEN << >> ELSE Drop(o, IndexByte(o, ";"))

\* getOffer's paramsMatch and its comment ("if a parameter is specified
\* twice in the incoming Accept, the last provided value is given
\* precedence"): every accepted type of the last request matches each
\* offer's parameters exactly when the documented rule says it does.
ParamsMatchAsDocumented ==
    LET r == neg.req IN
    neg.done /\ r.kind = "type" =>
        \A a \in ToSet(AcceptedTypes(r.header)), k \in DOMAIN r.offers :
            ParamsMatch(a.params, OfferParams(r.offers[k]))
                = DocumentedParamsMatch(a.params, OfferParams(r.offers[k]))

\* both of getOffer's documented rules
NegotiatesAsDocumented == NegotiatesByPrecedence /\ ParamsMatchAsDocumented

=============================================================================
