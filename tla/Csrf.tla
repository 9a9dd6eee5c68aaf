-------------------------------- MODULE Csrf --------------------------------
(***************************************************************************)
(* The CSRF middleware (middleware/csrf/verifyCsrfToken.go) in front of a  *)
(* session whose CSRF token Data.Start made with GenerateToken2 over       *)
(* CsrfTokenLen random bytes (TokenCodec).                                 *)
(*                                                                         *)
(* A request has a method, a path that is or is not under an except       *)
(* prefix, and the token it carries in _token, X-CSRF-TOKEN or            *)
(* X-XSRF-TOKEN: none, the session's own, or a forged one (a cross-site    *)
(* request cannot read the session's token).                               *)
(***************************************************************************)
EXTENDS Naturals, Sequences

CONSTANTS
    CsrfTokenLen,   \* random bytes of a CSRF token (20 in the code)
    CsrfRaws,       \* the random byte strings sessions are started with
    Methods,        \* request methods
    MaxRequests     \* bound on requests checked

Codec == INSTANCE TokenHash

ASSUME CsrfRaws \subseteq [1..CsrfTokenLen -> 0..255]

Requests == [method : Methods, excepted : BOOLEAN,
             token : {"none", "session", "forged"}]

VARIABLES
    csrfRaw,    \* the random bytes of the session's CSRF token
    reqs,       \* requests checked
    last        \* the last request and whether handle passed it on

vars == <<csrfRaw, reqs, last>>

\* d.csrfToken as Data.Start generated it (an ASCII string)
SessionToken == Codec!GenerateToken2(csrfRaw)

Init ==
    /\ csrfRaw \in CsrfRaws
    /\ reqs = 0
    /\ last = [req |-> CHOOSE rq \in Requests : TRUE, passed |-> FALSE]

\* isReading: strings.Contains("HEADGETOPTIONS", method)
ReadingMethod == <<"H", "E", "A", "D", "G", "E", "T", "O", "P", "T", "I", "O", "N", "S">>
IsReading(m) == \E i \in 1..Len(ReadingMethod) :
                    \E j \in i..Len(ReadingMethod) : SubSeq(ReadingMethod, i, j) = m

\* tokensMatch: both tokens non-empty and hmac.Equal
TokensMatch(rq) == rq.token = "session"

\* handle: pass the request on (c.Next) if it is reading, excepted, carries
\* the session's token, or the session's token passes ValidateHash as it
\* stands; otherwise return mismatchError
Handle(rq) ==
    /\ reqs < MaxRequests
    /\ reqs' = reqs + 1
    /\ last' = [req |-> rq,
                passed |-> \/ IsReading(rq.method)
                           \/ rq.excepted
                           \/ TokensMatch(rq)
                           \/ Codec!ValidateHash(SessionToken)]
    /\ UNCHANGED csrfRaw

Checked == reqs = MaxRequests /\ UNCHANGED vars

Next == (\E rq \in Requests : Handle(rq)) \/ Checked

Spec == Init /\ [][Next]_vars

\* The CSRF check: a state-changing request to a path that is not excepted
\* is passed on only if it carries the session's CSRF token.
ForgedWriteRejected ==
    reqs > 0 /\ ~IsReading(last.req.method) /\ ~last.req.excepted /\ last.req.token # "session"
        => ~last.passed

=============================================================================
