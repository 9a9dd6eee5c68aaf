---------------------------- MODULE MCCredentials ----------------------------
(***************************************************************************)
(* The two checks a state-changing request with a session meets in the     *)
(* chain: the session middleware's SetToken on the session cookie          *)
(* (TokenCodec) and then the CSRF middleware's handle on the token the     *)
(* request carries (Csrf).  Both decide with ValidateHash.  Their inputs   *)
(* are independent, so a step is a step of one of them.                    *)
(*                                                                         *)
(* Four-byte session tokens with one other client's token in the pooled    *)
(* buffer; CSRF tokens whose first three random bytes come from a small    *)
(* set that includes (0, 135, 34), whose encoded token passes ValidateHash *)
(* as it stands (ValidateHash of a token depends on those bytes alone).    *)
(***************************************************************************)
EXTENDS Naturals

CONSTANTS RawLen, ByteVals, EditChars, OtherRaws,
          CsrfTokenLen, CsrfRaws, Methods, MaxRequests

VARIABLES raw, cookie, edited, verdict, buf, key, csrfRaw, reqs, last

Cookie == INSTANCE TokenCodec
Csrf   == INSTANCE Csrf

vars == <<raw, cookie, edited, verdict, buf, key, csrfRaw, reqs, last>>

Init == Cookie!Init /\ Csrf!Init

Next ==
    \/ Cookie!Next /\ UNCHANGED <<csrfRaw, reqs, last>>
    \/ Csrf!Next /\ UNCHANGED <<raw, cookie, edited, verdict, buf, key>>

Spec == Init /\ [][Next]_vars

MCOtherRaws == {<<1, 200, 0, 255>>}
MCCsrfTokenLen == 20
MCCsrfRaws ==
    {[i \in 1..20 |-> CASE i = 1 -> a [] i = 2 -> b [] i = 3 -> c [] OTHER -> 0] :
        a \in {0, 1}, b \in {135, 200}, c \in {34, 7}}
MCMethods == {<<"G", "E", "T">>, <<"P", "O", "S", "T">>, <<"D", "E", "L", "E", "T", "E">>}

\* SetToken and handle (spec P5 and the CSRF check): a request is served
\* with a session only if its cookie is the token the server issued, with
\* that token's own key, and a state-changing request to a path that is
\* not excepted is passed on only if it carries the session's CSRF token.
CredentialsAreIssued == Cookie!AcceptedCookieIsIssued /\ Csrf!ForgedWriteRejected

=============================================================================
