----------------------------- MODULE TokenCodec -----------------------------
(***************************************************************************)
(* A session token's life: GenerateToken2 issues it, the client sends it   *)
(* back as the session cookie, Data.SetToken checks it with isValidToken   *)
(* (TokenHash).  A token is RawLen random bytes, then two checksum bytes,  *)
(* base64url-encoded without padding.                                      *)
(*                                                                         *)
(* The process: the server generates a token for a raw byte string and     *)
(* sends it as the session cookie; the cookie may come back as it was,     *)
(* with one character replaced, or cut short; the server decides with      *)
(* isValidToken whether to use it (SetToken) or to make a new session.     *)
(*                                                                         *)
(* The token lives in the pooled Data's buffer: pool New (scs.go) makes a  *)
(* 55-byte array holding "scs:session:" and then the 43 token characters,  *)
(* and d.token is the slice after the prefix.  Every store call builds its *)
(* key as the 55 bytes starting 12 before d.token (data.go, manager.go).   *)
(* reset only shortens d.token, so the buffer still holds the token of the *)
(* request that used the Data before.                                      *)
(***************************************************************************)
EXTENDS Naturals, Sequences, TokenHash

CONSTANTS
    RawLen,       \* random bytes in a token (TokenLen = 30 in the code)
    ByteVals,     \* byte values the random bytes are drawn from
    EditChars,    \* ASCII codes a tampered cookie may carry
    OtherRaws     \* random bytes of other clients' and of new tokens

ASSUME RawLen >= 3 /\ ByteVals \subseteq 0..255 /\ EditChars \subseteq 0..127

EncodedLen == ((RawLen + 2) * 8 + 5) \div 6

VARIABLES
    raw,      \* the random bytes of the issued token
    cookie,   \* the cookie the client presents
    edited,   \* the cookie differs from the issued token
    verdict,  \* "none" before validation, then "accept" or "reject"
    buf,      \* the EncodedLen (43 in the code) characters after the prefix
    key       \* the store key after SetToken: its prefix and EncodedLen characters

vars == <<raw, cookie, edited, verdict, buf, key>>

\* the key of an intact buffer holding the characters cs
OwnKey(cs) == [prefix |-> "own", chars |-> cs]

Init ==
    /\ raw \in [1..RawLen -> ByteVals]
    /\ cookie = GenerateToken2(raw)
    /\ edited = FALSE
    /\ verdict = "none"
    /\ buf \in {[i \in 1..EncodedLen |-> 0]} \cup {GenerateToken2(r) : r \in OtherRaws}
    /\ key = OwnKey(buf)

\* the client sends the cookie with character i replaced by c
Tamper(i, c) ==
    /\ verdict = "none" /\ ~edited
    /\ cookie[i] # c
    /\ cookie' = [cookie EXCEPT ![i] = c]
    /\ edited' = TRUE
    /\ UNCHANGED <<raw, verdict, buf, key>>

\* the client sends only the first n characters
Truncate(n) ==
    /\ verdict = "none" /\ ~edited
    /\ cookie' = SubSeq(cookie, 1, n)
    /\ edited' = TRUE
    /\ UNCHANGED <<raw, verdict, buf, key>>

\* the client sends the cookie followed by the characters s (two of them,
\* the shortest addition that still decodes)
Extend(s) ==
    /\ verdict = "none" /\ ~edited
    /\ cookie' = cookie \o s
    /\ edited' = TRUE
    /\ UNCHANGED <<raw, verdict, buf, key>>

\* append(d.token[:0], token...): within the buffer's EncodedLen bytes (the
\* capacity of d.token, UrlEncodedTokenLen = 43 in the code) the cookie
\* overwrites its first Len(cookie) characters and the rest stay; a longer
\* one is copied to a new array and the key is read from memory before it
CopyToken(b, c) ==
    IF Len(c) <= EncodedLen
    THEN c \o SubSeq(b, Len(c) + 1, EncodedLen)
    ELSE b

KeyAfterCopy(b, c) ==
    IF Len(c) <= EncodedLen
    THEN OwnKey(CopyToken(b, c))
    ELSE [prefix |-> "stray", chars |-> SubSeq(c, 1, EncodedLen)]

\* Data.SetToken: a non-empty cookie is used if isValidToken accepts it
\* and copied into d.token; otherwise GenerateToken2 writes a new token
\* into d.token[:UrlEncodedTokenLen]
SetToken ==
    /\ verdict = "none"
    /\ IF Len(cookie) > 0 /\ IsValidToken(cookie)
       THEN /\ verdict' = "accept"
            /\ buf' = CopyToken(buf, cookie) /\ key' = KeyAfterCopy(buf, cookie)
       ELSE /\ verdict' = "reject"
            /\ \E r \in OtherRaws :
                 buf' = GenerateToken2(r) /\ key' = OwnKey(GenerateToken2(r))
    /\ UNCHANGED <<raw, cookie, edited>>

Decided == verdict # "none" /\ UNCHANGED vars

Next ==
    \/ \E i \in 1..EncodedLen, c \in EditChars : Tamper(i, c)
    \/ \E n \in 0..EncodedLen - 1 : Truncate(n)
    \/ \E a, b \in EditChars : Extend(<<a, b>>)
    \/ SetToken
    \/ Decided

Spec == Init /\ [][Next]_vars

-----------------------------------------------------------------------------
(* Properties                                                              *)

TypeOK ==
    /\ raw \in [1..RawLen -> ByteVals]
    /\ cookie \in Seq(0..127)
    /\ edited \in BOOLEAN
    /\ verdict \in {"none", "accept", "reject"}
    /\ buf \in [1..EncodedLen -> 0..127]
    /\ key \in [prefix : {"own", "stray"}, chars : Seq(0..127)]

\* GenerateToken2 then isValidToken (spec P5): every token the server
\* issued is accepted when it comes back unchanged, through the checksum's
\* uint16 arithmetic, its byte order and the base64url round trip.
IssuedTokenAccepted == ~edited /\ verdict # "none" => verdict = "accept"

\* Spec P5 and SetToken together: a cookie is used only if it is the token
\* the server issued ("a token with one character changed is rejected with
\* overwhelming probability"), and then the key every store call builds
\* from the Data's buffer is that token's own key, whatever the pooled
\* buffer held before and whatever length the cookie had.
AcceptedCookieIsIssued ==
    verdict = "accept" =>
        /\ cookie = GenerateToken2(raw)
        /\ key = OwnKey(GenerateToken2(raw))

=============================================================================
