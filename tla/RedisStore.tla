----------------------------- MODULE RedisStore -----------------------------
(***************************************************************************)
(* The Redis session store of middleware/session/redisstore/redisstore.go, *)
(* as operators over the store's contents.  The contents are a function    *)
(* from Redis keys to stored blobs.  A key is a sequence of parts: the      *)
(* session manager hands the store a "tokenWithPrefix", the bytes          *)
(* sessionPrefix ++ token, so the key it means is <<Prefix, token>>.       *)
(* RedisStore was built by New(client) with r.prefix = "scs:session:",     *)
(* the same bytes as Prefix, and some methods put r.prefix in front of the *)
(* key once more, giving <<Prefix, Prefix, token>>.                        *)
(*                                                                         *)
(* The TTL that Commit attaches to a key is not a function of the modelled *)
(* state; a key running out of time is an action of the composing module.  *)
(***************************************************************************)
EXTENDS Sequences, Functions, TLC

CONSTANT Prefix          \* the bytes "scs:session:" (sessionPrefix, r.prefix)

\* r.prefix + string(tokenWithPrefix)
WithStorePrefix(key) == <<Prefix>> \o key

\* Find: GET key.  A missing key is (nil, false, nil).
Find(st, key) ==
    IF key \in DOMAIN st THEN [found |-> TRUE, data |-> st[key]]
                         ELSE [found |-> FALSE, data |-> <<>>]

\* FindCtx: GET r.prefix + key.
FindCtx(st, key) == Find(st, WithStorePrefix(key))

\* Commit and CommitCtx, first call: an unmodified session sends EXPIREAT,
\* whose count is non-zero when the key exists; then Commit returns without
\* writing.  The expiry is not modelled, so EXPIREAT leaves the contents as
\* they are and only its count is returned.
ExpireAt(st, key) == key \in DOMAIN st

\* Commit and CommitCtx, second call, made for a modified session and for
\* an unmodified one whose EXPIREAT counted 0: SET key value EXAT expiry.
Set(st, key, data) == (key :> data) @@ st

\* Delete: UNLINK r.prefix + key, falling back to DEL of the same key.
Delete(st, key) == Restrict(st, DOMAIN st \ {WithStorePrefix(key)})

\* DeleteCtx: DEL key.
DeleteCtx(st, key) == Restrict(st, DOMAIN st \ {key})

=============================================================================
