---------------------------- MODULE MCTokenCodec ----------------------------
(* Six-byte tokens: with the two checksum bytes, eight raw bytes, which   *)
(* end in a partial base64 group as the code's 32 do (11 characters here,  *)
(* 43 there).  The pooled buffer held before either nothing or the token   *)
(* of one other client, whose random bytes also serve new tokens.          *)
EXTENDS TokenCodec

MCOtherRaws == {<<1, 200, 0, 255, 1, 200>>}
=============================================================================
