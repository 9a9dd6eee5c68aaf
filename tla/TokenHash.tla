----------------------------- MODULE TokenHash ------------------------------
(***************************************************************************)
(* The token checksum and encoding as operators: SimpleHash                *)
(* (helpers/utilcrypt/utils.go), base64.RawURLEncoding, GenerateToken2 and *)
(* Data.isValidToken (middleware/session/data.go).  Bytes are naturals     *)
(* below 256; the checksum is computed in uint16, so every operation wraps *)
(* at 2^16.  Encoded tokens are sequences of ASCII codes.                  *)
(***************************************************************************)
EXTENDS Naturals, Sequences

U16(x) == x % 65536

-----------------------------------------------------------------------------
(* SimpleHash                                                              *)

\* (uint16(bs[0])*uint16(bs[1]) + 99) * uint16(bs[2])
HashSum(bs) == U16(U16(U16(bs[1] * bs[2]) + 99) * bs[3])

\* Variant of AppendHash that writes the sum big-endian.
AppendHashBigEndian(bs) ==
    SubSeq(bs, 1, Len(bs) - 2) \o << HashSum(bs) \div 256, HashSum(bs) % 256 >>

\* AppendHash: binary.LittleEndian.AppendUint16(bs[:len(bs)-2], sum)
\* overwrites the last two bytes of bs (len(bs) >= 5, else it panics).
AppendHash(bs) ==
    SubSeq(bs, 1, Len(bs) - 2) \o << HashSum(bs) % 256, HashSum(bs) \div 256 >>

\* ValidateHash: at least 3 bytes, and the last two, little-endian, equal
\* the sum of the first three
ValidateHash(bs) ==
    Len(bs) >= 3 /\ HashSum(bs) = bs[Len(bs) - 1] + 256 * bs[Len(bs)]

-----------------------------------------------------------------------------
(* base64.RawURLEncoding                                                   *)

\* the ASCII code of the URL-safe alphabet's i-th character
B64Char(i) ==
    CASE i < 26 -> 65 + i          \* A-Z
      [] i < 52 -> 97 + i - 26     \* a-z
      [] i < 62 -> 48 + i - 52     \* 0-9
      [] i = 62 -> 45              \* -
      [] i = 63 -> 95              \* _

B64Alphabet == {B64Char(i) : i \in 0..63}
B64Index(c) == CHOOSE i \in 0..63 : B64Char(i) = c

\* three bytes as four 6-bit groups
Sextets(a, b, c) == << a \div 4, (a % 4) * 16 + b \div 16, (b % 16) * 4 + c \div 64, c % 64 >>

\* Encode: each 3 bytes become 4 characters; a tail of 1 or 2 bytes becomes
\* 2 or 3 characters (no padding)
RECURSIVE B64Sextets(_)
B64Sextets(bs) ==
    CASE Len(bs) >= 3 -> Sextets(bs[1], bs[2], bs[3]) \o B64Sextets(SubSeq(bs, 4, Len(bs)))
      [] Len(bs) = 2  -> SubSeq(Sextets(bs[1], bs[2], 0), 1, 3)
      [] Len(bs) = 1  -> SubSeq(Sextets(bs[1], 0, 0), 1, 2)
      [] Len(bs) = 0  -> << >>
B64Encode(bs) == LET s == B64Sextets(bs) IN [i \in 1..Len(s) |-> B64Char(s[i])]

\* four 6-bit groups as three bytes
Bytes3(s) == << s[1] * 4 + s[2] \div 16, (s[2] % 16) * 16 + s[3] \div 4, (s[3] % 4) * 64 + s[4] >>

\* Decode (non-strict): 4 characters give 3 bytes; a tail of 2 or 3 gives
\* 1 or 2 bytes, the unused low bits ignored; a tail of 1 is an error
RECURSIVE B64Bytes(_)
B64Bytes(s) ==
    CASE Len(s) >= 4 -> Bytes3(SubSeq(s, 1, 4)) \o B64Bytes(SubSeq(s, 5, Len(s)))
      [] Len(s) = 3  -> SubSeq(Bytes3(s \o <<0>>), 1, 2)
      [] Len(s) = 2  -> SubSeq(Bytes3(s \o <<0, 0>>), 1, 1)
      [] Len(s) = 0  -> << >>
B64DecodeOK(cs) == Len(cs) % 4 # 1 /\ \A i \in 1..Len(cs) : cs[i] \in B64Alphabet
B64Decode(cs) == B64Bytes([i \in 1..Len(cs) |-> B64Index(cs[i])])

-----------------------------------------------------------------------------
(* Tokens                                                                  *)

\* Variant of GenerateToken2 that forgets to base64-encode.
GenerateToken2Unencoded(raw) == AppendHash(raw \o <<0, 0>>)

\* GenerateToken2: rand.Read fills dstRaw[:len-2], AppendHash, Encode
GenerateToken2(raw) == B64Encode(AppendHash(raw \o <<0, 0>>))

\* Data.isValidToken: the cookie decodes and its hash validates
IsValidToken(cookie) == B64DecodeOK(cookie) /\ ValidateHash(B64Decode(cookie))

=============================================================================
