--------------------------------- MODULE Texts --------------------------------
(* Bytes as text: the hexadecimal hashes of requests and answers (Database.cpp) *)
(* and the base64 credentials of the client of bitcoind (httpclientasio.cpp).  *)
(* A hexadecimal digit is its value, or NoDigit for any other character; a     *)
(* character of base64 is its index in the alphabet.                           *)
EXTENDS Integers, Sequences

LOCAL INSTANCE SequencesExt

NoDigit == -1         \* char2int of any other character
Padding == 64         \* '='

Ordered(bytes, swapEndian) == IF swapEndian THEN Reverse(bytes) ELSE bytes

(* decodeHexString makes text of bytes, encodeHexString bytes of text. *)
decodeHexString(data, swapEndian) ==
    LET bytes == Ordered(data, swapEndian)
    IN  FlattenSeq([i \in DOMAIN bytes |-> <<bytes[i] \div 16, bytes[i] % 16>>])

Refused == <<NoDigit>>
encodeHexString(dataLength, key, swapEndian) ==
    IF Len(key) # dataLength * 2 \/ \E i \in DOMAIN key : key[i] = NoDigit THEN Refused
    ELSE Ordered([i \in 1..dataLength |-> key[2*i - 1] * 16 + key[2*i]], swapEndian)

(* Three bytes as four characters. *)
Group(b) == <<b[1] \div 4, (b[1] % 4) * 16 + b[2] \div 16, (b[2] % 16) * 4 + b[3] \div 64,
              b[3] % 64>>
Ungroup(c) == <<((c[1] * 4) % 256) + (c[2] % 64) \div 16,
                ((c[2] % 16) * 16) + ((c[3] \div 4) % 16),
                (((c[3] % 4) * 64) + c[4]) % 256>>

FilledUp(s, n) == s \o [i \in 1..n - Len(s) |-> 0]

RECURSIVE base64_encode(_)
base64_encode(bytes) ==
    LET n == Len(bytes)
    IN  IF n = 0 THEN <<>>
        ELSE IF n < 3 THEN SubSeq(Group(FilledUp(bytes, 3)), 1, n + 1) \o [i \in 1..3-n |-> Padding]
        ELSE Group(bytes) \o base64_encode(SubSeq(bytes, 4, n))

(* The last two characters of the alphabet, + and /, are not accepted: reading *)
(* ends there, as it does at the padding.  Characters that are missing in the  *)
(* last group are not found in the alphabet, which counts as -1.               *)
is_base64(c) == c < 62

RECURSIVE Decoded64(_)
Decoded64(chars) ==
    LET n == Len(chars)
    IN  IF n = 0 THEN <<>>
        ELSE IF n < 4
        THEN SubSeq(Ungroup(chars \o [i \in 1..4-n |-> 255]), 1, n - 1)
        ELSE Ungroup(chars) \o Decoded64(SubSeq(chars, 5, n))
base64_decode(text) ==
    LET ends == {i \in DOMAIN text : ~is_base64(text[i])}
        first == CHOOSE i \in ends : \A j \in ends : i <= j
    IN  Decoded64(IF ends = {} THEN text ELSE SubSeq(text, 1, first - 1))

-------------------------------------------------------------------------------
(* Bytes are read back from the text they were made into, in either order, and *)
(* text of another length or with another character is refused; base64 gives   *)
(* the bytes before its first + or / (Database.cpp:9-131,                      *)
(* httpclientasio.cpp:15-114).                                                 *)
TextReadBack(bytes, swapEndian) ==
    LET text == decodeHexString(bytes, swapEndian)
        base64 == base64_encode(bytes)
    IN  /\ encodeHexString(Len(bytes), text, swapEndian) = bytes
        /\ encodeHexString(Len(bytes) + 1, text, swapEndian) = Refused
        /\ bytes # <<>> => encodeHexString(Len(bytes), [text EXCEPT ![1] = NoDigit], swapEndian)
                              = Refused
        /\ Len(base64) % 4 = 0
        /\ IsPrefix(base64_decode(base64), bytes)
        /\ {62, 63} \cap {base64[i] : i \in DOMAIN base64} = {} => base64_decode(base64) = bytes
===============================================================================
