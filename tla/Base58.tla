-------------------------------- MODULE Base58 --------------------------------
(* Addresses as text: the numbers of up to 256 bytes of Base58.cpp, of which   *)
(* BitcoinAddress.cpp has a copy, the two conversions, and the addresses made  *)
(* with them.  A number is the sequence of its bytes, the lowest one first;    *)
(* text is the sequence of its character codes.  The output buffers of all     *)
(* callers are long enough: the checks of maxStrLen are left out.              *)
EXTENDS Integers, Sequences

LOCAL INSTANCE SequencesExt

CONSTANTS HashLen,      \* the bytes of a hash: 20
          CheckLen,     \* those of a checksum: 4
          Checksum(_)   \* the first bytes of a double SHA-256

ASSUME Base58Assumption == HashLen \in Nat /\ CheckLen \in Nat

AddressLen == 1 + HashLen + CheckLen      \* 25

Digit(a, i) == IF i \in DOMAIN a THEN a[i] ELSE 0

-------------------------------------------------------------------------------
(* The arithmetic, byte by byte.                                               *)

Below58(a) == Len(a) <= 1 /\ a[1] < 58

RECURSIVE Normalised(_)
Normalised(a) ==
    IF Len(a) > 1 /\ a[Len(a)] = 0 THEN Normalised(SubSeq(a, 1, Len(a) - 1)) ELSE a

Sum(a, b) ==
    LET n == IF Len(a) < Len(b) THEN Len(b) ELSE Len(a)
        carry[i \in 0..n] ==
            IF i = 0 THEN 0 ELSE (Digit(a, i) + Digit(b, i) + carry[i - 1]) \div 256
    IN  [i \in 1..n |-> (Digit(a, i) + Digit(b, i) + carry[i - 1]) % 256]
            \o (IF carry[n] > 0 THEN <<1>> ELSE <<>>)

Product(a, m) ==
    LET carry[i \in 0..Len(a)] ==
            IF i = 0 THEN 0 ELSE (carry[i - 1] + a[i] * m) \div 256
    IN  IF m = 0 THEN <<0>>
        ELSE IF a = <<0>> THEN a
        ELSE [i \in 1..Len(a) |-> (carry[i - 1] + a[i] * m) % 256]
                 \o (IF carry[Len(a)] > 0 THEN <<carry[Len(a)]>> ELSE <<>>)

Power58(e) ==
    LET power[i \in 0..e] == IF i = 0 THEN <<1>> ELSE Product(power[i - 1], 58)
    IN  power[e]

Modulo58(a) ==
    LET result[i \in 1..Len(a)+1] ==
            IF i = Len(a) + 1 THEN 0
            ELSE (((result[i + 1] * (256 % 58)) % 58) + (a[i] % 58)) % 58
    IN  result[1]

Less(a, m) ==
    LET borrow[i \in 1..Len(a)] ==
            IF i = 1 THEN m ELSE IF a[i - 1] < borrow[i - 1] THEN 1 ELSE 0
    IN  Normalised([i \in 1..Len(a) |-> (256 + a[i] - borrow[i]) % 256])

DividedBy58(a) ==
    LET rest[i \in 1..Len(a)+1] ==
            IF i = Len(a) + 1 THEN 0 ELSE (256 * rest[i + 1] + a[i]) % 58
        answer == [i \in 1..Len(a) |-> (256 * rest[i + 1] + a[i]) \div 58]
    IN  IF a = <<0>> THEN a
        ELSE IF answer[Len(a)] = 0 THEN SubSeq(answer, 1, Len(a) - 1) ELSE answer

-------------------------------------------------------------------------------
(* The text.  The alphabet leaves out 0, I, O and l; what a character stands   *)
(* for is computed from the range its code is in.                              *)

base58Characters ==
    [i \in 1..9 |-> 48 + i] \o [i \in 1..8 |-> 64 + i] \o [i \in 1..5 |-> 73 + i]
        \o [i \in 1..11 |-> 79 + i] \o [i \in 1..11 |-> 96 + i] \o [i \in 1..14 |-> 108 + i]
Character(n) == base58Characters[n + 1]

AlphaIndex(c) ==
    (c - (IF c < 58 THEN 49 ELSE IF c < 73 THEN 56 ELSE IF c < 79 THEN 57
          ELSE IF c < 91 THEN 58 ELSE IF c < 108 THEN 64 ELSE 65)) % 256

(* How many of the first (dir = 1) elements of s are x. *)
Leading(s, x) ==
    LET others == {i \in DOMAIN s : s[i] # x}
    IN  IF others = {} THEN Len(s) ELSE (CHOOSE i \in others : \A j \in others : i <= j) - 1

(* CBDecodeBase58: from the last character on; a 1 adds nothing, and those in  *)
(* front are the zero bytes on top.                                            *)
CBDecodeBase58(text) ==
    LET n == Len(text)
        value[i \in 0..n] ==      \* of the last i characters
            IF i = 0 THEN <<>>
            ELSE LET c == text[n + 1 - i]
                 IN  IF c = 49 THEN value[i - 1]
                     ELSE Sum(value[i - 1], Product(Power58(i - 1), AlphaIndex(c)))
    IN  value[n] \o [i \in 1..Leading(text, 49) |-> 0]

(* The digits of a number, the lowest one first. *)
RECURSIVE Digits58(_)
Digits58(a) ==
    IF Below58(a) THEN <<Character(a[Len(a)])>>
    ELSE LET mod == Modulo58(a) IN <<Character(mod)>> \o Digits58(DividedBy58(Less(a, mod)))

CBEncodeBase58(a) ==
    [i \in 1..Leading(Reverse(a), 0) |-> Character(0)] \o Reverse(Digits58(a))

encodeBase58(bytes) == CBEncodeBase58(Reverse(bytes))
decodeBase58(text, maxOutputLength) ==
    LET a == CBDecodeBase58(text) IN IF Len(a) <= maxOutputLength THEN Reverse(a) ELSE <<>>

-------------------------------------------------------------------------------
(* Addresses: the version, the hash of a public key, and their checksum.       *)

bitcoinHash160ToAddress(version, hash) ==
    LET body == <<version>> \o hash IN body \o Checksum(body)
bitcoinHash160ToAscii(version, hash) == encodeBase58(bitcoinHash160ToAddress(version, hash))

(* One byte of the checksum that agrees is enough. *)
ChecksumAccepted(address) ==
    LET sum == Checksum(SubSeq(address, 1, 1 + HashLen))
    IN  \E i \in 1..CheckLen : address[1 + HashLen + i] = sum[i]

NoHash160 == <<>>
bitcoinAsciiToHash160(text) ==
    LET address == decodeBase58(text, AddressLen)
    IN  IF Len(address) = AddressLen /\ ChecksumAccepted(address)
        THEN SubSeq(address, 2, 1 + HashLen)
        ELSE NoHash160

-------------------------------------------------------------------------------
(* The text of an address is read back as its hash, whatever zero bytes it     *)
(* begins with, and no other hash has the text; a text that is a character     *)
(* longer or shorter is refused or stands for another address                  *)
(* (BitcoinAddress.cpp:1402-1416, 1425-1438, 1478-1497).                       *)
AddressReadBack(version, hash) ==
    LET text == bitcoinHash160ToAscii(version, hash)
    IN  /\ bitcoinAsciiToHash160(text) = hash
        /\ decodeBase58(text, AddressLen) = bitcoinHash160ToAddress(version, hash)
        /\ bitcoinAsciiToHash160(<<49>> \o text) = NoHash160
===============================================================================
