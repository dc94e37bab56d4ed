------------------------------- MODULE Archive --------------------------------
(* How records are kept in the database: the binary archives of               *)
(* Serialization.h, the integers of varint.h, the serialize methods of         *)
(* Database.h and the packed keys, whose order is the order of the index.      *)
(* Bytes count to ByteBase (256), numbers are little-endian.  A record is the  *)
(* sequence of its fields; a hash, an address and a float are numbers as wide  *)
(* as they are.  The 8 MiB buffer of Serialize is left out.                    *)
EXTENDS Integers, Sequences

LOCAL INSTANCE SequencesExt

CONSTANTS ByteBase,          \* 256
          HashWidth,         \* the bytes of a hash: 32
          AddressWidth,      \* the bytes of an address: 20
          WithTimestamp      \* DbTransaction::transactionContainsTimestamp

ASSUME ArchiveAssumption ==
    /\ ByteBase \in Nat /\ ByteBase > 3
    /\ HashWidth \in Nat /\ AddressWidth \in Nat
    /\ WithTimestamp \in BOOLEAN

Bytes(n, width) == [i \in 1..width |-> (n \div ByteBase^(i - 1)) % ByteBase]
Number(bytes) == FoldRight(LAMBDA b, n : n * ByteBase + b, bytes, 0)

-------------------------------------------------------------------------------
(* A number as one byte, or as a marker and two, four or eight bytes.          *)

Marker2 == ByteBase - 3
Marker4 == ByteBase - 2
Marker8 == ByteBase - 1

(* With one number too many for the shorter form. *)
WriteVarintShort(v) ==
    IF v < Marker2 THEN <<v>>
    ELSE IF v <= ByteBase^2 THEN <<Marker2>> \o Bytes(v, 2)
    ELSE IF v < ByteBase^4 THEN <<Marker4>> \o Bytes(v, 4)
    ELSE <<Marker8>> \o Bytes(v, 8)

WriteVarint(v) ==
    IF v < Marker2 THEN <<v>>
    ELSE IF v < ByteBase^2 THEN <<Marker2>> \o Bytes(v, 2)
    ELSE IF v < ByteBase^4 THEN <<Marker4>> \o Bytes(v, 4)
    ELSE <<Marker8>> \o Bytes(v, 8)

WidthAfter(marker) ==
    IF marker = Marker2 THEN 2 ELSE IF marker = Marker4 THEN 4 ELSE 8

(* What a read returns: the value and the bytes behind it. *)
Got(value, rest) == [value |-> value, rest |-> rest]
From(s, i) == SubSeq(s, i, Len(s))

ReadNumber(s, width) == Got(Number(SubSeq(s, 1, width)), From(s, width + 1))
ReadVarint(s) ==
    IF s[1] < Marker2 THEN Got(s[1], From(s, 2))
    ELSE ReadNumber(From(s, 2), WidthAfter(s[1]))

-------------------------------------------------------------------------------
(* The kinds of fields: numbers, bytes with their count in front, and records  *)
(* or lists of them.                                                           *)

U(width) == [kind |-> "number", width |-> width]
Varint == [kind |-> "varint"]
Blob == [kind |-> "blob"]
Record(fields) == [kind |-> "record", fields |-> fields]
List(of) == [kind |-> "list", of |-> of]

RECURSIVE Write(_, _)
Write(type, v) ==
    CASE type.kind = "number" -> Bytes(v, type.width)
      [] type.kind = "varint" -> WriteVarint(v)
      [] type.kind = "blob" -> WriteVarint(Len(v)) \o v
      [] type.kind = "record" ->
            FlattenSeq([i \in DOMAIN v |-> Write(type.fields[i], v[i])])
      [] type.kind = "list" ->
            WriteVarint(Len(v)) \o FlattenSeq([i \in DOMAIN v |-> Write(type.of, v[i])])

(* A sequence of values, one of each of the types. *)
RECURSIVE Read(_, _), ReadAll(_, _)
ReadAll(types, s) ==
    IF types = <<>> THEN Got(<<>>, s)
    ELSE LET first == Read(Head(types), s)
             others == ReadAll(Tail(types), first.rest)
         IN  Got(<<first.value>> \o others.value, others.rest)

Read(type, s) ==
    CASE type.kind = "number" -> ReadNumber(s, type.width)
      [] type.kind = "varint" -> ReadVarint(s)
      [] type.kind = "blob" ->
            LET count == ReadVarint(s)
            IN  Got(SubSeq(count.rest, 1, count.value), From(count.rest, count.value + 1))
      [] type.kind = "record" -> ReadAll(type.fields, s)
      [] type.kind = "list" ->
            LET count == ReadVarint(s)
            IN  ReadAll([i \in 1..count.value |-> type.of], count.rest)

-------------------------------------------------------------------------------
(* The records.  A reader walks through the fields in the writer's order,      *)
(* since both are the one method serialize.                                    *)

HashField == U(HashWidth)
AddressField == U(AddressWidth)

DbTxRef == Record(<<U(8), Varint>>)
DbAddressOperationChain == Record(<<U(8), U(8), U(4), U(4)>>)
DbTxInput == Record(<<U(8), DbTxRef, AddressField, Blob>>)
DbTxOutput == Record(<<U(8), AddressField, Blob>>)
DbTransactionBlock == Record(<<U(4), Varint>>)
DbTransaction ==
    Record(<<HashField, Varint, Varint>> \o (IF WithTimestamp THEN <<U(4)>> ELSE <<>>)
               \o <<U(4), U(4), List(DbTxInput), List(DbTxOutput)>>)
DbBlock ==
    Record(<<HashField, U(4), HashField, Varint, Varint, U(4), U(4), U(4), List(U(4)),
             Varint, U(8), U(8), U(8), U(4), U(8), U(8)>>)

-------------------------------------------------------------------------------
(* Keys are compared byte by byte; heights and indices are turned round for    *)
(* it, those of the operations of an address subtracted from the largest       *)
(* number, so that a scan meets the newest first.                              *)

swapByteOrder(n, width) == Number(Reverse(Bytes(n, width)))

(* DbAddressOperationChainKey behind its header and address. *)
OperationKey(height, txIndex, blockId, tx) ==
    Bytes(swapByteOrder(ByteBase^8 - 1 - height, 8), 8)
        \o Bytes(swapByteOrder(ByteBase^4 - 1 - txIndex, 4), 4)
        \o Bytes(blockId, 4) \o Bytes(tx, 8)
getHeight(key) == ByteBase^8 - 1 - swapByteOrder(Number(SubSeq(key, 1, 8)), 8)
getTransactionIndex(key) == ByteBase^4 - 1 - swapByteOrder(Number(SubSeq(key, 9, 12)), 4)

(* The key of a block or of a transaction behind its header. *)
IdKey(id, width) == Bytes(swapByteOrder(id, width), width)

Before(a, b) ==      \* of the same length
    \E i \in DOMAIN a : a[i] < b[i] /\ \A j \in 1..i-1 : a[j] = b[j]

-------------------------------------------------------------------------------
(* A record that was written is read back as it was and to its end, whatever   *)
(* follows it: no number, count or script at the limit of a shorter form is    *)
(* confused with another (Serialization.h:10-297, varint.h:10-75).             *)
ReadBack(type, v, rest) == Read(type, Write(type, v) \o rest) = Got(v, rest)

(* Two operations of an address are met in the order of their heights and then *)
(* of their transactions, the later one first, and a key tells both again;     *)
(* blocks and transactions are met by number (Database.h:35-48, 118-135).      *)
KeysInOrder(h1, t1, h2, t2, block, tx) ==
    LET key1 == OperationKey(h1, t1, block, tx)
        key2 == OperationKey(h2, t2, tx, block)
    IN  /\ h1 > h2 \/ (h1 = h2 /\ t1 > t2) => Before(key1, key2)
        /\ getHeight(key1) = h1 /\ getTransactionIndex(key1) = t1
        /\ Before(IdKey(h1, 8), IdKey(h2, 8)) <=> h1 < h2
===============================================================================
