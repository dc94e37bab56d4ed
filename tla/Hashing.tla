-------------------------------- MODULE Hashing --------------------------------
(* How SHA256.cpp and RIPEMD160.cpp cut a message into blocks, pad it and      *)
(* append its length; block headers, transactions and addresses are identified *)
(* by the result.  The compression functions are left out: a digest is the     *)
(* sequence of blocks that were compressed.  A block has BlockLen bytes (64),  *)
(* of which the length takes LengthLen (8); bytes count to ByteValues (256).   *)
EXTENDS Integers, Sequences

LOCAL INSTANCE SequencesExt

CONSTANTS BlockLen, LengthLen, ByteValues

ASSUME HashingAssumption ==
    /\ BlockLen \in Nat /\ LengthLen \in Nat /\ ByteValues \in Nat
    /\ LengthLen < BlockLen /\ 1 < ByteValues

One == ByteValues \div 2                         \* the byte 0x80
Zeros(n) == [i \in 1..n |-> 0]
BigEndian(n) == [i \in 1..LengthLen |-> (n \div ByteValues^(LengthLen - i)) % ByteValues]
LittleEndian(n) == Reverse(BigEndian(n))

-------------------------------------------------------------------------------
(* SHA256.cpp: the context keeps the incomplete block.                         *)

ShaInit == [total |-> 0, buffer |-> <<>>, blocks |-> <<>>]

(* The whole blocks of data, and what is left of it. *)
Whole(data) == [i \in 1..Len(data) \div BlockLen |->
                   SubSeq(data, (i - 1) * BlockLen + 1, i * BlockLen)]
Rest(data) == SubSeq(data, BlockLen * (Len(data) \div BlockLen) + 1, Len(data))

(* sha256_update: the buffer is filled up first, then blocks are taken from    *)
(* the data itself, and the rest is kept.                                      *)
ShaUpdate(sc, data) ==
    LET left == BlockLen - Len(sc.buffer)
        copied == IF sc.buffer = <<>> THEN 0 ELSE IF left > Len(data) THEN Len(data) ELSE left
        filled == sc.buffer \o SubSeq(data, 1, copied)
        full == Len(filled) = BlockLen
        more == SubSeq(data, copied + 1, Len(data))
    IN  [total |-> sc.total + 8 * Len(data),
         buffer |-> (IF full THEN <<>> ELSE filled) \o Rest(more),
         blocks |-> sc.blocks \o (IF full THEN <<filled>> ELSE <<>>) \o Whole(more)]

(* sha256_finalize: the length was taken before the padding is counted. *)
ShaFinalize(sc) ==
    LET twice == 2 * BlockLen - LengthLen - Len(sc.buffer)
        pad == IF twice > BlockLen THEN twice - BlockLen ELSE twice
    IN  ShaUpdate(ShaUpdate(sc, <<One>> \o Zeros(pad - 1)), BigEndian(sc.total)).blocks

ComputeSha256(message) == ShaFinalize(ShaUpdate(ShaInit, message))
ShaOfPieces(first, second) == ShaFinalize(ShaUpdate(ShaUpdate(ShaInit, first), second))

-------------------------------------------------------------------------------
(* RIPEMD160.cpp: whole blocks from the message, the last one or two by        *)
(* MDfinish, which clears the block between them.                              *)

(* With room for the length taken for granted when one byte is missing. *)
MDfinishTight(tail, length) ==
    LET last == tail \o <<One>> \o Zeros(BlockLen - Len(tail) - 1)
        overfull == Len(tail) > BlockLen - LengthLen
        withLength(b) == SubSeq(b, 1, BlockLen - LengthLen) \o LittleEndian(8 * length)
    IN  IF overfull THEN <<last, withLength(Zeros(BlockLen))>> ELSE <<withLength(last)>>

MDfinish(tail, length) ==
    LET last == tail \o <<One>> \o Zeros(BlockLen - Len(tail) - 1)
        overfull == Len(tail) > BlockLen - LengthLen - 1
        withLength(b) == SubSeq(b, 1, BlockLen - LengthLen) \o LittleEndian(8 * length)
    IN  IF overfull THEN <<last, withLength(Zeros(BlockLen))>> ELSE <<withLength(last)>>

ComputeRipemd160(message) == Whole(message) \o MDfinish(Rest(message), Len(message))

-------------------------------------------------------------------------------
(* The padded message of both standards: a one, as few zeros as fill the last  *)
(* block, and the length in bits.                                              *)
Padded(message, length) ==
    LET zeros == CHOOSE z \in 0..BlockLen-1 :
                    (Len(message) + 1 + z + LengthLen) % BlockLen = 0
    IN  message \o <<One>> \o Zeros(zeros) \o length

(* Every message is compressed as its standard demands, also at the lengths    *)
(* where the padding needs a block of its own, and in two pieces as in one     *)
(* (SHA256.cpp:418-503, RIPEMD160.cpp:337-404).                                *)
HashedAsPadded(message) ==
    LET bits == 8 * Len(message)
    IN  /\ FlattenSeq(ComputeSha256(message)) = Padded(message, BigEndian(bits))
        /\ FlattenSeq(ComputeRipemd160(message)) = Padded(message, LittleEndian(bits))
        /\ \A i \in 0..Len(message) :
              ShaOfPieces(SubSeq(message, 1, i), SubSeq(message, i + 1, Len(message)))
                  = ComputeSha256(message)
===============================================================================
