-------------------------------- MODULE MCData --------------------------------
(* The building blocks of the program, each by itself: a behaviour is one of   *)
(* the vectors or of the cache, or it stays at one sample: a record, two keys, *)
(* a block, a message that is hashed, bytes that are made into text, an        *)
(* address, or a script.                                                       *)
EXTENDS SmallVector, LruCache, BlockParser, Hashing, Base58, Texts, Scripts

VARIABLE subject      \* <<what the behaviour is about, the sample ...>>

(* A checksum and a digest that tell all the samples apart. *)
SumOf(bytes) == LET sum[i \in 0..Len(bytes)] == IF i = 0 THEN 0 ELSE sum[i-1] + i * bytes[i]
                IN  sum[Len(bytes)]
MCChecksum(bytes) == <<1 + (SumOf(bytes) % 255), SumOf(bytes) % 253>>
MCHash160(bytes) == <<1000>> \o bytes

-------------------------------------------------------------------------------
(* Records.  Numbers are at the limits of the forms of a varint, and so are    *)
(* the counts and the lengths of scripts.                                      *)
Few == {0, Marker2 - 1, Marker2, ByteBase^2 - 1, ByteBase^2, ByteBase^4 - 1}
Many == Few \cup {ByteBase^4, ByteBase^8 - 1}
Blobs == {[i \in 1..n |-> i % ByteBase] : n \in Few \cap 0..ByteBase^2}
Lists(v) == {[i \in 1..n |-> v] : n \in {0, 1, Marker2}}

ARecord(name, type, v) == \E rest \in {<<>>, <<Marker8>>} : subject = <<name, type, v, rest>>

RecordSample ==
    \/ \E tx \in Many, i \in Few :
          ARecord("record", DbTxRef, <<tx, i>>)
    \/ \E n \in Many, i \in Few :
          ARecord("record", DbAddressOperationChain, <<n, 1, i, i>>)
    \/ \E b, i \in Few : ARecord("record", DbTransactionBlock, <<b, i>>)
    \/ \E i \in Few, script \in Blobs :
          ARecord("record", DbTxInput, <<7, <<1, i>>, 5, script>>)
    \/ \E length \in Few, in \in Lists(<<9, <<3, 64>>, 5, <<1, 7>>>>), out \in Lists(<<8, 6, <<>>>>) :
          ARecord("record", DbTransaction,
             <<3, length, 1>> \o (IF WithTimestamp THEN <<2>> ELSE <<>>) \o <<7, 0, in, out>>)
    \/ \E height \in Many, txs \in Lists(4095) :
          ARecord("record", DbBlock, <<1, 2, 3, 64, 5, 6, 7, 8, txs, height, 1, 2, 3, 4, 5, 6>>)

KeySample == \E h1, h2 \in Many, t1, t2 \in Few : subject = <<"keys", h1, t1, h2, t2>>

-------------------------------------------------------------------------------
(* Blocks, with lengths up to those that readVariableLengthInteger gets right. *)
BlockScripts == {[i \in 1..n |-> i % ByteBase] :
               n \in {0, Marker2 - 1, Marker2, ByteBase, ByteBase^2 - 2}}
In(script) == <<1, 2, script, 3>>
ATransaction(ins, outs) ==
    <<1>> \o (IF WithTimestamp THEN <<9>> ELSE <<>>) \o <<ins, outs, 4>>

BlockSample ==
    \/ \E a \in BlockScripts, b \in {<<>>, <<3>>}, outs \in {0, Marker2} :
          subject = <<"block", <<1, 2, 3, 4, 5, 6,
                        <<ATransaction(<<In(a)>>, [i \in 1..outs |-> <<8, b>>])>>>>>>
    \/ \E txs \in {0, 2, Marker2}, ins \in {1, Marker2} :
          subject = <<"block", <<7, 7, 7, 7, 7, 7,
                        [i \in 1..txs |-> ATransaction([j \in 1..ins |-> In(<<i>>)],
                                                       <<<<i, <<1, 2>>>>>>)]>>>>

-------------------------------------------------------------------------------
(* Messages around one and two blocks, bytes, hashes, and scripts.             *)
HashSample == \E n \in 0..2 * BlockLen + 2 : subject = <<"message", [i \in 1..n |-> i]>>

SomeBytes == {0, 1, 62, 63, 251, 255}
TextSample ==
    \E n \in 0..4 : \E bytes \in [1..n -> SomeBytes], swap \in BOOLEAN :
        /\ (n = 4 => bytes[3] = bytes[4])
        /\ subject = <<"text", bytes, swap>>

AddressSample ==
    \E version \in {0, 5}, a \in [1..HashLen -> {0, 57, 255}] :
        subject = <<"address", version, a>>

HashOf(i) == [k \in 1..AddressLength |-> i + k]
Keys == {[k \in 1..n |-> IF k = 1 THEN first ELSE k] :
            first \in {2, 3, 4, 6}, n \in {ShortKey, LongKey}}
Ops == {0, 1, 2, 3, OP_DUP, 126, OP_CHECKSIG}

ScriptSample ==
    \/ \E key \in Keys,
          end \in {<<>>, <<OP_EQUAL>>} :
          LET hash == HashOf(key[1])
              n == Len(hash)
          IN  \E script \in {<<OP_DUP, OP_HASH160, n>> \o hash \o <<OP_EQUALVERIFY, OP_CHECKSIG>>,
                             <<OP_HASH160, n>> \o hash \o <<OP_EQUAL>>,
                             <<Len(key)>> \o key \o <<OP_CHECKSIG>>,
                             <<OP_DUP, OP_HASH160, n>> \o hash \o <<OP_CHECKSIG>>} :
                 subject = <<"script", script \o end, hash, key>>
    \/ \E n \in 0..4 : \E script \in [1..n -> Ops] :
          subject = <<"script", script, HashOf(1), <<2, 3, 4>>>>

SampleInit ==
    \/ RecordSample \/ KeySample \/ BlockSample \/ HashSample
    \/ TextSample \/ AddressSample \/ ScriptSample

-------------------------------------------------------------------------------
(* At most two vectors and the cache take steps. *)
vars == <<vectorVars, lruVars, subject>>

Init ==
    /\ VectorInit /\ CacheInit
    /\ \/ subject = <<"vector">>
       \/ subject = <<"cache">> /\ podLike
       \/ SampleInit /\ podLike

Next ==
    \/ subject = <<"vector">> /\ VectorNext /\ UNCHANGED <<lruVars, subject>>
    \/ subject = <<"cache">> /\ CacheNext /\ UNCHANGED <<vectorVars, subject>>

Spec == Init /\ [][Next]_vars

-------------------------------------------------------------------------------
(* A record is read back from the database as it was written, and keys are met *)
(* in the order the index counts on (Serialization.h:10-297, varint.h:10-75,   *)
(* Database.h:35-48, 118-135).                                                 *)
RecordsReadBack ==
    /\ subject[1] = "record" => ReadBack(subject[2], subject[3], subject[4])
    /\ subject[1] = "keys" =>
          KeysInOrder(subject[2], subject[3], subject[4], subject[5], 1, 2)

(* A block is read as it was written, its transactions from their own bytes,   *)
(* and a cut one is not taken for a block (BlockChain.cpp:1497-1759).          *)
BlocksParsed == subject[1] = "block" => BlockParsed(subject[2])

(* What identifies blocks, transactions and addresses is hashed as the         *)
(* standards demand, and comes back from the text it is shown as               *)
(* (SHA256.cpp:418-503, RIPEMD160.cpp:337-404, Database.cpp:9-131,             *)
(* BitcoinAddress.cpp:1163-1497).                                              *)
NamesReadBack ==
    /\ subject[1] = "message" => HashedAsPadded(subject[2])
    /\ subject[1] = "text" => TextReadBack(subject[2], subject[3])
    /\ subject[1] = "address" => AddressReadBack(subject[2], subject[3])

Stale(b) == [i \in 1..LongKey |-> b]

(* An output belongs to the address its script names, and the interpreter      *)
(* leaves on its stack what was pushed (BitcoinTX.cpp:53-87,                   *)
(* BitcoinScript.cpp:132-721).                                                 *)
ScriptsUnderstood ==
    subject[1] = "script" =>
        /\ AddressRecognised(subject[2], subject[3], subject[4], Stale(0), Stale(9))
        /\ ScriptExecuted(subject[2], Stale(0))
===============================================================================
