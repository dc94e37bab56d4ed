----------------------------- MODULE BlockParser ------------------------------
(* How BlockImpl of BlockChain.cpp reads a block, or one transaction, from     *)
(* bytes of a file or of a message of bitcoind.  Positions count from 1; a     *)
(* failing assert, which the build keeps, ends the program: the position is    *)
(* then Aborted, and every later read leaves it so.                            *)
EXTENDS Archive

LOCAL INSTANCE SequencesExt

CONSTANTS MaxScript,            \* MAX_REASONABLE_SCRIPT_LENGTH
          MaxPerTransaction,    \* MAX_REASONABLE_INPUTS and _OUTPUTS
          MaxInBlock,           \* MAX_BLOCK_INPUTS and MAX_BLOCK_OUTPUTS
          MaxTransactions,      \* MAX_BLOCK_TRANSACTION
          MaxBlockSize          \* MAX_BLOCK_SIZE

ASSUME BlockParserAssumption ==
    {MaxScript, MaxPerTransaction, MaxInBlock, MaxTransactions, MaxBlockSize} \subseteq Nat

Aborted == 0
At(value, at) == [value |-> value, at |-> at]
Stop == At(<<>>, Aborted)

-------------------------------------------------------------------------------
(* readU8 to readU64, readHash: little-endian numbers of a width. *)
ReadU(d, at, width) ==
    IF at = Aborted \/ at + width > Len(d) + 1 THEN Stop
    ELSE At(Number(SubSeq(d, at, at + width - 1)), at + width)

(* With one byte for all counts and lengths. *)
OneByte(d, at) == ReadU(d, at, 1)

(* Whatever the marker is, two bytes follow, and four more only if both are    *)
(* the largest: not the form of the protocol, and the same only for numbers    *)
(* below ByteBase^2 - 1.                                                       *)
Word(word) == IF word.at = Aborted \/ word.value = ByteBase^4 - 1 THEN Stop ELSE word
Half(d, half) ==
    IF half.at = Aborted \/ half.value < ByteBase^2 - 1 THEN half
    ELSE Word(ReadU(d, half.at, 4))
Marked(d, v) ==
    IF v.at = Aborted \/ v.value < Marker2 THEN v ELSE Half(d, ReadU(d, v.at, 2))
readVariableLengthInteger(d, at) == Marked(d, ReadU(d, at, 1))

getReadBufferAdvance(d, at, length) ==
    IF at + length > Len(d) + 1 THEN Stop
    ELSE At(SubSeq(d, at, at + length - 1), at + length)

ScriptOf(d, length) ==
    IF length.at = Aborted \/ length.value >= MaxScript THEN Stop
    ELSE getReadBufferAdvance(d, length.at, length.value)
ReadScript(d, at) == ScriptOf(d, readVariableLengthInteger(d, at))

(* One more value behind those that were read. *)
With(read, next) == At(Append(read.value, next.value), next.at)
Then(read, ReadOne(_)) == With(read, ReadOne(read.at))

(* Numbers of given widths, one behind the other. *)
Numbers(d, at, widths) ==
    LET read[i \in 0..Len(widths)] ==
            IF i = 0 THEN At(<<>>, at)
            ELSE Then(read[i - 1], LAMBDA from : ReadU(d, from, widths[i]))
    IN  read[Len(widths)]

readInput(d, at) ==
    Then(Then(Numbers(d, at, <<HashWidth, 4>>), LAMBDA from : ReadScript(d, from)),
         LAMBDA from : ReadU(d, from, 4))
readOuput(d, at) == Then(Numbers(d, at, <<8>>), LAMBDA from : ReadScript(d, from))

(* The inputs or outputs of a transaction, of which the block has had so many. *)
ReadPart(part, d, at) == IF part = "input" THEN readInput(d, at) ELSE readOuput(d, at)
Several(part, d, at, count) ==
    LET read[i \in 0..count] ==
            IF i = 0 THEN At(<<>>, at)
            ELSE Then(read[i - 1], LAMBDA from : ReadPart(part, d, from))
    IN  read[count]
CountedFrom(part, d, count, had) ==
    IF \/ count.at = Aborted
       \/ count.value >= MaxPerTransaction
       \/ had + count.value >= MaxInBlock
    THEN Stop
    ELSE Several(part, d, count.at, count.value)
Counted(part, d, at, had) == CountedFrom(part, d, readVariableLengthInteger(d, at), had)

(* readTransation: a transaction without inputs is refused at once, its        *)
(* outputs unread.  The bytes from offset on, of the length, are hashed as its *)
(* id.                                                                         *)
Complete(offset, all) ==
    IF all.at = Aborted THEN [at |-> Aborted, read |-> FALSE]
    ELSE LET n == Len(all.value)      \* ..., inputs, outputs, lock time
         IN  [at |-> all.at, read |-> TRUE, offset |-> offset, length |-> all.at - offset,
              inputs |-> Len(all.value[n - 2]), outputs |-> Len(all.value[n - 1]),
              fields |-> all.value]
WithInputs(d, offset, begun, hadOutputs) ==
    IF begun.at # Aborted /\ Last(begun.value) = <<>>
    THEN [at |-> begun.at, read |-> FALSE]
    ELSE Complete(offset,
            Then(Then(begun, LAMBDA from : Counted("output", d, from, hadOutputs)),
                 LAMBDA from : ReadU(d, from, 4)))
readTransation(d, at, hadInputs, hadOutputs) ==
    WithInputs(d, at,
        Then(Numbers(d, at, IF WithTimestamp THEN <<4, 4>> ELSE <<4>>),
             LAMBDA from : Counted("input", d, from, hadInputs)),
        hadOutputs)

(* The transactions of a block, until one is refused. *)
Took(had, next) ==
    IF next.read
    THEN [list |-> Append(had.list, next), at |-> next.at, read |-> TRUE,
          inputs |-> had.inputs + next.inputs, outputs |-> had.outputs + next.outputs]
    ELSE [had EXCEPT !.at = next.at, !.read = FALSE]
OneMore(d, had) ==
    IF ~had.read THEN had
    ELSE Took(had, readTransation(d, had.at, had.inputs, had.outputs))
Transactions(d, at, count) ==
    LET read[i \in 0..count] ==
            IF i = 0
            THEN [list |-> <<>>, inputs |-> 0, outputs |-> 0, at |-> at, read |-> TRUE]
            ELSE OneMore(d, read[i - 1])
    IN  read[count]

NoBlock == [at |-> 1, read |-> FALSE]        \* a block refused: NULL
Died == [at |-> Aborted, read |-> FALSE]

Collected(header, all) ==
    IF all.read
    THEN [at |-> all.at, read |-> TRUE, transactions |-> all.list, header |-> header]
    ELSE IF all.at = Aborted THEN Died ELSE NoBlock
Counts(d, head) ==      \* the header and the number of transactions
    IF head.at = Aborted \/ Last(head.value) >= MaxTransactions THEN Died
    ELSE Collected(Front(head.value), Transactions(d, head.at, Last(head.value)))
processBlockData(d) ==
    Counts(d, Then(Numbers(d, 1, <<4, HashWidth, HashWidth, 4, 4, 4>>),
                   LAMBDA from : readVariableLengthInteger(d, from)))

processSingleBlock(d) == IF Len(d) < MaxBlockSize THEN processBlockData(d) ELSE NoBlock
processSingleTransaction(d) ==
    IF Len(d) < MaxBlockSize THEN readTransation(d, 1, 0, 0) ELSE NoBlock

-------------------------------------------------------------------------------
(* The bytes of a block as the protocol defines them. *)
ProtocolInput == Record(<<HashField, U(4), Blob, U(4)>>)
ProtocolOutput == Record(<<U(8), Blob>>)
ProtocolTransaction ==
    Record(<<U(4)>> \o (IF WithTimestamp THEN <<U(4)>> ELSE <<>>)
               \o <<List(ProtocolInput), List(ProtocolOutput), U(4)>>)
ProtocolBlock ==
    Record(<<U(4), HashField, HashField, U(4), U(4), U(4), List(ProtocolTransaction)>>)

(* A block is read as it was written, and each of its transactions from the    *)
(* bytes it has alone; cut anywhere it is not taken for a block, and what      *)
(* follows it in the file does not change it (BlockChain.cpp:1497-1759).       *)
IsBlock(parsed, block, d) ==
    /\ parsed.read
    /\ parsed.header = SubSeq(block, 1, 6)
    /\ Len(parsed.transactions) = Len(block[7])
    /\ \A i \in DOMAIN block[7] :
          LET tx == parsed.transactions[i]
              bytes == SubSeq(d, tx.offset, tx.offset + tx.length - 1)
          IN  /\ tx.fields = block[7][i]
              /\ bytes = Write(ProtocolTransaction, block[7][i])
              /\ processSingleTransaction(bytes).fields = tx.fields
    /\ \A n \in 0..Len(d)-1 : ~processSingleBlock(SubSeq(d, 1, n)).read
    /\ processSingleBlock(d \o <<0>>) = parsed
BytesParsed(d, block) == IsBlock(processSingleBlock(d), block, d)
BlockParsed(block) == BytesParsed(Write(ProtocolBlock, block), block)
===============================================================================
