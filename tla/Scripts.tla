-------------------------------- MODULE Scripts -------------------------------
(* Scripts as sequences of bytes: how BitcoinTX.cpp finds the address of an    *)
(* output with ScriptDecoder.h, what ScriptDecoder.cpp prints, and what the    *)
(* interpreter of BitcoinScript.cpp, which the demonstration program uses,     *)
(* executes.  "behind" is what the memory holds behind the script.             *)
EXTENDS Integers, Sequences

LOCAL INSTANCE SequencesExt

CONSTANTS AddressLength,      \* the bytes of an address: 20
          ShortKey,           \* those of a compressed public key: 33
          LongKey,            \* those of an uncompressed one: 65
          Hash160(_),         \* RIPEMD-160 of the SHA-256 of bytes
          MaxElements,        \* MAX_STACK_ELEMENTS
          MaxStackSize        \* MAX_STACK_SIZE

ASSUME ScriptsAssumption ==
    /\ {AddressLength, ShortKey, LongKey} \subseteq 3..75
    /\ AddressLength \notin {ShortKey, LongKey} /\ ShortKey < LongKey
    /\ MaxElements \in Nat /\ MaxStackSize \in Nat

-------------------------------------------------------------------------------
(* The opcodes of the enumeration that the switches name, by what they would   *)
(* do; those below OP_PUSHDATA1 push as many bytes.                            *)
OP_PUSHDATA1 == 76
OP_DUP == 118
OP_EQUAL == 135
OP_EQUALVERIFY == 136
OP_HASH160 == 169
OP_CHECKSIG == 172

ConstantOps == 76..96
FlowOps == 97..106
StackOps == (107..125) \cup {130}
DisabledOps == (126..129) \cup (131..134) \cup {141, 142} \cup (149..153)
CompareOps == 135..138
ArithmeticOps == {139, 140} \cup (143..148) \cup (154..165)
CryptoOps == 166..175
SpareOps == (176..185) \cup {250, 251} \cup (253..255)

Named == ConstantOps \cup FlowOps \cup StackOps \cup DisabledOps
             \cup CompareOps \cup ArithmeticOps \cup CryptoOps \cup SpareOps

-------------------------------------------------------------------------------
(* readOpcode and readData: the opcode at a position, if the script has one,   *)
(* and whether it has so many bytes from there.                                *)
Opcode(script, at) == IF at <= Len(script) THEN script[at] ELSE -1
HasData(script, at, length) == at + length <= Len(script) + 1

PaysToKeyHash(s) ==
    /\ Opcode(s, 1) = OP_DUP /\ Opcode(s, 2) = OP_HASH160
    /\ Opcode(s, 3) = AddressLength /\ HasData(s, 4, AddressLength)
    /\ Opcode(s, 4 + AddressLength) = OP_EQUALVERIFY
    /\ Opcode(s, 5 + AddressLength) = OP_CHECKSIG
(* The decoder not reset after the first form failed at its second opcode. *)
PaysBehindFirst(s) ==
    /\ Opcode(s, 2) = OP_HASH160
    /\ Opcode(s, 3) = AddressLength /\ HasData(s, 4, AddressLength)
    /\ Opcode(s, 4 + AddressLength) = OP_EQUAL
PaysToScriptHash(s) ==
    /\ Opcode(s, 1) = OP_HASH160
    /\ Opcode(s, 2) = AddressLength /\ HasData(s, 3, AddressLength)
    /\ Opcode(s, 3 + AddressLength) = OP_EQUAL
PaysToKey(s) ==
    /\ Opcode(s, 1) \in {ShortKey, LongKey} /\ HasData(s, 2, s[1])
    /\ Opcode(s, 2 + s[1]) = OP_CHECKSIG

(* bitcoinPublicKeyToHash160: how long a key is, its first byte tells; one     *)
(* with another first byte leaves the address as it was.                       *)
bitcoinPublicKeyToHash160(memory, address) ==
    IF memory[1] = 4 THEN Hash160(SubSeq(memory, 1, LongKey))
    ELSE IF memory[1] \in {2, 3} THEN Hash160(SubSeq(memory, 1, ShortKey))
    ELSE address

NoAddress == [i \in 1..AddressLength |-> 0]

(* The address of an output.  scriptData, longer than any key, is not cleared, *)
(* and neither is the address: stale is what both held.                        *)
AddressOfOutput(s, stale) ==
    IF PaysToKeyHash(s) THEN SubSeq(s, 4, 3 + AddressLength)
    ELSE IF PaysToScriptHash(s) THEN SubSeq(s, 3, 2 + AddressLength)
    ELSE IF PaysToKey(s)
    THEN bitcoinPublicKeyToHash160(SubSeq(s, 2, 1 + s[1]) \o SubSeq(stale, s[1] + 1, Len(stale)), stale)
    ELSE NoAddress

-------------------------------------------------------------------------------
(* What decodeScript prints: the bytes of a push, the name of an opcode, and   *)
(* nothing for one without a name.  The opcodes OP_PUSHDATA1 to 4 are named    *)
(* and what they push is read as opcodes.                                      *)
RECURSIVE decodeScript(_, _)
decodeScript(script, behind) ==
    IF script = <<>> THEN <<>>
    ELSE LET op == Head(script)
             pushed == IF op < OP_PUSHDATA1 THEN op ELSE 0
             text == IF op \in Named THEN <<op>> ELSE <<>>
             data == SubSeq(Tail(script) \o behind, 1, pushed)
         IN  <<[op |-> op, data |-> IF op < OP_PUSHDATA1 THEN data ELSE text]>>
                 \o decodeScript(SubSeq(script, 2 + pushed, Len(script)), behind)

-------------------------------------------------------------------------------
(* The stack of the interpreter: the bytes up to its pointer, and where each   *)
(* element begins and how long it is.                                          *)
EmptyStack == [mStack |-> <<>>, mStackElements |-> <<>>, mStackSize |-> <<>>]

(* Two, four or eight bytes are copied as one, and zeros. *)
Copied(bytes) ==
    [i \in DOMAIN bytes |-> IF i > 1 /\ Len(bytes) \in {2, 4, 8} THEN 0 ELSE bytes[i]]

push(stack, bytes) ==
    [mStack |-> stack.mStack \o Copied(bytes),
     mStackElements |-> Append(stack.mStackElements, Len(stack.mStack)),
     mStackSize |-> Append(stack.mStackSize, Len(bytes))]
Overflows(stack) ==
    Len(stack.mStackElements) >= MaxElements \/ Len(stack.mStack) >= MaxStackSize

getStackSize(stack) == Len(stack.mStackElements)
getStackEntry(stack, offset) ==
    LET i == getStackSize(stack) + 1 - offset
        start == stack.mStackElements[i]
    IN  SubSeq(stack.mStack, start + 1, start + stack.mStackSize[i])

Outcome(result, stack) == [result |-> result, stack |-> stack]

(* executeScript: the opcodes that are not implemented, and those not known,   *)
(* end the program by an assert; the disabled ones leave an error and are      *)
(* passed over.                                                                *)
RECURSIVE executeScript(_, _, _)
executeScript(stack, script, behind) ==
    IF script = <<>> THEN Outcome("executed", stack)
    ELSE LET op == Head(script)
             continued(next, length) ==
                 IF Overflows(next) THEN Outcome("died", next)
                 ELSE executeScript(next, SubSeq(script, 2 + length, Len(script)), behind)
         IN  IF op < OP_PUSHDATA1
             THEN continued(push(stack, SubSeq(Tail(script) \o behind, 1, op)), op)
             ELSE IF op \in DisabledOps THEN continued(stack, 0)
             ELSE IF op = OP_DUP
             THEN IF getStackSize(stack) < 1 THEN Outcome("failed", stack)
                  ELSE continued(push(stack, getStackEntry(stack, 1)), 0)
             ELSE IF op = OP_CHECKSIG /\ getStackSize(stack) < 2
             THEN Outcome("failed", stack)
             ELSE Outcome("died", stack)

-------------------------------------------------------------------------------
(* The outputs of the three standard forms belong to the hash or the key they  *)
(* name.  Only if a key's first byte does not fit its length does an address   *)
(* depend on what the memory held, and no other output gets one                *)
(* (BitcoinTX.cpp:53-87, BitcoinAddress.cpp:1387-1400, ScriptDecoder.h:125-163). *)
AddressRecognised(script, hash, key, stale1, stale2) ==
    LET toKeyHash == <<OP_DUP, OP_HASH160, Len(hash)>> \o hash \o <<OP_EQUALVERIFY, OP_CHECKSIG>>
        toScriptHash == <<OP_HASH160, Len(hash)>> \o hash \o <<OP_EQUAL>>
        toKey == <<Len(key)>> \o key \o <<OP_CHECKSIG>>
        begins(form) == IsPrefix(form, script)
        fits == \/ Opcode(script, 1) = ShortKey /\ Opcode(script, 2) \in {2, 3}
                \/ Opcode(script, 1) = LongKey /\ Opcode(script, 2) \in {2, 3, 4}
        address == AddressOfOutput(script, stale1)
    IN  /\ begins(toKeyHash) \/ begins(toScriptHash) => address = hash
        /\ begins(toKey) /\ fits =>
              address = Hash160(IF key[1] = 4 THEN key ELSE SubSeq(key, 1, ShortKey))
        /\ (PaysToKey(script) /\ ~fits) \/ address = AddressOfOutput(script, stale2)
        /\ \A n \in 0..Len(script)-1 :
              begins(toKeyHash) /\ n < Len(toKeyHash) =>
                  AddressOfOutput(SubSeq(script, 1, n), stale1) = NoAddress

(* The instructions that were executed are the ones that are printed, and each *)
(* element of the stack is what was pushed, or what was on top when it was     *)
(* duplicated; only pushes of two, four and eight bytes are cut               *)
(* (BitcoinScript.cpp:132-721, ScriptDecoder.cpp:7-147).                       *)
ScriptExecuted(script, behind) ==
    LET run == executeScript(EmptyStack, script, behind)
        pushed == FoldLeft(
            LAMBDA stack, i :
                IF i.op < OP_PUSHDATA1 THEN <<Copied(i.data)>> \o stack
                ELSE IF i.op = OP_DUP THEN <<stack[1]>> \o stack
                ELSE stack,
            <<>>, decodeScript(script, behind))
    IN  run.result = "executed" =>
            [i \in 1..getStackSize(run.stack) |-> getStackEntry(run.stack, i)] = pushed
===============================================================================
