---------------------------- MODULE UtxoIndexProofs ----------------------------
(***************************************************************************)
(* Proofs about UtxoIndex, for every number of blocks, every value of      *)
(* their bits, all valid transactions and every number of crashes.         *)
(***************************************************************************)
EXTENDS UtxoIndex, ChainIndexProofs

\* What ChainIndex does, UtxoIndex does too: its steps are those of ChainIndex.
LEMMA StepOfChain == ASSUME [UtxoNext]_allVars PROVE [Next]_vars
<1>1. CASE UNCHANGED allVars
  BY <1>1 DEF allVars
<1>2. CASE ValidBlockArrives \/ CrashWithBatch
  BY <1>2 DEF ValidBlockArrives, CrashWithBatch, Next
<1>3. CASE ReadTransactions
  BY <1>3 DEF ReadTransactions, Next, Main
<1>4. CASE ProcessTransaction
  BY <1>4 DEF ProcessTransaction
<1>5. CASE CommitProcessed \/ UndoTransactions \/ RedoTransactions \/ WriteBatch
  BY <1>5 DEF CommitProcessed, UndoTransactions, RedoTransactions, WriteBatch,
              Next, Main, Commit
<1>6. CASE NoTransactions
  BY <1>6 DEF NoTransactions, Next, Main, Commit
<1> QED
  BY <1>1, <1>2, <1>3, <1>4, <1>5, <1>6 DEF UtxoNext

LEMMA NeverRescans == NoRescans
  BY UtxoAssumption DEF NoRescans

\* So the invariants of the chain hold, and its tips are the heaviest.
ChainOf == Inv /\ RecordsOK /\ TipsOK

LEMMA ChainAlways == UtxoSpec => []ChainOf
<1>1. UtxoInit => ChainOf
  BY InvInit, RecordsInit, TipsInit DEF UtxoInit, ChainOf
<1>2. ChainOf /\ [UtxoNext]_allVars => ChainOf'
  <2> SUFFICES ASSUME ChainOf, [UtxoNext]_allVars PROVE ChainOf'
    OBVIOUS
  <2>1. [Next]_vars
    BY StepOfChain
  <2>2. Inv' /\ RecordsOK'
    BY <2>1, NeverRescans, InvNext, RecordsNext DEF ChainOf
  <2> QED
    BY <2>1, <2>2, NeverRescans, TipsNext DEF ChainOf
<1> QED
  BY <1>1, <1>2, PTL DEF UtxoSpec

-----------------------------------------------------------------------------
(* Lists of transactions, one transaction after the other.                 *)

\* What the first transactions of a block do.
ProcessedInTurn(u, list, h) ==
  /\ ProcessFirst(u, list, h, 0) = u
  /\ \A k \in 1..Len(list) :
       ProcessFirst(u, list, h, k)
         = ProcessUTXO(ProcessFirst(u, list, h, k - 1), list[k], h)

LEMMA ProcessSteps ==
  ASSUME NEW u, NEW h, NEW list, Len(list) \in Nat
  PROVE  ProcessedInTurn(u, list, h)
<1> DEFINE IsRun(f, n) ==
             f = [i \in 0..n |-> IF i = 0 THEN u ELSE ProcessUTXO(f[i - 1], list[i], h)]
           Bad == {n \in 0..Len(list) : ~ \E f : IsRun(f, n)}
<1>1. Bad = {}
  <2> SUFFICES ASSUME Bad # {} PROVE FALSE
    OBVIOUS
  <2>1. Bad \subseteq Nat
    OBVIOUS
  <2>2. PICK m \in Bad : \A k \in Bad : m <= k
    <3> HIDE DEF Bad
    <3> QED
      BY <2>1, LeastElement
  <2>3. m \in 0..Len(list) /\ ~ \E f : IsRun(f, m)
    BY <2>2
  <2>4. CASE m = 0
    <3> DEFINE f == [i \in 0..0 |-> u]
    <3>1. IsRun(f, 0)
      OBVIOUS
    <3> QED
      BY <2>3, <2>4, <3>1
  <2>5. CASE m # 0
    <3>1. m \in Nat /\ m - 1 \in 0..Len(list) /\ m - 1 \notin Bad
      <4>1. m \in Nat /\ m - 1 \in 0..Len(list) /\ ~(m <= m - 1)
        BY <2>3, <2>5
      <4> HIDE DEF Bad
      <4> QED
        BY <2>2, <4>1
    <3>2. PICK f : IsRun(f, m - 1)
      BY <3>1
    <3> DEFINE g == [i \in 0..m |-> IF i = m THEN ProcessUTXO(f[m - 1], list[m], h) ELSE f[i]]
    <3>3. \A i \in 0..m : g[i] = IF i = 0 THEN u ELSE ProcessUTXO(g[i - 1], list[i], h)
      <4> SUFFICES ASSUME NEW i \in 0..m
                   PROVE  g[i] = IF i = 0 THEN u ELSE ProcessUTXO(g[i - 1], list[i], h)
        OBVIOUS
      <4>1. CASE i = m
        BY <2>5, <3>1, <4>1
      <4>2. CASE i # m
        <5>1. i \in 0..(m - 1) /\ g[i] = f[i] /\ (i # 0 => g[i - 1] = f[i - 1])
          BY <3>1, <4>2
        <5>2. f[i] = IF i = 0 THEN u ELSE ProcessUTXO(f[i - 1], list[i], h)
          BY <3>2, <5>1
        <5> QED
          BY <5>1, <5>2
      <4> QED
        BY <4>1, <4>2
    <3>4. g = [i \in 0..m |-> IF i = 0 THEN u ELSE ProcessUTXO(g[i - 1], list[i], h)]
      <4> HIDE DEF g
      <4>1. DOMAIN g = 0..m /\ g = [i \in 0..m |-> g[i]]
        BY DEF g
      <4> QED
        BY <3>3, <4>1
    <3>5. IsRun(g, m)
      BY <3>4
    <3> HIDE DEF g
    <3> QED
      BY <2>3, <3>5
  <2> QED
    BY <2>4, <2>5
<1>2. PICK g : IsRun(g, Len(list))
  BY <1>1
<1> DEFINE f == CHOOSE f : IsRun(f, Len(list))
<1>3. IsRun(f, Len(list))
  BY <1>2, Zenon
<1>4. \A k : ProcessFirst(u, list, h, k) = f[k]
  BY Zenon DEF ProcessFirst
<1>5. \A k \in 0..Len(list) :
        f[k] = IF k = 0 THEN u ELSE ProcessUTXO(f[k - 1], list[k], h)
  <2> HIDE DEF f
  <2> QED
    BY <1>3
<1> QED
  <2> HIDE DEF f
  <2>1. f[0] = u
    BY <1>5
  <2>2. ASSUME NEW k \in 1..Len(list)
        PROVE  f[k] = ProcessUTXO(f[k - 1], list[k], h)
    BY <1>5, <2>2
  <2> QED
    BY <1>4, <2>1, <2>2 DEF ProcessedInTurn

\* What undoing the last transactions of a block does.
UndoneInTurn(u, list, heightOf) ==
  /\ UndoDownTo(u, list, heightOf, Len(list)) = u
  /\ \A k \in 1..Len(list) :
       UndoDownTo(u, list, heightOf, k - 1)
         = UndoUTXO(UndoDownTo(u, list, heightOf, k), list[k], heightOf[list[k]])

LEMMA UndoSteps ==
  ASSUME NEW u, NEW heightOf, NEW list, Len(list) \in Nat
  PROVE  UndoneInTurn(u, list, heightOf)
<1> DEFINE last(i) == list[Len(list) + 1 - i]
           IsRun(f, n) ==
             f = [i \in 0..n |-> IF i = 0 THEN u ELSE UndoUTXO(f[i - 1], last(i), heightOf[last(i)])]
           Bad == {n \in 0..Len(list) : ~ \E f : IsRun(f, n)}
<1>1. Bad = {}
  <2> SUFFICES ASSUME Bad # {} PROVE FALSE
    OBVIOUS
  <2>1. Bad \subseteq Nat
    OBVIOUS
  <2>2. PICK m \in Bad : \A k \in Bad : m <= k
    <3> HIDE DEF Bad
    <3> QED
      BY <2>1, LeastElement
  <2>3. m \in 0..Len(list) /\ ~ \E f : IsRun(f, m)
    BY <2>2
  <2>4. CASE m = 0
    <3> DEFINE f == [i \in 0..0 |-> u]
    <3>1. IsRun(f, 0)
      OBVIOUS
    <3> QED
      BY <2>3, <2>4, <3>1
  <2>5. CASE m # 0
    <3>1. m \in Nat /\ m - 1 \in 0..Len(list) /\ m - 1 \notin Bad
      <4>1. m \in Nat /\ m - 1 \in 0..Len(list) /\ ~(m <= m - 1)
        BY <2>3, <2>5
      <4> HIDE DEF Bad
      <4> QED
        BY <2>2, <4>1
    <3>2. PICK f : IsRun(f, m - 1)
      BY <3>1
    <3> DEFINE g == [i \in 0..m |-> IF i = m THEN UndoUTXO(f[m - 1], last(m), heightOf[last(m)]) ELSE f[i]]
    <3>3. \A i \in 0..m : g[i] = IF i = 0 THEN u ELSE UndoUTXO(g[i - 1], last(i), heightOf[last(i)])
      <4> SUFFICES ASSUME NEW i \in 0..m
                   PROVE  g[i] = IF i = 0 THEN u ELSE UndoUTXO(g[i - 1], last(i), heightOf[last(i)])
        OBVIOUS
      <4>1. CASE i = m
        BY <2>5, <3>1, <4>1
      <4>2. CASE i # m
        <5>1. i \in 0..(m - 1) /\ g[i] = f[i] /\ (i # 0 => g[i - 1] = f[i - 1])
          BY <3>1, <4>2
        <5>2. f[i] = IF i = 0 THEN u ELSE UndoUTXO(f[i - 1], last(i), heightOf[last(i)])
          BY <3>2, <5>1
        <5> QED
          BY <5>1, <5>2
      <4> QED
        BY <4>1, <4>2
    <3>4. g = [i \in 0..m |-> IF i = 0 THEN u ELSE UndoUTXO(g[i - 1], last(i), heightOf[last(i)])]
      <4> HIDE DEF g
      <4>1. DOMAIN g = 0..m /\ g = [i \in 0..m |-> g[i]]
        BY DEF g
      <4> QED
        BY <3>3, <4>1
    <3>5. IsRun(g, m)
      BY <3>4
    <3> HIDE DEF g
    <3> QED
      BY <2>3, <3>5
  <2> QED
    BY <2>4, <2>5
<1>2. PICK g : IsRun(g, Len(list))
  <2> HIDE DEF IsRun
  <2> QED
    BY <1>1
<1> DEFINE f == CHOOSE f : IsRun(f, Len(list))
<1>3. IsRun(f, Len(list))
  BY <1>2, Zenon
<1>4. \A k : UndoDownTo(u, list, heightOf, k) = f[Len(list) - k]
  BY Zenon DEF UndoDownTo
<1>5. \A k \in 0..Len(list) :
        f[k] = IF k = 0 THEN u ELSE UndoUTXO(f[k - 1], last(k), heightOf[last(k)])
  <2> HIDE DEF f
  <2> QED
    BY <1>3
<1> QED
  <2> HIDE DEF f
  <2>1. f[Len(list) - Len(list)] = u
    BY <1>5
  <2>2. ASSUME NEW k \in 1..Len(list)
        PROVE  f[Len(list) - (k - 1)] = UndoUTXO(f[Len(list) - k], list[k], heightOf[list[k]])
    <3> DEFINE j == Len(list) - (k - 1)
    <3>1. j \in 1..Len(list) /\ j - 1 = Len(list) - k /\ Len(list) + 1 - j = k
      BY <2>2
    <3>2. f[j] = UndoUTXO(f[j - 1], last(j), heightOf[last(j)])
      <4> HIDE DEF last, j
      <4> QED
        BY <1>5, <3>1
    <3> QED
      BY <3>1, <3>2
  <2> QED
    BY <1>4, <2>1, <2>2 DEF UndoneInTurn

\* Transactions are not empty sequences, and those that spend have a source.
LEMMA SourceFacts ==
  ASSUME NEW s \in Tx, Len(s) > 0, NEW x \in Spenders
  PROVE  LET t == Append(s, x) IN
         /\ t \in Tx /\ Len(t) > 0 /\ ~IsReward(t) /\ Source(t) = s /\ t # s /\ t[1] = s[1]
<1> DEFINE t == Append(s, x)
<1>1. x \in Nat /\ s \in Seq(Nat) /\ Len(s) \in Nat
  BY UtxoAssumption, LenProperties DEF Tx
<1>2. /\ t \in Seq(Nat) /\ Len(t) = Len(s) + 1
      /\ \A i \in 1..Len(s) : t[i] = s[i]
  BY <1>1, AppendProperties
<1>3. /\ AllButLast(t) \in Seq(Nat) /\ Len(AllButLast(t)) = Len(t) - 1
      /\ \A i \in 1..(Len(t) - 1) : AllButLast(t)[i] = t[i]
  <2> HIDE DEF t
  <2>1. Len(t) \in Nat /\ Len(t) > 0
    BY <1>1, <1>2
  <2> QED
    BY <1>2, <2>1, AllButLastFacts, Zenon
<1>4. AllButLast(t) = s
  <2> HIDE DEF t
  <2> QED
    BY <1>1, <1>2, <1>3, SeqEqual, SMTT(30)
<1> QED
  BY <1>1, <1>2, <1>4 DEF Tx, IsReward, Source

\* The lists of transactions that may follow what is unspent.
LEMMA PaymentsSteps ==
  \A n \in 0..MaxPayments : \A unspent \in SUBSET Tx :
    Payments[n][unspent] =
      {<<>>} \cup IF n = 0 THEN {} ELSE Paying(unspent, Payments[n - 1])
<1> DEFINE After(f, n, unspent) ==
             {<<>>} \cup IF n = 0 THEN {} ELSE Paying(unspent, f[n - 1])
           IsRun(f, n) == f = [i \in 0..n |-> [unspent \in SUBSET Tx |-> After(f, i, unspent)]]
           Bad == {n \in 0..MaxPayments : ~ \E f : IsRun(f, n)}
<1>1. Bad = {}
  <2> SUFFICES ASSUME Bad # {} PROVE FALSE
    OBVIOUS
  <2>1. Bad \subseteq Nat
    OBVIOUS
  <2>2. PICK m \in Bad : \A k \in Bad : m <= k
    <3> HIDE DEF Bad
    <3> QED
      BY <2>1, LeastElement
  <2>3. m \in 0..MaxPayments /\ ~ \E f : IsRun(f, m)
    <3> HIDE DEF IsRun
    <3> QED
      BY <2>2
  <2>4. CASE m = 0
    <3> DEFINE f == [i \in 0..0 |-> [unspent \in SUBSET Tx |-> {<<>>}]]
    <3>1. IsRun(f, 0)
      OBVIOUS
    <3> HIDE DEF f, IsRun
    <3> QED
      BY <2>3, <2>4, <3>1
  <2>5. CASE m # 0
    <3>1. m \in Nat /\ m - 1 \in 0..MaxPayments /\ m - 1 \notin Bad
      <4>1. m \in Nat /\ m - 1 \in 0..MaxPayments /\ ~(m <= m - 1)
        <5> HIDE DEF IsRun
        <5> QED
          BY <2>3, <2>5, UtxoAssumption
      <4> HIDE DEF Bad
      <4> QED
        BY <2>2, <4>1
    <3>2. PICK f : IsRun(f, m - 1)
      <4> HIDE DEF IsRun
      <4> QED
        BY <3>1
    <3> DEFINE g == [i \in 0..m |->
                       IF i = m THEN [unspent \in SUBSET Tx |-> After(f, m, unspent)] ELSE f[i]]
    <3>3. \A i \in 0..m : g[i] = [unspent \in SUBSET Tx |-> After(g, i, unspent)]
      <4> SUFFICES ASSUME NEW i \in 0..m
                   PROVE  g[i] = [unspent \in SUBSET Tx |-> After(g, i, unspent)]
        OBVIOUS
      <4>1. i # 0 => g[i - 1] = f[i - 1]
        BY <3>1
      <4>2. \A unspent : After(g, i, unspent) = After(f, i, unspent)
        <5> HIDE DEF g
        <5> QED
          BY <4>1, Zenon
      <4>3. g[i] = [unspent \in SUBSET Tx |-> After(f, i, unspent)]
        <5> HIDE DEF After
        <5>1. CASE i = m
          BY <5>1
        <5>2. CASE i # m
          <6>1. i \in 0..(m - 1) /\ g[i] = f[i]
            BY <3>1, <5>2
          <6> QED
            BY <3>2, <6>1
        <5> QED
          BY <5>1, <5>2
      <4> HIDE DEF After, g
      <4> QED
        BY <4>2, <4>3
    <3>4. g = [i \in 0..m |-> [unspent \in SUBSET Tx |-> After(g, i, unspent)]]
      <4>1. DOMAIN g = 0..m /\ g = [i \in 0..m |-> g[i]]
        <5> HIDE DEF After
        <5> QED
          OBVIOUS
      <4> HIDE DEF g, After
      <4> QED
        BY <3>3, <4>1
    <3>5. IsRun(g, m)
      BY <3>4
    <3> HIDE DEF g, IsRun
    <3> QED
      BY <2>3, <3>5
  <2> QED
    BY <2>4, <2>5
<1>2. PICK g : IsRun(g, MaxPayments)
  <2>1. MaxPayments \in 0..MaxPayments
    BY UtxoAssumption
  <2> HIDE DEF IsRun
  <2> QED
    BY <1>1, <2>1
<1>3. IsRun(Payments, MaxPayments)
  BY <1>2, Zenon DEF Payments
<1>4. ASSUME NEW n \in 0..MaxPayments, NEW unspent \in SUBSET Tx
      PROVE  Payments[n][unspent] = After(Payments, n, unspent)
  <2> HIDE DEF After
  <2>1. PICK all : all = Payments
    OBVIOUS
  <2>2. all = [i \in 0..MaxPayments |-> [u \in SUBSET Tx |-> After(all, i, u)]]
    BY <1>3, <2>1
  <2>3. all[n] = [u \in SUBSET Tx |-> After(all, n, u)]
    BY <2>2, Zenon
  <2>4. all[n][unspent] = After(all, n, unspent)
    BY <2>3, Zenon
  <2> QED
    BY <2>1, <2>4
<1> QED
  BY <1>4

\* Each transaction of the list spends what those before it leave unspent: d[i]
\* is what is unspent after i of them.
Chained(unspent, list, d) ==
  /\ list \in Seq(Tx) /\ d[0] = unspent
  /\ \A i \in 1..Len(list) :
       LET t == list[i] IN
       /\ Len(t) > 0 /\ ~IsReward(t)
       /\ Source(t) \in d[i - 1] /\ t[1] = Source(t)[1]
       /\ d[i] = (d[i - 1] \ {Source(t)}) \cup {t}

\* A transaction on top of such a list.
LEMMA ChainedFirst ==
  ASSUME NEW unspent, NEW s \in unspent, s \in Tx, Len(s) > 0, NEW x \in Spenders,
         NEW list, NEW d, Chained((unspent \ {s}) \cup {Append(s, x)}, list, d)
  PROVE  \E e : Chained(unspent, <<Append(s, x)>> \o list, e)
<1> DEFINE t == Append(s, x)
           whole == <<t>> \o list
           e == [i \in 0..(Len(list) + 1) |-> IF i = 0 THEN unspent ELSE d[i - 1]]
<1>1. /\ t \in Tx /\ Len(t) > 0 /\ ~IsReward(t) /\ Source(t) = s /\ t[1] = s[1]
  BY SourceFacts
<1> HIDE DEF t
<1>2. /\ list \in Seq(Tx) /\ Len(list) \in Nat
      /\ d[0] = (unspent \ {s}) \cup {t}
  BY LenProperties DEF Chained, t
<1>3. /\ whole \in Seq(Tx) /\ Len(whole) = Len(list) + 1
      /\ whole[1] = t
      /\ \A i \in 2..(Len(list) + 1) : whole[i] = list[i - 1]
  <2>1. <<t>> \in Seq(Tx) /\ Len(<<t>>) = 1 /\ <<t>>[1] = t
    BY <1>1
  <2> QED
    BY <1>2, <2>1, ConcatProperties
<1> HIDE DEF whole
<1>4. ASSUME NEW i \in 1..Len(whole)
      PROVE  LET y == whole[i] IN
             /\ Len(y) > 0 /\ ~IsReward(y)
             /\ Source(y) \in e[i - 1] /\ y[1] = Source(y)[1]
             /\ e[i] = (e[i - 1] \ {Source(y)}) \cup {y}
  <2>1. CASE i = 1
    <3>1. whole[i] = t /\ e[i - 1] = unspent /\ e[i] = d[0]
      BY <1>2, <1>3, <2>1
    <3> QED
      BY <1>1, <1>2, <3>1
  <2>2. CASE i # 1
    <3>1. /\ i - 1 \in 1..Len(list) /\ whole[i] = list[i - 1]
          /\ e[i - 1] = d[i - 1 - 1] /\ e[i] = d[i - 1]
      BY <1>2, <1>3, <2>2
    <3> HIDE DEF e
    <3> QED
      BY <3>1 DEF Chained
  <2> QED
    BY <2>1, <2>2
<1>5. e[0] = unspent
  BY <1>2
<1>6. Chained(unspent, whole, e)
  <2> HIDE DEF e
  <2> QED
    BY <1>3, <1>4, <1>5 DEF Chained
<1> QED
  BY <1>6 DEF whole, t

\* bitcoind's lists are such lists.
LEMMA PaymentsChained ==
  ASSUME NEW n \in 0..MaxPayments, NEW unspent \in SUBSET Tx, \A s \in unspent : Len(s) > 0,
         NEW list \in Payments[n][unspent]
  PROVE  \E d : Chained(unspent, list, d)
<1> DEFINE Good(k) == \A u \in SUBSET Tx :
                        (\A s \in u : Len(s) > 0) =>
                          \A l \in Payments[k][u] : \E d : Chained(u, l, d)
           Bad == {k \in 0..MaxPayments : ~Good(k)}
<1>1. SUFFICES ASSUME Bad # {} PROVE FALSE
  <2>1. ASSUME Bad = {} PROVE Good(n)
    <3> HIDE DEF Good
    <3> QED
      BY <2>1
  <2>2. Good(n) => \E d : Chained(unspent, list, d)
    OBVIOUS
  <2> HIDE DEF Good, Bad
  <2> QED
    BY <2>1, <2>2
<1>2. PICK m \in Bad : \A k \in Bad : m <= k
  <2>1. Bad \subseteq Nat
    <3> HIDE DEF Good
    <3> QED
      OBVIOUS
  <2> HIDE DEF Bad
  <2> QED
    BY <1>1, <2>1, LeastElement
<1>3. m \in 0..MaxPayments /\ m \in Nat /\ ~Good(m)
  <2> HIDE DEF Good
  <2> QED
    BY <1>2
<1>4. m # 0 => m - 1 \in 0..MaxPayments /\ Good(m - 1)
  <2>1. m # 0 => m - 1 \in 0..MaxPayments /\ ~(m <= m - 1)
    <3> HIDE DEF Good
    <3> QED
      BY <1>3, UtxoAssumption
  <2>2. m # 0 => m - 1 \notin Bad
    <3> HIDE DEF Bad
    <3> QED
      BY <1>2, <2>1
  <2> HIDE DEF Good
  <2> QED
    BY <2>1, <2>2
<1>5. ASSUME NEW u \in SUBSET Tx, \A s \in u : Len(s) > 0, NEW l \in Payments[m][u]
      PROVE  \E d : Chained(u, l, d)
  <2>1. CASE l = <<>>
    <3> DEFINE d == [i \in 0..0 |-> u]
    <3>1. Chained(u, l, d)
      BY <2>1, EmptySeq DEF Chained
    <3> QED
      BY <3>1
  <2>2. CASE l # <<>>
    <3>1. m # 0 /\ l \in Paying(u, Payments[m - 1])
      BY <1>3, <1>5, <2>2, PaymentsSteps
    <3>2. PICK s \in u, x \in Spenders : l \in Spending(u, s, Append(s, x), Payments[m - 1])
      BY <3>1 DEF Paying
    <3>3. PICK rest \in Payments[m - 1][(u \ {s}) \cup {Append(s, x)}] :
            l = <<Append(s, x)>> \o rest
      BY <3>2 DEF Spending
    <3>4. s \in Tx /\ Len(s) > 0
      BY <1>5
    <3>5. Append(s, x) \in Tx /\ Len(Append(s, x)) > 0
      BY <3>4, SourceFacts
    <3>6. /\ (u \ {s}) \cup {Append(s, x)} \in SUBSET Tx
          /\ \A y \in (u \ {s}) \cup {Append(s, x)} : Len(y) > 0
      BY <1>5, <3>5
    <3>7. PICK d : Chained((u \ {s}) \cup {Append(s, x)}, rest, d)
      BY <1>4, <3>1, <3>3, <3>6
    <3> QED
      BY <3>3, <3>4, <3>7, ChainedFirst
  <2> QED
    BY <2>1, <2>2
<1> QED
  BY <1>3, <1>5

\* What one transaction does, and what undoing it does (main.cpp:74-148).
Spent(t) == IF IsReward(t) THEN {} ELSE {Source(t)}

Processed(after, u, t, h) ==
  /\ DOMAIN after = (DOMAIN u \cup {t}) \ Spent(t)
  /\ \A x \in DOMAIN after : after[x] = IF x = t THEN h ELSE u[x]

LEMMA ProcessEffect ==
  ASSUME NEW u, NEW t, NEW h
  PROVE  Processed(ProcessUTXO(u, t, h), u, t, h)
<1> DEFINE added == InsertOrAssign(u, t, h)
<1>1. DOMAIN added = DOMAIN u \cup {t} /\ \A x \in DOMAIN added : added[x] = IF x = t THEN h ELSE u[x]
  BY DEF InsertOrAssign
<1> HIDE DEF added
<1>2. CASE IsReward(t)
  BY <1>1, <1>2 DEF ProcessUTXO, Spent, added, Processed
<1>3. CASE ~IsReward(t)
  <2>1. ProcessUTXO(u, t, h) = Delete(added, Source(t))
    BY <1>3 DEF ProcessUTXO, added
  <2> QED
    BY <1>1, <1>3, <2>1 DEF Delete, Spent, Processed
<1> QED
  BY <1>2, <1>3

Undone(after, u, t, h) ==
  /\ DOMAIN after = (DOMAIN u \ {t}) \cup Spent(t)
  /\ \A x \in DOMAIN after : after[x] = IF x \in Spent(t) THEN h ELSE u[x]

LEMMA UndoneEffect ==
  ASSUME NEW u, NEW t, NEW h
  PROVE  Undone(UndoUTXO(u, t, h), u, t, h)
<1> DEFINE removed == Delete(u, t)
<1>1. DOMAIN removed = DOMAIN u \ {t} /\ \A x \in DOMAIN removed : removed[x] = u[x]
  BY DEF Delete
<1> HIDE DEF removed
<1>2. CASE IsReward(t)
  BY <1>1, <1>2 DEF UndoUTXO, Spent, removed, Undone
<1>3. CASE ~IsReward(t)
  <2>1. UndoUTXO(u, t, h) = InsertOrAssign(removed, Source(t), h)
    BY <1>3 DEF UndoUTXO, removed
  <2> QED
    BY <1>1, <1>3, <2>1 DEF InsertOrAssign, Spent, Undone
<1> QED
  BY <1>2, <1>3

-----------------------------------------------------------------------------
(* What the blocks of the files make and spend.                            *)

\* The unspent outputs after a block are those after its parent, and what the
\* block does.
UnspentStep(h) ==
  Unspent[h] = ProcessBlock(Unspent[file[h].previous], txs[h], Len(BranchTo[h]) - 1)

LEMMA UnspentSteps ==
  TypeOK /\ FileOrdered =>
    Unspent[0] = NoTxs /\ \A h \in 1..Len(file) : UnspentStep(h)
<1> SUFFICES ASSUME TypeOK, FileOrdered
             PROVE  Unspent[0] = NoTxs /\ \A h \in 1..Len(file) : UnspentStep(h)
  OBVIOUS
<1> DEFINE After(f, h) == IF h = Null THEN NoTxs
                          ELSE ProcessBlock(f[file[h].previous], txs[h], Len(BranchTo[h]) - 1)
           IsRun(f, n) == f = [h \in 0..n |-> After(f, h)]
           Bad == {n \in 0..Len(file) : ~ \E f : IsRun(f, n)}
<1>1. /\ Len(file) \in Nat
      /\ \A k \in 1..Len(file) : file[k].previous \in 0..(k - 1)
  BY Ancestry
<1>2. Bad = {}
  <2> SUFFICES ASSUME Bad # {} PROVE FALSE
    OBVIOUS
  <2>1. Bad \subseteq Nat
    OBVIOUS
  <2>2. PICK m \in Bad : \A k \in Bad : m <= k
    <3> HIDE DEF Bad
    <3> QED
      BY <2>1, LeastElement
  <2>3. m \in 0..Len(file) /\ ~ \E f : IsRun(f, m)
    <3> HIDE DEF IsRun
    <3> QED
      BY <2>2
  <2>4. CASE m = 0
    <3> DEFINE f == [h \in 0..0 |-> NoTxs]
    <3>1. IsRun(f, 0)
      BY DEF Null
    <3> HIDE DEF f, IsRun
    <3> QED
      BY <2>3, <2>4, <3>1
  <2>5. CASE m # 0
    <3>1. m \in 1..Len(file) /\ m - 1 \in 0..Len(file) /\ m - 1 \notin Bad
      <4>1. m \in 1..Len(file) /\ m - 1 \in 0..Len(file) /\ ~(m <= m - 1)
        <5> HIDE DEF IsRun
        <5> QED
          BY <1>1, <2>3, <2>5
      <4> HIDE DEF Bad
      <4> QED
        BY <2>2, <4>1
    <3>2. PICK f : IsRun(f, m - 1)
      <4> HIDE DEF IsRun
      <4> QED
        BY <3>1
    <3> DEFINE g == [h \in 0..m |-> IF h = m THEN After(f, m) ELSE f[h]]
    <3>3. \A h \in 0..m : g[h] = After(g, h)
      <4> SUFFICES ASSUME NEW h \in 0..m PROVE g[h] = After(g, h)
        OBVIOUS
      <4>1. h # Null => g[file[h].previous] = f[file[h].previous]
        <5>1. h # Null => /\ file[h].previous \in 0..m /\ file[h].previous # m
          BY <1>1, <3>1 DEF Null
        <5> HIDE DEF After
        <5> QED
          BY <5>1
      <4>2. After(g, h) = After(f, h)
        <5> HIDE DEF g
        <5> QED
          BY <4>1, Zenon
      <4>3. g[h] = After(f, h)
        <5> HIDE DEF After
        <5>1. CASE h = m
          BY <5>1
        <5>2. CASE h # m
          <6>1. h \in 0..(m - 1) /\ g[h] = f[h]
            BY <3>1, <5>2
          <6> QED
            BY <3>2, <6>1
        <5> QED
          BY <5>1, <5>2
      <4> HIDE DEF After, g
      <4> QED
        BY <4>2, <4>3
    <3>4. g = [h \in 0..m |-> After(g, h)]
      <4>1. DOMAIN g = 0..m /\ g = [h \in 0..m |-> g[h]]
        <5> HIDE DEF After
        <5> QED
          OBVIOUS
      <4> HIDE DEF g, After
      <4> QED
        BY <3>3, <4>1
    <3>5. IsRun(g, m)
      BY <3>4
    <3> HIDE DEF g, IsRun
    <3> QED
      BY <2>3, <3>5
  <2> QED
    BY <2>4, <2>5
<1>3. PICK f : IsRun(f, Len(file))
  <2>1. Len(file) \in 0..Len(file)
    BY <1>1
  <2> HIDE DEF IsRun
  <2> QED
    BY <1>2, <2>1
<1>4. IsRun(Unspent, Len(file))
  BY <1>3, Zenon DEF Unspent
<1>5. ASSUME NEW h \in 0..Len(file) PROVE Unspent[h] = After(Unspent, h)
  <2> HIDE DEF After
  <2>1. PICK all : all = Unspent
    OBVIOUS
  <2>2. all = [i \in 0..Len(file) |-> After(all, i)]
    BY <1>4, <2>1
  <2>3. all[h] = After(all, h)
    BY <2>2, Zenon
  <2> QED
    BY <2>1, <2>3
<1> QED
  BY <1>1, <1>5 DEF UnspentStep, Null

\* The branch of a block is what ChainIndex calls its path.
LEMMA BranchIsPath == BranchTo = Path
  BY Zenon DEF BranchTo, Path

\* The first k transactions of block h, those of the blocks before it and its
\* first k, and what these leave unspent.
FirstTxs(h, k) == {txs[h][i] : i \in 1..k}
MadeBefore(h, k) == TxsTo(file[h].previous) \cup FirstTxs(h, k)
UnspentBefore(h, k) ==
  ProcessFirst(Unspent[file[h].previous], txs[h], Len(BranchTo[h]) - 1, k)

TxsTyped == txs \in Seq(Seq(Tx)) /\ Len(txs) = Len(file)

\* The transactions of a block, one by one.
LEMMA FirstTxsFacts ==
  ASSUME txs \in Seq(Seq(Tx)), NEW h \in 1..Len(txs)
  PROVE  /\ txs[h] \in Seq(Tx) /\ Len(txs[h]) \in Nat
         /\ FirstTxs(h, 0) = {} /\ FirstTxs(h, Len(txs[h])) = Range(txs[h])
         /\ \A k \in Nat : FirstTxs(h, k + 1) = FirstTxs(h, k) \cup {txs[h][k + 1]}
<1>1. txs[h] \in Seq(Tx)
  BY ElementOfSeq
<1>2. Len(txs[h]) \in Nat /\ DOMAIN txs[h] = 1..Len(txs[h])
  BY <1>1, LenProperties
<1>3. FirstTxs(h, Len(txs[h])) = Range(txs[h])
  BY <1>2 DEF FirstTxs, Range
<1>4. ASSUME NEW k \in Nat
      PROVE  FirstTxs(h, k + 1) = FirstTxs(h, k) \cup {txs[h][k + 1]}
  <2>1. 1..(k + 1) = (1..k) \cup {k + 1}
    OBVIOUS
  <2> QED
    BY <2>1 DEF FirstTxs
<1>5. FirstTxs(h, 0) = {}
  <2>1. 1..0 = {}
    OBVIOUS
  <2> QED
    BY <2>1, Zenon DEF FirstTxs
<1> QED
  BY <1>1, <1>2, <1>3, <1>4, <1>5, Zenon

\* Whatever is unspent was made, and whatever was spent was made and is spent.
Sound(unspent, made) ==
  /\ unspent \subseteq made
  /\ \A t \in made : /\ t \in Tx /\ Len(t) > 0
                     /\ ~IsReward(t) => Source(t) \in made \ unspent

\* A transaction is made of unspent outputs and has not been made before.
Fits(t, unspent, made) ==
  t \notin made /\ (~IsReward(t) => Source(t) \in unspent)

\* Block h makes new transactions only, out of unspent outputs.
Legal(h) ==
  \A k \in 1..Len(txs[h]) :
    Fits(txs[h][k], DOMAIN UnspentBefore(h, k - 1), MadeBefore(h, k - 1))

\* The first element of a transaction is its oldest block.
Dated(made, h) == \A t \in made : t[1] \in 1..h

HeightsRight(h) ==
  \A t \in DOMAIN Unspent[h] : \A b \in Range(BranchTo[h]) :
    t \in Range(txs[b]) => Unspent[h][t] = Len(BranchTo[b]) - 1

\* What is unspent in the middle of block h.
SoundBefore(h, k) ==
  /\ Sound(DOMAIN UnspentBefore(h, k), MadeBefore(h, k))
  /\ \A t \in DOMAIN UnspentBefore(h, k) :
       IF t \in FirstTxs(h, k) THEN UnspentBefore(h, k)[t] = Len(BranchTo[h]) - 1
       ELSE /\ t \in DOMAIN Unspent[file[h].previous]
            /\ UnspentBefore(h, k)[t] = Unspent[file[h].previous][t]

SoundTo(h) ==
  Sound(DOMAIN Unspent[h], TxsTo(h)) /\ Dated(TxsTo(h), h) /\ HeightsRight(h)

\* Block h is a reward and a list of payments.
ListOK(h) ==
  \E list, d : /\ txs[h] = <<(<<h>>)>> \o list
               /\ Chained(DOMAIN Unspent[file[h].previous], list, d)

FilesOK == TxsTyped /\ \A h \in 1..Len(file) : ListOK(h)

\* A transaction that fits keeps this so.
LEMMA ProcessSound ==
  ASSUME NEW u, NEW made, NEW t \in Tx, NEW h, Len(t) > 0,
         Sound(DOMAIN u, made), Fits(t, DOMAIN u, made)
  PROVE  Sound(DOMAIN ProcessUTXO(u, t, h), made \cup {t})
<1>1. DOMAIN ProcessUTXO(u, t, h) = (DOMAIN u \cup {t}) \ Spent(t)
  <2>1. Processed(ProcessUTXO(u, t, h), u, t, h)
    BY ProcessEffect
  <2> QED
    BY <2>1 DEF Processed
<1>2. PICK after : after = DOMAIN ProcessUTXO(u, t, h)
  OBVIOUS
<1>3. after = (DOMAIN u \cup {t}) \ Spent(t)
  BY <1>1, <1>2
<1>4. ASSUME NEW x \in made \cup {t}
      PROVE  /\ x \in Tx /\ Len(x) > 0
             /\ ~IsReward(x) => Source(x) \in (made \cup {t}) \ after
  BY <1>3 DEF Sound, Fits, Spent
<1>5. after \subseteq made \cup {t}
  BY <1>3 DEF Sound
<1>6. Sound(after, made \cup {t})
  BY <1>4, <1>5 DEF Sound
<1> QED
  BY <1>2, <1>6

\* A sequence with one more element.
LEMMA RangeOfAppend ==
  ASSUME NEW S, NEW s \in Seq(S), NEW x \in S
  PROVE  Range(Append(s, x)) = Range(s) \cup {x}
<1> DEFINE r == Append(s, x)
<1>1. /\ r \in Seq(S) /\ Len(s) \in Nat /\ Len(r) = Len(s) + 1
      /\ \A i \in 1..Len(s) : r[i] = s[i]
      /\ r[Len(s) + 1] = x
  BY AppendProperties, LenProperties
<1>2. DOMAIN s = 1..Len(s) /\ DOMAIN r = 1..(Len(s) + 1)
  BY <1>1, LenProperties
<1> HIDE DEF r
<1>3. ASSUME NEW y \in Range(r) PROVE y \in Range(s) \cup {x}
  <2>1. PICK i \in 1..(Len(s) + 1) : y = r[i]
    BY <1>2 DEF Range
  <2>2. CASE i = Len(s) + 1
    BY <1>1, <2>1, <2>2
  <2>3. CASE i # Len(s) + 1
    <3>1. i \in 1..Len(s)
      BY <1>1, <2>3
    <3> QED
      BY <1>1, <1>2, <2>1, <3>1 DEF Range
  <2> QED
    BY <2>2, <2>3
<1>4. ASSUME NEW y \in Range(s) PROVE y \in Range(r)
  <2>1. PICK i \in 1..Len(s) : y = s[i]
    BY <1>2 DEF Range
  <2>2. i \in 1..(Len(s) + 1) /\ y = r[i]
    BY <1>1, <2>1
  <2> QED
    BY <1>2, <2>2 DEF Range
<1>5. x \in Range(r)
  <2>1. Len(s) + 1 \in 1..(Len(s) + 1)
    BY <1>1
  <2> QED
    BY <1>1, <1>2, <2>1 DEF Range
<1> QED
  BY <1>3, <1>4, <1>5 DEF r

\* The branch of a block, and the transactions on it.
LEMMA BranchFacts ==
  ASSUME TypeOK, FileOrdered, NEW h \in 1..Len(file)
  PROVE  LET p == file[h].previous IN
         /\ p \in 0..Len(file) /\ p < h /\ h \in Nat
         /\ Range(BranchTo[h]) = Range(BranchTo[p]) \cup {h}
         /\ TxsTo(h) = TxsTo(p) \cup Range(txs[h])
         /\ Len(BranchTo[h]) = Len(BranchTo[p]) + 1 /\ Len(BranchTo[p]) \in Nat
<1> DEFINE p == file[h].previous
<1>1. p \in 0..(h - 1) /\ Len(file) \in Nat
  BY Ancestry
<1>2. p \in 0..Len(file) /\ p < h /\ h \in Nat
  BY <1>1
<1>3. Path[p] \in Seq(Nat) /\ Path[h] = Append(Path[p], h)
  BY <1>2, PathTypes, RecursionsHold DEF Recursions
<1>4. Len(Path[p]) \in Nat /\ Len(Path[h]) = Len(Path[p]) + 1
  BY <1>2, <1>3, AppendProperties, LenProperties
<1>6. Range(Path[h]) = Range(Path[p]) \cup {h}
  <2>1. PICK s : s = Path[p]
    OBVIOUS
  <2>2. h \in Nat /\ s \in Seq(Nat) /\ Path[h] = Append(s, h)
    BY <1>2, <1>3, <2>1
  <2>3. Range(Append(s, h)) = Range(s) \cup {h}
    BY <2>2, RangeOfAppend
  <2> QED
    BY <2>1, <2>2, <2>3
<1>7. Range(BranchTo[h]) = Range(BranchTo[p]) \cup {h}
  BY <1>6, BranchIsPath
<1>8. TxsTo(h) = TxsTo(p) \cup Range(txs[h])
  BY <1>7 DEF TxsTo
<1> QED
  BY <1>2, <1>4, <1>7, <1>8, BranchIsPath

\* What is unspent in the middle of block h, one transaction after the other.
SteppedBefore(h) ==
  /\ UnspentBefore(h, 0) = Unspent[file[h].previous]
  /\ \A k \in 1..Len(txs[h]) :
       UnspentBefore(h, k)
         = ProcessUTXO(UnspentBefore(h, k - 1), txs[h][k], Len(BranchTo[h]) - 1)
  /\ Unspent[h] = UnspentBefore(h, Len(txs[h]))

LEMMA BeforeInTurn ==
  ASSUME TypeOK, FileOrdered, NEW h \in 1..Len(file), Len(txs[h]) \in Nat
  PROVE  SteppedBefore(h)
<1>1. UnspentStep(h)
  BY UnspentSteps
<1>2. ProcessedInTurn(Unspent[file[h].previous], txs[h], Len(BranchTo[h]) - 1)
  BY ProcessSteps
<1> QED
  BY <1>1, <1>2 DEF UnspentStep, ProcessBlock, UnspentBefore, ProcessedInTurn, SteppedBefore

\* The transactions of a block whose parent's branch is sound.
LEMMA BlockSound ==
  ASSUME TypeOK, FileOrdered, FilesOK, NEW h \in 1..Len(file), SoundTo(file[h].previous)
  PROVE  Legal(h) /\ SoundTo(h) /\ \A k \in 0..Len(txs[h]) : SoundBefore(h, k)
<1> DEFINE p    == file[h].previous
           n    == Len(txs[h])
           top  == Len(BranchTo[h]) - 1
           v(k) == UnspentBefore(h, k)
           made(k) == MadeBefore(h, k)
<1>1. /\ p \in 0..Len(file) /\ p < h /\ h \in Nat
      /\ Range(BranchTo[h]) = Range(BranchTo[p]) \cup {h}
      /\ TxsTo(h) = TxsTo(p) \cup Range(txs[h])
  BY BranchFacts
<1>2. /\ txs[h] \in Seq(Tx) /\ n \in Nat
      /\ FirstTxs(h, 0) = {} /\ FirstTxs(h, n) = Range(txs[h])
      /\ \A k \in Nat : FirstTxs(h, k + 1) = FirstTxs(h, k) \cup {txs[h][k + 1]}
  BY FirstTxsFacts DEF FilesOK, TxsTyped
<1>3. PICK list, d : /\ txs[h] = <<(<<h>>)>> \o list
                     /\ Chained(DOMAIN Unspent[p], list, d)
  BY DEF FilesOK, ListOK
<1>4. /\ n = Len(list) + 1 /\ Len(list) \in Nat
      /\ txs[h][1] = <<h>>
      /\ \A k \in 1..Len(list) : txs[h][k + 1] = list[k]
  <2>1. /\ <<(<<h>>)>> \in Seq(Tx) /\ Len(<<(<<h>>)>>) = 1 /\ <<(<<h>>)>>[1] = <<h>>
        /\ list \in Seq(Tx)
    BY <1>1, <1>3 DEF Chained, Tx
  <2>2. PICK r : r = <<(<<h>>)>>
    OBVIOUS
  <2>3. r \in Seq(Tx) /\ Len(r) = 1 /\ r[1] = <<h>> /\ txs[h] = r \o list
    BY <1>3, <2>1, <2>2
  <2>4. Len(r \o list) = Len(r) + Len(list) /\ Len(list) \in Nat
    BY <2>1, <2>3, ConcatProperties, LenProperties
  <2>5. \A k \in 1..(Len(r) + Len(list)) :
          (r \o list)[k] = IF k <= Len(r) THEN r[k] ELSE list[k - Len(r)]
    BY <2>1, <2>3, ConcatProperties
  <2> QED
    BY <2>3, <2>4, <2>5
<1>5. /\ v(0) = Unspent[p]
      /\ \A k \in 1..n : v(k) = ProcessUTXO(v(k - 1), txs[h][k], top)
      /\ Unspent[h] = v(n)
  BY <1>2, BeforeInTurn DEF SteppedBefore
<1>6. /\ made(0) = TxsTo(p) /\ made(n) = TxsTo(h)
      /\ \A k \in Nat : made(k + 1) = made(k) \cup {txs[h][k + 1]}
  BY <1>1, <1>2 DEF MadeBefore
<1>7. Sound(DOMAIN v(0), made(0)) /\ Dated(made(0), p)
  BY <1>5, <1>6 DEF SoundTo
<1> HIDE DEF v, made
<1>8. Fits(txs[h][1], DOMAIN v(0), made(0))
  <2>1. txs[h][1] = <<h>> /\ IsReward(<<h>>) /\ <<h>>[1] = h
    BY <1>4 DEF IsReward
  <2>2. <<h>> \notin made(0)
    BY <1>1, <1>7, <2>1 DEF Dated
  <2> QED
    BY <2>1, <2>2 DEF Fits
<1> DEFINE Good(k) ==
             /\ Sound(DOMAIN v(k), made(k)) /\ Dated(made(k), h)
             /\ k > 0 => /\ Fits(txs[h][k], DOMAIN v(k - 1), made(k - 1))
                         /\ d[k - 1] \subseteq DOMAIN v(k)
             /\ \A t \in DOMAIN v(k) :
                  IF t \in FirstTxs(h, k) THEN v(k)[t] = top
                  ELSE t \in DOMAIN Unspent[p] /\ v(k)[t] = Unspent[p][t]
           Bad == {k \in 0..n : ~Good(k)}
<1>9. Good(0)
  <2>1. Dated(made(0), h)
    BY <1>1, <1>7 DEF Dated
  <2> QED
    BY <1>2, <1>5, <1>7, <2>1
<1>10. ASSUME NEW k \in 0..(n - 1), Good(k) PROVE Good(k + 1)
  <2> DEFINE t == txs[h][k + 1]
  <2>1. k + 1 \in 1..n /\ k \in Nat /\ k + 1 - 1 = k
    BY <1>2
  <2>2. t \in Tx
    BY <1>2, <2>1, ElementOfSeq
  <2>3. v(k + 1) = ProcessUTXO(v(k), t, top) /\ made(k + 1) = made(k) \cup {t}
    BY <1>5, <1>6, <2>1
  <2>4. Len(t) > 0 /\ t[1] \in 1..h /\ Fits(t, DOMAIN v(k), made(k))
    <3>1. CASE k = 0
      <4>1. t = <<h>> /\ Len(<<h>>) = 1 /\ <<h>>[1] = h
        BY <1>4, <3>1
      <4> QED
        BY <1>1, <1>8, <3>1, <4>1
    <3>2. CASE k # 0
      <4>1. k \in 1..Len(list) /\ t = list[k]
        BY <1>4, <2>1, <3>2
      <4>2. /\ Len(t) > 0 /\ ~IsReward(t)
            /\ Source(t) \in d[k - 1] /\ t[1] = Source(t)[1]
        BY <1>3, <4>1, SMTT(30) DEF Chained
      <4>3. Source(t) \in DOMAIN v(k)
        BY <1>10, <2>1, <3>2, <4>2
      <4>4. Source(t) \in made(k) /\ Source(t)[1] \in 1..h
        BY <1>10, <4>3 DEF Sound, Dated
      <4>5. t \notin made(k)
        BY <1>10, <4>2, <4>3 DEF Sound
      <4> QED
        BY <4>2, <4>3, <4>4, <4>5 DEF Fits
    <3> QED
      BY <3>1, <3>2
  <2> HIDE DEF t
  <2>5. Sound(DOMAIN v(k + 1), made(k + 1))
    BY <1>10, <2>2, <2>3, <2>4, ProcessSound
  <2>6. Dated(made(k + 1), h)
    BY <1>10, <2>3, <2>4 DEF Dated
  <2>7. /\ DOMAIN v(k + 1) = (DOMAIN v(k) \cup {t}) \ Spent(t)
        /\ \A x \in DOMAIN v(k + 1) : v(k + 1)[x] = IF x = t THEN top ELSE v(k)[x]
    <3>1. Processed(ProcessUTXO(v(k), t, top), v(k), t, top)
      BY ProcessEffect
    <3>2. Processed(v(k + 1), v(k), t, top)
      BY <2>3, <3>1
    <3> QED
      BY <3>2 DEF Processed
  <2>8. d[k + 1 - 1] \subseteq DOMAIN v(k + 1)
    <3>1. CASE k = 0
      <4>1. d[0] = DOMAIN v(0) /\ IsReward(t)
        BY <1>3, <1>4, <1>5, <3>1 DEF Chained, IsReward, t
      <4> QED
        BY <2>1, <2>7, <3>1, <4>1 DEF Spent
    <3>2. CASE k # 0
      <4>1. k \in 1..Len(list) /\ t = list[k]
        BY <1>4, <2>1, <3>2 DEF t
      <4>2. ~IsReward(t) /\ d[k] = (d[k - 1] \ {Source(t)}) \cup {t}
        BY <1>3, <4>1 DEF Chained
      <4>3. d[k - 1] \subseteq DOMAIN v(k)
        BY <1>10, <2>1, <3>2
      <4>4. t # Source(t)
        BY <1>10, <2>4, <4>2 DEF Fits, Sound
      <4> QED
        BY <2>1, <2>7, <4>2, <4>3, <4>4 DEF Spent
    <3> QED
      BY <3>1, <3>2
  <2>9. FirstTxs(h, k + 1) = FirstTxs(h, k) \cup {t}
    BY <1>2, <2>1 DEF t
  <2>10. ASSUME NEW x \in DOMAIN v(k + 1)
         PROVE  IF x \in FirstTxs(h, k + 1) THEN v(k + 1)[x] = top
                ELSE x \in DOMAIN Unspent[p] /\ v(k + 1)[x] = Unspent[p][x]
    BY <1>10, <2>7, <2>9
  <2> QED
    BY <2>1, <2>4, <2>5, <2>6, <2>8, <2>10 DEF t
<1>11. Bad = {}
  <2> SUFFICES ASSUME Bad # {} PROVE FALSE
    <3> HIDE DEF Bad
    <3> QED
      OBVIOUS
  <2>1. Bad \subseteq Nat
    <3> HIDE DEF Good
    <3> QED
      OBVIOUS
  <2>2. PICK m \in Bad : \A k \in Bad : m <= k
    <3> HIDE DEF Bad
    <3> QED
      BY <2>1, LeastElement
  <2> HIDE DEF Good
  <2>3. m \in 0..n /\ ~Good(m)
    BY <2>2
  <2>4. m # 0
    BY <1>9, <2>3
  <2>5. m - 1 \in 0..(n - 1) /\ ~(m <= m - 1) /\ m - 1 + 1 = m
    BY <1>2, <2>3, <2>4
  <2>6. m - 1 \notin Bad
    <3> HIDE DEF Bad
    <3> QED
      BY <2>2, <2>5
  <2>7. Good(m - 1)
    BY <1>2, <2>5, <2>6
  <2>8. Good(m - 1 + 1)
    BY <1>10, <2>5, <2>7
  <2> QED
    BY <2>3, <2>5, <2>8
<1>12. \A k \in 0..n : Good(k)
  <2> HIDE DEF Good
  <2> QED
    BY <1>11
<1>13. Legal(h)
  <2> SUFFICES ASSUME NEW k \in 1..n
               PROVE  Fits(txs[h][k], DOMAIN v(k - 1), made(k - 1))
    BY DEF Legal, v, made
  <2>1. k \in 0..n /\ k > 0
    BY <1>2
  <2> QED
    BY <1>12, <2>1
<1>14. Good(n) /\ n > 0
  <2> HIDE DEF Good
  <2> QED
    BY <1>2, <1>4, <1>12
<1>15. Sound(DOMAIN Unspent[h], TxsTo(h)) /\ Dated(TxsTo(h), h)
  BY <1>5, <1>6, <1>14
<1>16. HeightsRight(h)
  <2> SUFFICES ASSUME NEW t \in DOMAIN Unspent[h], NEW b \in Range(BranchTo[h]),
                      t \in Range(txs[b])
               PROVE  Unspent[h][t] = Len(BranchTo[b]) - 1
    BY DEF HeightsRight
  <2>1. IF t \in Range(txs[h]) THEN Unspent[h][t] = top
        ELSE t \in DOMAIN Unspent[p] /\ Unspent[h][t] = Unspent[p][t]
    BY <1>2, <1>5, <1>14
  <2>2. b = h \/ b \in Range(BranchTo[p])
    BY <1>1
  <2>3. CASE b = h
    BY <2>1, <2>3
  <2>4. CASE b # h
    <3>1. b \in Range(BranchTo[p]) /\ t \in TxsTo(p)
      BY <2>2, <2>4 DEF TxsTo
    <3>2. t \notin Range(txs[h])
      <4> SUFFICES ASSUME t \in Range(txs[h]) PROVE FALSE
        OBVIOUS
      <4>1. PICK k \in 1..n : t = txs[h][k]
        BY <1>2 DEF FirstTxs
      <4>2. t \notin MadeBefore(h, k - 1)
        BY <1>13, <4>1 DEF Legal, Fits
      <4> QED
        BY <3>1, <4>2 DEF MadeBefore
    <3>3. HeightsRight(p)
      BY DEF SoundTo
    <3> QED
      BY <2>1, <3>1, <3>2, <3>3 DEF HeightsRight
  <2> QED
    BY <2>3, <2>4
<1>17. ASSUME NEW k \in 0..n PROVE SoundBefore(h, k)
  <2>1. Good(k)
    <3> HIDE DEF Good
    <3> QED
      BY <1>12
  <2> QED
    BY <2>1 DEF SoundBefore, v, made
<1> QED
  BY <1>13, <1>15, <1>16, <1>17 DEF SoundTo

\* The files: every block makes new transactions out of what its branch leaves
\* unspent.
LEMMA FilesSound ==
  ASSUME TypeOK, FileOrdered, FilesOK
  PROVE  /\ \A h \in 1..Len(file) : Legal(h) /\ \A k \in 0..Len(txs[h]) : SoundBefore(h, k)
         /\ \A h \in 0..Len(file) : SoundTo(h)
<1> DEFINE Bad == {h \in 0..Len(file) : ~SoundTo(h)}
<1>1. Len(file) \in Nat /\ \A k \in 1..Len(file) : file[k].previous \in 0..(k - 1)
  BY Ancestry
<1>2. SoundTo(0)
  <2>1. Range(BranchTo[0]) = {} /\ TxsTo(0) = {}
    BY BranchIsPath, RecursionsHold DEF Recursions, Range, TxsTo
  <2>2. DOMAIN Unspent[0] = {}
    BY UnspentSteps DEF NoTxs
  <2> QED
    BY <2>1, <2>2 DEF SoundTo, Sound, Dated, HeightsRight
<1>3. Bad = {}
  <2> SUFFICES ASSUME Bad # {} PROVE FALSE
    OBVIOUS
  <2>1. PICK m \in Bad : \A k \in Bad : m <= k
    <3>1. Bad \subseteq Nat
      OBVIOUS
    <3> HIDE DEF Bad
    <3> QED
      BY <3>1, LeastElement
  <2>2. m \in 0..Len(file) /\ ~SoundTo(m) /\ m # 0
    BY <1>2, <2>1
  <2>3. m \in 1..Len(file) /\ file[m].previous \in 0..Len(file) /\ ~(m <= file[m].previous)
    BY <1>1, <2>2
  <2>4. file[m].previous \notin Bad
    <3> HIDE DEF Bad
    <3> QED
      BY <2>1, <2>3
  <2>5. SoundTo(file[m].previous)
    BY <2>3, <2>4
  <2> QED
    BY <2>2, <2>3, <2>5, BlockSound
<1>4. \A h \in 0..Len(file) : SoundTo(h)
  BY <1>3
<1>5. ASSUME NEW h \in 1..Len(file)
      PROVE  Legal(h) /\ \A k \in 0..Len(txs[h]) : SoundBefore(h, k)
  <2>1. file[h].previous \in 0..Len(file)
    BY <1>1
  <2> QED
    BY <1>4, <2>1, BlockSound
<1> QED
  BY <1>4, <1>5
-----------------------------------------------------------------------------
(* bitcoind appends valid blocks.                                          *)

\* The places of the blocks of the files are hashes.
LEMMA HashOfFile ==
  ASSUME Inv
  PROVE  \A q \in 0..Len(file) : q \in Hash \cup {Null}
<1>1. Len(file) \in Nat /\ Len(file) <= MaxFile /\ MaxFile \in Nat
  BY Ancestry, ConstantsAssumption DEF Inv, FileOrdered
<1>2. ASSUME NEW q \in 0..Len(file) PROVE q \in Hash \cup {Null}
  BY <1>1 DEF Hash, Null
<1> QED
  BY <1>2

\* The new block is a reward and a list of payments.
LEMMA ArrivedEffect ==
  ASSUME Inv, FilesOK, ValidBlockArrives
  PROVE  LET n == Len(file) + 1
             p == file'[n].previous IN
         /\ n \in Nat /\ Len(file') = n /\ p \in 0..Len(file)
         /\ \A h \in 1..Len(file) : file'[h] = file[h]
         /\ \E list, d : /\ txs' = Append(txs, <<(<<n>>)>> \o list)
                         /\ <<(<<n>>)>> \o list \in Seq(Tx)
                         /\ Chained(DOMAIN Unspent[p], list, d)
<1> DEFINE n == Len(file) + 1
           p == file'[n].previous
<1>1. Len(file) \in Nat /\ n \in Nat
  BY Ancestry DEF Inv
<1>2. PICK q \in 0..Len(file), b \in Bits : file' = Append(file, [previous |-> q, bits |-> b])
  BY DEF ValidBlockArrives, BlockArrives
<1>3. /\ Len(file') = n /\ p = q /\ p \in 0..Len(file)
      /\ \A h \in 1..Len(file) : file'[h] = file[h]
  <2>1. file \in Seq([previous: Hash \cup {Null}, bits: Bits])
    BY DEF Inv, TypeOK
  <2>2. q \in Hash \cup {Null}
    BY <1>1, HashOfFile
  <2>3. /\ Len(file') = Len(file) + 1 /\ file'[Len(file) + 1] = [previous |-> q, bits |-> b]
        /\ \A h \in 1..Len(file) : file'[h] = file[h]
    BY <1>2, <2>1, <2>2, AppendProperties
  <2> QED
    BY <2>3
<1>4. PICK list \in Payments[MaxPayments][DOMAIN Unspent[p]] : txs' = Append(txs, <<(<<n>>)>> \o list)
  BY DEF ValidBlockArrives
<1>5. DOMAIN Unspent[p] \in SUBSET Tx /\ \A s \in DOMAIN Unspent[p] : Len(s) > 0
  <2>1. SoundTo(p)
    BY <1>3, FilesSound DEF Inv
  <2> QED
    BY <2>1 DEF SoundTo, Sound
<1>6. PICK d : Chained(DOMAIN Unspent[p], list, d)
  <2>1. MaxPayments \in 0..MaxPayments
    BY UtxoAssumption
  <2> QED
    BY <1>4, <1>5, <2>1, PaymentsChained
<1>7. <<(<<n>>)>> \o list \in Seq(Tx)
  <2>1. <<(<<n>>)>> \in Seq(Tx) /\ list \in Seq(Tx)
    BY <1>1, <1>6 DEF Chained, Tx
  <2> QED
    BY <2>1, ConcatProperties
<1> HIDE DEF n, p
<1>8. \E l, e : /\ txs' = Append(txs, <<(<<n>>)>> \o l)
                /\ <<(<<n>>)>> \o l \in Seq(Tx)
                /\ Chained(DOMAIN Unspent[p], l, e)
  BY <1>4, <1>6, <1>7
<1> QED
  BY <1>1, <1>3, <1>8 DEF n, p

\* What a block was, and what is unspent after it, it stays.
FilesGrow ==
  /\ Len(file) <= Len(file')
  /\ \A h \in 1..Len(file) : file'[h] = file[h] /\ txs'[h] = txs[h]
  /\ \A h \in 0..Len(file) : BranchTo'[h] = BranchTo[h] /\ Unspent'[h] = Unspent[h]

FilesStep == (file' = file /\ txs' = txs) \/ ValidBlockArrives

UnspentHolds == Unspent[0] = NoTxs /\ \A h \in 1..Len(file) : UnspentStep(h)

LEMMA UnspentNow == TypeOK /\ FileOrdered => UnspentHolds
  BY UnspentSteps DEF UnspentHolds

LEMMA UnspentNext == TypeOK' /\ FileOrdered' => UnspentHolds'
  BY UnspentNow, PTL

LEMMA BranchNext == BranchTo' = Path'
<1>1. (BranchTo = Path)'
  BY BranchIsPath, PTL
<1> QED
  BY <1>1

LEMMA UnspentKept ==
  ASSUME Inv, Inv', FilesOK, FilesStep
  PROVE  FilesGrow
<1>1. Len(file) \in Nat /\ \A k \in 1..Len(file) : file[k].previous \in 0..(k - 1)
  BY Ancestry DEF Inv
<1>2. /\ Len(file) <= Len(file')
      /\ \A h \in 1..Len(file) : file'[h] = file[h]
      /\ \A h \in 0..Len(file) : BranchTo'[h] = BranchTo[h]
  BY HistoryKept, BranchIsPath, BranchNext DEF Inv, FilesStep, ValidBlockArrives
<1>3. \A h \in 1..Len(file) : txs'[h] = txs[h]
  <2>1. CASE txs' = txs
    BY <2>1
  <2>2. CASE ValidBlockArrives
    <3>1. PICK list : /\ txs' = Append(txs, <<(<<(Len(file) + 1)>>)>> \o list)
                      /\ <<(<<(Len(file) + 1)>>)>> \o list \in Seq(Tx)
      BY <2>2, ArrivedEffect
    <3>2. PICK block : block = <<(<<(Len(file) + 1)>>)>> \o list
      OBVIOUS
    <3>3. txs \in Seq(Seq(Tx)) /\ Len(txs) = Len(file) /\ block \in Seq(Tx) /\ txs' = Append(txs, block)
      BY <3>1, <3>2 DEF FilesOK, TxsTyped
    <3> QED
      BY <3>3, AppendProperties
  <2> QED
    BY <2>1, <2>2 DEF FilesStep
<1> DEFINE Bad == {h \in 0..Len(file) : Unspent'[h] # Unspent[h]}
<1>4. Bad = {}
  <2> SUFFICES ASSUME Bad # {} PROVE FALSE
    OBVIOUS
  <2>1. Bad \subseteq Nat
    OBVIOUS
  <2>2. PICK m \in Bad : \A k \in Bad : m <= k
    <3> HIDE DEF Bad
    <3> QED
      BY <2>1, LeastElement
  <2>3. m # 0
    BY <2>2, UnspentNow, UnspentNext DEF UnspentHolds, Inv
  <2>4. m \in 1..Len(file) /\ m \in 1..Len(file')
    BY <1>1, <1>2, <2>2, <2>3
  <2> DEFINE p == file[m].previous
  <2>5. p \in 0..(m - 1) /\ p \in 0..Len(file) /\ file'[m].previous = p
    BY <1>1, <1>2, <2>4
  <2>6. Unspent'[p] = Unspent[p]
    BY <2>2, <2>5
  <2>7. Unspent[m] = ProcessBlock(Unspent[p], txs[m], Len(BranchTo[m]) - 1)
    BY <2>4, UnspentNow DEF UnspentHolds, UnspentStep, Inv
  <2>8. Unspent'[m] = ProcessBlock(Unspent'[file'[m].previous], txs'[m], Len(BranchTo'[m]) - 1)
    BY <2>4, UnspentNext DEF UnspentHolds, UnspentStep, Inv
  <2>9. Unspent'[m] = Unspent[m]
    BY <1>2, <1>3, <2>4, <2>5, <2>6, <2>7, <2>8
  <2> QED
    BY <2>2, <2>9
<1> QED
  BY <1>2, <1>3, <1>4 DEF FilesGrow

LEMMA FilesInit == UtxoInit => FilesOK
  BY EmptySeq DEF UtxoInit, Init, FilesOK, TxsTyped

LEMMA FilesNext ==
  ASSUME Inv, Inv', FilesOK, FilesStep
  PROVE  FilesOK'
<1>1. FilesGrow
  BY UnspentKept
<1>2. Len(file) \in Nat /\ \A k \in 1..Len(file) : file[k].previous \in 0..Len(file)
  BY Ancestry DEF Inv
<1>3. ASSUME NEW h \in 1..Len(file) PROVE ListOK(h)'
  <2>1. PICK list, d : /\ txs[h] = <<(<<h>>)>> \o list
                       /\ Chained(DOMAIN Unspent[file[h].previous], list, d)
    BY DEF FilesOK, ListOK
  <2>2. txs'[h] = txs[h] /\ file'[h] = file[h] /\ Unspent'[file[h].previous] = Unspent[file[h].previous]
    BY <1>1, <1>2 DEF FilesGrow
  <2>3. txs'[h] = <<(<<h>>)>> \o list
    BY <2>1, <2>2
  <2>4. Chained(DOMAIN Unspent'[file'[h].previous], list, d)
    BY <2>1, <2>2
  <2> QED
    BY <2>3, <2>4 DEF ListOK
<1>4. CASE file' = file /\ txs' = txs
  BY <1>3, <1>4 DEF FilesOK, TxsTyped
<1>5. CASE ValidBlockArrives
  <2>a. PICK n : n = Len(file) + 1
    OBVIOUS
  <2> DEFINE p == file'[n].previous
  <2>1. n \in Nat /\ Len(file') = n /\ p \in 0..Len(file)
    BY <1>5, <2>a, ArrivedEffect
  <2>2. PICK list, d : /\ txs' = Append(txs, <<(<<n>>)>> \o list)
                       /\ <<(<<n>>)>> \o list \in Seq(Tx)
                       /\ Chained(DOMAIN Unspent[p], list, d)
    BY <1>5, <2>a, ArrivedEffect
  <2>3. PICK block : block = <<(<<n>>)>> \o list
    OBVIOUS
  <2>4. txs \in Seq(Seq(Tx)) /\ Len(txs) = Len(file) /\ block \in Seq(Tx) /\ txs' = Append(txs, block)
    BY <2>2, <2>3 DEF FilesOK, TxsTyped
  <2>5. TxsTyped' /\ txs'[n] = block
    <3>1. txs' \in Seq(Seq(Tx)) /\ Len(txs') = Len(txs) + 1 /\ txs'[Len(txs) + 1] = block
      BY <2>4, AppendProperties
    <3> QED
      BY <2>1, <2>a, <2>4, <3>1 DEF TxsTyped
  <2>6. Unspent'[p] = Unspent[p]
    BY <1>1, <2>1 DEF FilesGrow
  <2>7. ListOK(n)'
    <3>1. txs'[n] = <<(<<n>>)>> \o list
      BY <2>3, <2>5
    <3>2. Chained(DOMAIN Unspent'[file'[n].previous], list, d)
      BY <2>2, <2>6
    <3> QED
      BY <3>1, <3>2 DEF ListOK
  <2>8. \A h \in 1..Len(file') : h \in 1..Len(file) \/ h = n
    BY <1>2, <2>a, <2>1
  <2> QED
    BY <1>3, <2>5, <2>7, <2>8 DEF FilesOK
<1> QED
  BY <1>4, <1>5 DEF FilesStep

-----------------------------------------------------------------------------
(* The blocks of a transaction.                                            *)

\* The indices of those of the first n blocks that have transaction t.
IndicesWith(t, n) == {h - 1 : h \in {b \in 1..n : t \in Range(txs[b])}}

\* The batch adds to LevelDB the transactions of the new block so far.
BatchOK ==
  /\ next <= Len(txs[hash])
  /\ DOMAIN batchTxBlocks = DOMAIN dbTxBlocks \cup FirstTxs(hash, next)
  /\ \A t \in DOMAIN batchTxBlocks :
       batchTxBlocks[t] = IndicesWith(t, Len(dbBlocks))
                            \cup {i \in {Len(dbBlocks)} : t \in FirstTxs(hash, next)}

\* The transactions in LevelDB and, while a block is processed, in the batch.
LinksOK ==
  /\ TxsTyped
  /\ TransactionBlocks
  /\ next \in Nat
  /\ Importing => BatchOK
  /\ InCommit => next = Len(txs[hash])

\* A sequence is the beginning of another one.
LEMMA PrefixIs ==
  ASSUME NEW S, NEW s \in Seq(S), NEW m \in Nat, m <= Len(s), NEW r \in Seq(S)
  PROVE  r = SubSeq(s, 1, m) <=> Len(r) = m /\ \A i \in 1..m : r[i] = s[i]
<1>1. \A i \in 1..m : s[i] \in S
  BY ElementOfSeq, LenProperties
<1>2. /\ SubSeq(s, 1, m) \in Seq(S)
      /\ Len(SubSeq(s, 1, m)) = m
      /\ \A i \in 1..m : SubSeq(s, 1, m)[i] = s[i]
  BY <1>1, SubSeqProperties
<1>3. ASSUME Len(r) = m, \A i \in 1..m : r[i] = s[i]
      PROVE  r = SubSeq(s, 1, m)
  BY <1>2, <1>3, SeqEqual
<1> QED
  BY <1>2, <1>3

\* The block being imported is the next one, and its transactions are known.
LEMMA NewBlock ==
  ASSUME Inv, LinksOK
  PROVE  /\ Len(dbBlocks) \in Nat /\ Len(dbBlocks) <= Len(txs) /\ Len(txs) \in Nat
         /\ Importing => /\ hash = Len(dbBlocks) + 1 /\ hash \in 1..Len(txs)
                         /\ blockInfo.index = Len(dbBlocks)
<1>1. Len(dbBlocks) \in Nat /\ Len(file) \in Nat
  BY Lengths DEF Inv
<1> QED
  BY <1>1 DEF Inv, Progress, ImportOK, LinksOK, TxsTyped

\* A step that neither reads a block nor writes one keeps the links, and so
\* does a block of bitcoind.
LEMMA LinksKept ==
  ASSUME Inv, LinksOK, TxsTyped', Len(file) <= Len(file'),
         \A h \in 1..Len(file) : txs'[h] = txs[h],
         UNCHANGED <<dbTransactions, dbTxBlocks, dbBlocks>>, next' \in Nat,
         Importing' => Importing /\ UNCHANGED <<hash, batchTxBlocks, next>>,
         InCommit' => InCommit \/ next = Len(txs[hash])
  PROVE  LinksOK'
<1> DEFINE n == Len(dbBlocks)
<1>1. /\ n \in Nat /\ n <= Len(txs) /\ Len(txs) = Len(file)
      /\ Importing => hash \in 1..Len(txs)
  BY NewBlock DEF LinksOK, TxsTyped
<1>2. \A h \in 1..n : txs'[h] = txs[h]
  BY <1>1
<1>3. dbTransactions' = SubSeq(txs', 1, n)
  <2>1. txs \in Seq(Seq(Tx)) /\ txs' \in Seq(Seq(Tx)) /\ n <= Len(txs')
    <3>1. Len(file) \in Nat /\ Len(file') \in Nat /\ Len(txs') = Len(file')
      BY <1>1, LenProperties DEF TxsTyped
    <3> QED
      BY <1>1, <3>1 DEF LinksOK, TxsTyped
  <2> QED
    BY <1>1, <1>2, <2>1, PrefixIs DEF LinksOK, TransactionBlocks
<1>4. TransactionBlocks'
  <2>1. /\ DOMAIN dbTxBlocks = UNION {Range(txs[h]) : h \in 1..n}
        /\ \A t \in DOMAIN dbTxBlocks :
             dbTxBlocks[t] = {h - 1 : h \in {b \in 1..n : t \in Range(txs[b])}}
    BY DEF LinksOK, TransactionBlocks
  <2>2. UNION {Range(txs'[h]) : h \in 1..n} = UNION {Range(txs[h]) : h \in 1..n}
    BY <1>2
  <2>3. ASSUME NEW t
        PROVE  {b \in 1..n : t \in Range(txs'[b])} = {b \in 1..n : t \in Range(txs[b])}
    BY <1>2
  <2> QED
    BY <1>3, <2>1, <2>2, <2>3 DEF TransactionBlocks
<1>5. Importing' => BatchOK'
  <2> SUFFICES ASSUME Importing' PROVE BatchOK'
    OBVIOUS
  <2>1. hash' = hash /\ batchTxBlocks' = batchTxBlocks /\ next' = next /\ BatchOK
    BY DEF LinksOK
  <2>2. txs'[hash] = txs[hash]
    BY <1>1
  <2>3. FirstTxs(hash, next)' = FirstTxs(hash, next)
    BY <2>1, <2>2 DEF FirstTxs
  <2>4. ASSUME NEW t PROVE IndicesWith(t, Len(dbBlocks))' = IndicesWith(t, Len(dbBlocks))
    BY <1>2 DEF IndicesWith
  <2> QED
    BY <2>1, <2>2, <2>3, <2>4 DEF BatchOK
<1>6. InCommit' => next' = Len(txs'[hash'])
  <2>1. InCommit' => Importing'
    BY DEF InCommit, Importing
  <2>2. InCommit => next = Len(txs[hash])
    BY DEF LinksOK
  <2> QED
    BY <1>1, <2>1, <2>2
<1> QED
  BY <1>4, <1>5, <1>6 DEF LinksOK

LEMMA LinksInit == UtxoInit => LinksOK
<1> SUFFICES ASSUME UtxoInit PROVE LinksOK
  OBVIOUS
<1>1. txs = <<>> /\ file = <<>> /\ dbTransactions = <<>> /\ dbBlocks = <<>>
      /\ DOMAIN dbTxBlocks = {} /\ next = 0 /\ pc = "idle"
  BY DEF UtxoInit, Init, NoTxs
<1>2. TxsTyped
  BY FilesInit DEF FilesOK
<1>3. SubSeq(txs, 1, 0) = <<>>
  <2>1. txs \in Seq(Seq(Tx)) /\ <<>> \in Seq(Seq(Tx)) /\ Len(txs) = 0 /\ Len(<<>>) = 0
    BY <1>1, EmptySeq
  <2> QED
    BY <2>1, PrefixIs
<1>4. TransactionBlocks
  BY <1>1, <1>3 DEF TransactionBlocks
<1> QED
  BY <1>1, <1>2, <1>4 DEF LinksOK, Importing, InCommit

\* A new block: the batch is what LevelDB has.
LEMMA LinksRead ==
  ASSUME Inv, Inv', LinksOK, ReadTransactions
  PROVE  LinksOK'
<1> DEFINE n == Len(dbBlocks)
<1>1. /\ UNCHANGED <<txs, file, dbTransactions, dbTxBlocks, dbBlocks>>
      /\ next' = 0 /\ batchTxBlocks' = dbTxBlocks /\ pc' = "process"
  BY DEF ReadTransactions, ReadBlock, dbTxVars, dbVars
<1>2. TransactionBlocks' /\ TxsTyped'
  <2>1. TransactionBlocks /\ TxsTyped
    BY DEF LinksOK
  <2> QED
    BY <1>1, <2>1 DEF TransactionBlocks, TxsTyped
<1>3. hash' \in 1..Len(txs)
  <2>1. hash' = position' /\ position' = n + 1 /\ position' <= Len(file) /\ n \in Nat
    BY <1>1, NewBlock DEF Inv, Progress, Importing
  <2> QED
    BY <2>1 DEF LinksOK, TxsTyped
<1>4. txs[hash'] \in Seq(Tx) /\ Len(txs[hash']) \in Nat
  <2>1. txs[hash'] \in Seq(Tx)
    BY <1>3, ElementOfSeq DEF LinksOK, TxsTyped
  <2> QED
    BY <2>1, LenProperties
<1>5. BatchOK'
  <2>1. FirstTxs(hash, next)' = {}
    BY <1>1 DEF FirstTxs
  <2>2. ASSUME NEW t \in DOMAIN dbTxBlocks PROVE dbTxBlocks[t] = IndicesWith(t, Len(dbBlocks))'
    BY <1>1 DEF LinksOK, TransactionBlocks, IndicesWith
  <2>3. /\ next' <= Len(txs'[hash'])
        /\ DOMAIN batchTxBlocks' = DOMAIN dbTxBlocks' \cup FirstTxs(hash, next)'
    <3>1. PICK k : k = Len(txs[hash'])
      OBVIOUS
    <3>2. k \in Nat /\ Len(txs'[hash']) = k
      BY <1>1, <1>4, <3>1
    <3>3. next' <= k
      BY <1>1, <3>2
    <3>4. DOMAIN batchTxBlocks' = DOMAIN dbTxBlocks' \cup FirstTxs(hash, next)'
      BY <1>1, <2>1
    <3> QED
      BY <3>2, <3>3, <3>4
  <2>4. ASSUME NEW t \in DOMAIN batchTxBlocks'
        PROVE  batchTxBlocks'[t] = IndicesWith(t, Len(dbBlocks))'
                 \cup {i \in {Len(dbBlocks')} : t \in FirstTxs(hash, next)'}
    BY <1>1, <2>1, <2>2
  <2> QED
    BY <2>3, <2>4 DEF BatchOK
<1> QED
  BY <1>1, <1>2, <1>5 DEF LinksOK, InCommit

\* A transaction: its block is one of its blocks.
LEMMA LinksProcess ==
  ASSUME Inv, LinksOK, ProcessTransaction
  PROVE  LinksOK'
<1> DEFINE n == Len(dbBlocks)
           t == txs[hash][next + 1]
<1>1. /\ UNCHANGED <<txs, file, dbTransactions, dbTxBlocks, dbBlocks, hash, pc>>
      /\ next' = next + 1 /\ pc = "process" /\ next < Len(txs[hash])
      /\ batchTxBlocks' = InsertOrAssign(batchTxBlocks, t, WithThisBlock(t))
  BY DEF ProcessTransaction, vars, dbTxVars, dbVars, importVars
<1>2. TransactionBlocks' /\ TxsTyped'
  <2>1. TransactionBlocks /\ TxsTyped
    BY DEF LinksOK
  <2> QED
    BY <1>1, <2>1 DEF TransactionBlocks, TxsTyped
<1>3. /\ hash \in 1..Len(txs) /\ n \in Nat /\ blockInfo.index = n
      /\ BatchOK /\ next \in Nat
  BY <1>1, NewBlock DEF LinksOK, Importing
<1>4. FirstTxs(hash, next)' = FirstTxs(hash, next) \cup {t}
  <2>1. FirstTxs(hash, next + 1) = FirstTxs(hash, next) \cup {t}
    BY <1>3, FirstTxsFacts DEF LinksOK, TxsTyped
  <2> QED
    BY <1>1, <2>1 DEF FirstTxs
<1>5. Len(txs[hash]) \in Nat
  BY <1>3, FirstTxsFacts DEF LinksOK, TxsTyped
<1>6. \A x : IndicesWith(x, Len(dbBlocks))' = IndicesWith(x, n)
  BY <1>1 DEF IndicesWith
<1> HIDE DEF t
<1>7. /\ DOMAIN batchTxBlocks' = DOMAIN batchTxBlocks \cup {t}
      /\ \A x \in DOMAIN batchTxBlocks' :
           batchTxBlocks'[x] = IF x = t THEN WithThisBlock(t) ELSE batchTxBlocks[x]
  BY <1>1 DEF InsertOrAssign
<1>8. t \notin DOMAIN batchTxBlocks => IndicesWith(t, n) = {}
  <2>1. DOMAIN dbTxBlocks = UNION {Range(txs[h]) : h \in 1..n}
    BY DEF LinksOK, TransactionBlocks
  <2>2. DOMAIN dbTxBlocks \subseteq DOMAIN batchTxBlocks
    BY <1>3 DEF BatchOK
  <2> QED
    BY <2>1, <2>2 DEF IndicesWith
<1>9. WithThisBlock(t) = IndicesWith(t, n) \cup {n}
  <2>1. CASE t \in DOMAIN batchTxBlocks
    BY <1>3, <2>1 DEF WithThisBlock, BatchOK
  <2>2. CASE t \notin DOMAIN batchTxBlocks
    BY <1>3, <1>8, <2>2 DEF WithThisBlock
  <2> QED
    BY <2>1, <2>2
<1>10. ASSUME NEW x \in DOMAIN batchTxBlocks'
       PROVE  batchTxBlocks'[x] = IndicesWith(x, Len(dbBlocks))'
                                    \cup {i \in {n} : x \in FirstTxs(hash, next)'}
  BY <1>3, <1>4, <1>6, <1>7, <1>9 DEF BatchOK
<1>11. BatchOK'
  <2>1. next' <= Len(txs[hash])
    BY <1>1, <1>3, <1>5
  <2>2. DOMAIN batchTxBlocks' = DOMAIN dbTxBlocks \cup FirstTxs(hash, next)'
    BY <1>3, <1>4, <1>7 DEF BatchOK
  <2> QED
    BY <1>1, <1>10, <2>1, <2>2 DEF BatchOK
<1>12. next' \in Nat
  BY <1>1, <1>3
<1> QED
  BY <1>1, <1>2, <1>11, <1>12 DEF LinksOK, InCommit

\* The batch is written: the new block is one of LevelDB's.
LEMMA LinksWrite ==
  ASSUME Inv, Inv', LinksOK, WriteBatch
  PROVE  LinksOK'
<1> DEFINE n == Len(dbBlocks)
<1>1. /\ UNCHANGED <<txs, file>> /\ pc = "redo" /\ pc' = "idle"
      /\ dbTransactions' = Append(dbTransactions, txs[hash])
      /\ dbTxBlocks' = batchTxBlocks /\ next' = 0
  BY DEF WriteBatch, Finish
<1>2. /\ hash \in 1..Len(txs) /\ n \in Nat /\ hash = n + 1 /\ n + 1 <= Len(txs)
      /\ BatchOK /\ next = Len(txs[hash]) /\ Len(txs) \in Nat
  BY <1>1, NewBlock DEF LinksOK, Importing, InCommit
<1>3. Len(dbBlocks') = n + 1
  <2>1. Len(blockIds') = n + 1
    BY FinishEffect DEF WriteBatch
  <2> QED
    BY <1>1, <2>1 DEF Inv, Progress
<1>4. FirstTxs(hash, next) = Range(txs[n + 1])
  BY <1>2, FirstTxsFacts DEF LinksOK, TxsTyped
<1>5. dbTransactions' = SubSeq(txs, 1, n + 1)
  <2>1. txs \in Seq(Seq(Tx)) /\ dbTransactions = SubSeq(txs, 1, n)
    BY DEF LinksOK, TxsTyped, TransactionBlocks
  <2>2. \A i \in 1..n : txs[i] \in Seq(Tx)
    BY <1>2, <2>1, ElementOfSeq
  <2>3. dbTransactions \in Seq(Seq(Tx))
    BY <1>2, <2>1, <2>2, SubSeqProperties
  <2>4. Len(dbTransactions) = n /\ \A i \in 1..n : dbTransactions[i] = txs[i]
    BY <1>2, <2>1, <2>3, PrefixIs
  <2>5. txs[hash] \in Seq(Tx)
    BY <1>2, <2>1, ElementOfSeq
  <2>6. /\ dbTransactions' \in Seq(Seq(Tx)) /\ Len(dbTransactions') = n + 1
        /\ dbTransactions'[n + 1] = txs[hash]
        /\ \A i \in 1..n : dbTransactions'[i] = dbTransactions[i]
    BY <1>1, <2>3, <2>4, <2>5, AppendProperties
  <2>7. \A i \in 1..(n + 1) : dbTransactions'[i] = txs[i]
    <3> SUFFICES ASSUME NEW i \in 1..(n + 1) PROVE dbTransactions'[i] = txs[i]
      OBVIOUS
    <3>1. CASE i = n + 1
      BY <1>2, <2>6, <3>1
    <3>2. CASE i # n + 1
      <4>1. i \in 1..n
        BY <1>2, <3>2
      <4> QED
        BY <2>4, <2>6, <4>1
    <3> QED
      BY <3>1, <3>2
  <2>8. PICK m : m = n + 1
    OBVIOUS
  <2>9. m \in Nat /\ m <= Len(txs)
    BY <1>2, <2>8
  <2>10. Len(dbTransactions') = m /\ \A i \in 1..m : dbTransactions'[i] = txs[i]
    BY <2>6, <2>7, <2>8
  <2>11. dbTransactions' = SubSeq(txs, 1, m)
    BY <2>1, <2>6, <2>9, <2>10, PrefixIs
  <2> QED
    BY <2>8, <2>11
<1>6. 1..(n + 1) = (1..n) \cup {n + 1}
  BY <1>2
<1>7. DOMAIN dbTxBlocks' = UNION {Range(txs[h]) : h \in 1..(n + 1)}
  <2>1. DOMAIN dbTxBlocks = UNION {Range(txs[h]) : h \in 1..n}
    BY DEF LinksOK, TransactionBlocks
  <2>2. DOMAIN dbTxBlocks' = DOMAIN dbTxBlocks \cup Range(txs[n + 1])
    BY <1>1, <1>2, <1>4 DEF BatchOK
  <2> QED
    BY <1>6, <2>1, <2>2
<1>8. ASSUME NEW t \in DOMAIN dbTxBlocks' PROVE dbTxBlocks'[t] = IndicesWith(t, n + 1)
  <2>1. dbTxBlocks'[t] = IndicesWith(t, n) \cup {i \in {n} : t \in Range(txs[n + 1])}
    BY <1>1, <1>2, <1>4 DEF BatchOK
  <2>2. n + 1 - 1 = n
    BY <1>2
  <2>3. IndicesWith(t, n + 1) = IndicesWith(t, n) \cup {i \in {n} : t \in Range(txs[n + 1])}
    BY <1>6, <2>2 DEF IndicesWith
  <2> QED
    BY <2>1, <2>3
<1>9. TransactionBlocks'
  BY <1>1, <1>3, <1>5, <1>7, <1>8 DEF TransactionBlocks, IndicesWith
<1>10. TxsTyped'
  BY <1>1 DEF LinksOK, TxsTyped
<1> QED
  BY <1>1, <1>9, <1>10 DEF LinksOK, Importing, InCommit

LEMMA LinksNext ==
  ASSUME Inv, Inv', FilesOK, FilesOK', LinksOK, [UtxoNext]_allVars
  PROVE  LinksOK'
<1>1. TxsTyped' /\ Len(file) <= Len(file)
  BY Ancestry DEF FilesOK, Inv
<1>2. CASE UNCHANGED allVars
  BY <1>1, <1>2, LinksKept DEF allVars, vars, txVars, dbTxVars, batchVars, dbVars,
     importVars, Importing, InCommit, LinksOK
<1>3. CASE ValidBlockArrives
  <2>1. FilesGrow
    BY <1>3, UnspentKept DEF FilesStep
  <2> QED
    BY <1>1, <1>3, <2>1, LinksKept DEF FilesGrow, ValidBlockArrives, BlockArrives,
       dbTxVars, batchVars, dbVars, importVars, Importing, InCommit, LinksOK
<1>4. CASE CrashWithBatch
  BY <1>1, <1>4, LinksKept DEF CrashWithBatch, Crash, Down, dbTxVars, dbVars,
     Importing, InCommit
<1>5. CASE CommitProcessed
  BY <1>1, <1>5, LinksKept DEF CommitProcessed, BeginCommit, txVars, dbTxVars,
     batchVars, dbVars, importVars, Importing, InCommit, LinksOK
<1>6. CASE UndoTransactions
  BY <1>1, <1>6, LinksKept DEF UndoTransactions, UndoBlock, dbTxVars, dbVars,
     importVars, Importing, InCommit, LinksOK
<1>7. CASE RedoTransactions
  BY <1>1, <1>7, LinksKept DEF RedoTransactions, RedoBlock, dbTxVars, dbVars,
     importVars, Importing, InCommit, LinksOK
<1>8. CASE NoTransactions
  <2>1. UNCHANGED <<file, txs, dbTransactions, dbTxBlocks, dbBlocks, batchTxBlocks, next, hash>>
    BY <1>8 DEF NoTransactions, Start, Restore, RestoreBlock, SizeChain, RebuildChain,
       RestorePosition, ReadFails, WalkBack, WalkEnds, UndoEnds, txVars, dbTxVars,
       batchVars, dbVars, importVars
  <2>2. (Importing' => Importing) /\ (InCommit' => InCommit)
    BY <1>8 DEF NoTransactions, Start, Restore, RestoreBlock, SizeChain, RebuildChain,
       RestorePosition, ReadFails, WalkBack, WalkEnds, UndoEnds, Importing, InCommit
  <2> QED
    BY <1>1, <2>1, <2>2, LinksKept DEF LinksOK
<1> QED
  BY <1>2, <1>3, <1>4, <1>5, <1>6, <1>7, <1>8, LinksRead, LinksProcess, LinksWrite DEF UtxoNext

\* The invariant of the files, of the chain and of the links.
LinkedOf == ChainOf /\ FilesOK /\ LinksOK

LEMMA FilesStepAlways == ASSUME [UtxoNext]_allVars PROVE FilesStep
<1>1. CASE UNCHANGED allVars
  BY <1>1 DEF allVars, vars, txVars, FilesStep
<1>2. CASE ValidBlockArrives
  BY <1>2 DEF FilesStep
<1>3. CASE NoTransactions
  BY <1>3 DEF NoTransactions, Start, Restore, RestoreBlock, SizeChain, RebuildChain,
     RestorePosition, ReadFails, WalkBack, WalkEnds, UndoEnds, txVars, FilesStep
<1>4. CASE ReadTransactions \/ ProcessTransaction \/ CommitProcessed
  BY <1>4 DEF ReadTransactions, ReadBlock, ProcessTransaction, vars, CommitProcessed,
     BeginCommit, txVars, FilesStep
<1>5. CASE CrashWithBatch \/ UndoTransactions \/ RedoTransactions \/ WriteBatch
  BY <1>5 DEF CrashWithBatch, Crash, Down, UndoTransactions, UndoBlock, RedoTransactions,
     RedoBlock, WriteBatch, Finish, FilesStep
<1> QED
  BY <1>1, <1>2, <1>3, <1>4, <1>5 DEF UtxoNext

LEMMA LinkedAlways == UtxoSpec => []LinkedOf
<1>1. UtxoInit => FilesOK /\ LinksOK
  BY FilesInit, LinksInit
<1>2. Inv /\ Inv' /\ FilesOK /\ LinksOK /\ [UtxoNext]_allVars => FilesOK' /\ LinksOK'
  <2> SUFFICES ASSUME Inv, Inv', FilesOK, LinksOK, [UtxoNext]_allVars
               PROVE  FilesOK' /\ LinksOK'
    OBVIOUS
  <2>1. FilesOK'
    BY FilesStepAlways, FilesNext
  <2> QED
    BY <2>1, LinksNext
<1>3. ChainOf => Inv
  BY DEF ChainOf
<1>4. ChainOf /\ FilesOK /\ LinksOK => LinkedOf
  BY DEF LinkedOf
<1> QED
  BY <1>1, <1>2, <1>3, <1>4, ChainAlways, PTL DEF UtxoSpec

\* LevelDB knows all blocks of a transaction, those of other branches and
\* those imported before a crash included, and no other: what the import loop
\* puts in the batch for each transaction, the blocks that LevelDB had and the
\* new one (main.cpp:656-673), is written with the block or lost with it.
THEOREM TransactionBlocksAlways == UtxoSpec => []TransactionBlocks
<1>1. LinkedOf => TransactionBlocks
  BY DEF LinkedOf, LinksOK
<1> QED
  BY <1>1, LinkedAlways, PTL

-----------------------------------------------------------------------------
(* The index and the unspent outputs side by side.                         *)

\* An output is in both indices, with the same height or, in u, with that of a
\* higher block that has the same transaction.
SameOutput(u, v, t) ==
  t \in DOMAIN u \cup DOMAIN v =>
    /\ t \in DOMAIN u /\ t \in DOMAIN v
    /\ \/ u[t] = v[t]
       \/ u[t] > v[t] /\ u[t] \in HeightsWith(t)

SameBut(u, v, outputs) == \A t : t \notin outputs => SameOutput(u, v, t)

\* A transaction that is processed in both leaves them the same.
LEMMA SameProcessed ==
  ASSUME NEW u, NEW v, NEW D, SameBut(u, v, D), NEW t, NEW h, NEW after, NEW ref,
         Processed(after, u, t, h), Processed(ref, v, t, h)
  PROVE  SameBut(after, ref, D)
<1> SUFFICES ASSUME NEW x, x \notin D PROVE SameOutput(after, ref, x)
  BY DEF SameBut
<1>1. SameOutput(u, v, x)
  BY DEF SameBut
<1> QED
  BY <1>1 DEF SameOutput, Processed

LEMMA SameBlockProcessed ==
  ASSUME NEW u, NEW v, NEW D, SameBut(u, v, D), NEW list, NEW h, Len(list) \in Nat
  PROVE  SameBut(ProcessBlock(u, list, h), ProcessBlock(v, list, h), D)
<1> DEFINE n == Len(list)
           S == {k \in 0..n : SameBut(ProcessFirst(u, list, h, k), ProcessFirst(v, list, h, k), D)}
<1>1. ProcessedInTurn(u, list, h) /\ ProcessedInTurn(v, list, h)
  BY ProcessSteps
<1>2. 0 \in S
  BY <1>1 DEF ProcessedInTurn
<1>3. ASSUME NEW k \in 0..(n - 1), k \in S PROVE k + 1 \in S
  <2>1. k + 1 \in 1..n /\ k + 1 \in 0..n /\ k + 1 - 1 = k
    OBVIOUS
  <2>2. PICK uk, vk, u1, v1 : /\ uk = ProcessFirst(u, list, h, k) /\ u1 = ProcessFirst(u, list, h, k + 1)
                              /\ vk = ProcessFirst(v, list, h, k) /\ v1 = ProcessFirst(v, list, h, k + 1)
    OBVIOUS
  <2>3. u1 = ProcessUTXO(uk, list[k + 1], h) /\ v1 = ProcessUTXO(vk, list[k + 1], h)
    BY <1>1, <2>1, <2>2 DEF ProcessedInTurn
  <2>4. Processed(u1, uk, list[k + 1], h) /\ Processed(v1, vk, list[k + 1], h)
    BY <2>3, ProcessEffect
  <2>5. SameBut(uk, vk, D)
    BY <1>3, <2>2
  <2>6. SameBut(u1, v1, D)
    BY <2>4, <2>5, SameProcessed
  <2> QED
    BY <2>1, <2>2, <2>6
<1>4. n \in S
  <2>1. n \in Nat /\ n \in 0..n
    OBVIOUS
  <2> HIDE DEF S, n
  <2> QED
    BY <1>2, <1>3, <2>1, Upwards
<1> QED
  BY <1>4 DEF ProcessBlock

\* The outputs that the first k transactions of block h make or spend.
Touched(h, k) == FirstTxs(h, k) \cup UNION {Spent(t) : t \in FirstTxs(h, k)}

\* A block changes no other output.
LEMMA UntouchedSame ==
  ASSUME NEW u, NEW v, NEW D, SameBut(u, v, D), NEW b, NEW h,
         txs \in Seq(Seq(Tx)), b \in 1..Len(txs)
  PROVE  SameBut(u, ProcessBlock(v, txs[b], h), D \cup Touched(b, Len(txs[b])))
<1> DEFINE list == txs[b]
           n == Len(list)
           S == {k \in 0..n : SameBut(u, ProcessFirst(v, list, h, k), D \cup Touched(b, k))}
<1>1. n \in Nat
  BY FirstTxsFacts
<1>2. ProcessedInTurn(v, list, h)
  BY <1>1, ProcessSteps
<1>3. 0 \in S
  <2>1. D \cup Touched(b, 0) = D
    BY FirstTxsFacts DEF Touched
  <2>2. PICK v0, D0 : v0 = ProcessFirst(v, list, h, 0) /\ D0 = D \cup Touched(b, 0)
    OBVIOUS
  <2>3. v0 = v /\ D0 = D
    BY <1>2, <2>1, <2>2 DEF ProcessedInTurn
  <2>4. SameBut(u, v0, D0)
    BY <2>3
  <2>5. 0 \in 0..n
    BY <1>1
  <2> QED
    BY <2>2, <2>4, <2>5, Zenon
<1>4. ASSUME NEW k \in 0..(n - 1), k \in S PROVE k + 1 \in S
  <2>1. k + 1 \in 1..n /\ k + 1 \in 0..n /\ k + 1 - 1 = k /\ k \in Nat
    BY <1>1
  <2>2. PICK vk, v1, t : /\ vk = ProcessFirst(v, list, h, k) /\ v1 = ProcessFirst(v, list, h, k + 1)
                         /\ t = list[k + 1]
    OBVIOUS
  <2>3. v1 = ProcessUTXO(vk, t, h)
    BY <1>2, <2>1, <2>2 DEF ProcessedInTurn
  <2>4. Processed(v1, vk, t, h)
    BY <2>3, ProcessEffect
  <2>5. SameBut(u, vk, D \cup Touched(b, k))
    BY <1>4, <2>2
  <2>6. FirstTxs(b, k + 1) = FirstTxs(b, k) \cup {t}
    BY <2>1, <2>2, FirstTxsFacts
  <2>7. Touched(b, k + 1) = Touched(b, k) \cup {t} \cup Spent(t)
    BY <2>6 DEF Touched
  <2>8. ASSUME NEW x, x \notin D \cup Touched(b, k + 1) PROVE SameOutput(u, v1, x)
    <3>1. x \notin D \cup Touched(b, k) /\ x # t /\ x \notin Spent(t)
      BY <2>7, <2>8
    <3>2. SameOutput(u, vk, x)
      BY <2>5, <3>1 DEF SameBut
    <3> QED
      BY <2>4, <3>1, <3>2 DEF SameOutput, Processed
  <2>9. SameBut(u, v1, D \cup Touched(b, k + 1))
    BY <2>8 DEF SameBut
  <2> QED
    BY <2>1, <2>2, <2>9
<1>5. n \in S
  <2>1. n \in 0..n
    BY <1>1
  <2> HIDE DEF S, n
  <2> QED
    BY <1>1, <1>3, <1>4, <2>1, Upwards
<1> QED
  BY <1>5 DEF ProcessBlock

-----------------------------------------------------------------------------
(* Undoing a block (main.cpp:108-148, 879-902).                            *)

\* In the middle of block h, an unspent output has the height of its block.
LEMMA HeightsBefore ==
  ASSUME TypeOK, FileOrdered, FilesOK, NEW h \in 1..Len(file), NEW k \in 0..Len(txs[h]),
         NEW x \in DOMAIN UnspentBefore(h, k), NEW b \in Range(BranchTo[h]), x \in Range(txs[b])
  PROVE  UnspentBefore(h, k)[x] = Len(BranchTo[b]) - 1
<1> DEFINE p == file[h].previous
           n == Len(txs[h])
<1>1. /\ p \in 0..Len(file)
      /\ Range(BranchTo[h]) = Range(BranchTo[p]) \cup {h}
      /\ n \in Nat /\ FirstTxs(h, n) = Range(txs[h])
  BY BranchFacts, FirstTxsFacts DEF FilesOK, TxsTyped
<1>2. Legal(h) /\ SoundBefore(h, k) /\ SoundTo(p)
  BY <1>1, FilesSound
<1>3. x \in MadeBefore(h, k)
  BY <1>2 DEF SoundBefore, Sound
<1>4. ASSUME x \in Range(txs[h]) PROVE x \in FirstTxs(h, k) /\ x \notin TxsTo(p)
  <2>1. PICK j \in 1..n : x = txs[h][j]
    BY <1>1, <1>4 DEF FirstTxs
  <2>2. x \notin MadeBefore(h, j - 1)
    BY <1>2, <2>1 DEF Legal, Fits
  <2>3. CASE j <= k
    <3>1. j \in 1..k
      BY <1>1, <2>3
    <3> QED
      BY <2>1, <2>2, <3>1 DEF FirstTxs, MadeBefore
  <2>4. CASE ~(j <= k)
    <3>1. 1..k \subseteq 1..(j - 1)
      BY <1>1, <2>4
    <3>2. MadeBefore(h, k) \subseteq MadeBefore(h, j - 1)
      BY <3>1 DEF MadeBefore, FirstTxs
    <3> QED
      BY <1>3, <2>2, <3>2
  <2> QED
    BY <2>3, <2>4
<1>5. CASE b = h
  BY <1>2, <1>4, <1>5 DEF SoundBefore
<1>6. CASE b # h
  <2>1. b \in Range(BranchTo[p]) /\ x \in TxsTo(p)
    BY <1>1, <1>6 DEF TxsTo
  <2>2. x \notin FirstTxs(h, k)
    <3>1. x \notin Range(txs[h])
      BY <1>4, <2>1
    <3>2. 1..k \subseteq 1..n
      BY <1>1
    <3> QED
      BY <1>1, <3>1, <3>2 DEF FirstTxs
  <2>3. x \in DOMAIN Unspent[p] /\ UnspentBefore(h, k)[x] = Unspent[p][x]
    BY <1>2, <2>2 DEF SoundBefore
  <2> QED
    BY <1>2, <2>1, <2>3 DEF SoundTo, HeightsRight
<1> QED
  BY <1>5, <1>6

\* A height that UndoUTXO may find for output x, when block h is the tip: that
\* of a block of x on the main chain, or any above the tip.
FoundHeight(h, x, found) ==
  /\ found \in HeightsWith(x)
  /\ found < Len(BranchTo[h]) =>
       \E b \in Range(BranchTo[h]) : x \in Range(txs[b]) /\ found = Len(BranchTo[b]) - 1

\* It is the height of the output or, above the tip, a higher one.
LEMMA HeightsFound ==
  ASSUME Inv, FilesOK, NEW h \in 1..Len(file), NEW k \in 1..Len(txs[h]),
         ~IsReward(txs[h][k]), NEW found, FoundHeight(h, Source(txs[h][k]), found)
  PROVE  LET x == Source(txs[h][k])
             v == UnspentBefore(h, k - 1)
         IN /\ x \in DOMAIN v
            /\ \/ found = v[x]
               \/ found > v[x] /\ found \in HeightsWith(x)
<1> USE DEF Inv
<1> DEFINE p == file[h].previous
           n == Len(txs[h])
<1>1. PICK x, v : x = Source(txs[h][k]) /\ v = UnspentBefore(h, k - 1)
  OBVIOUS
<1>2. /\ n \in Nat /\ FirstTxs(h, n) = Range(txs[h])
      /\ TxsTo(h) = TxsTo(p) \cup Range(txs[h])
  BY BranchFacts, FirstTxsFacts DEF FilesOK, TxsTyped
<1>3. k - 1 \in 0..n
  BY <1>2
<1>4. Legal(h) /\ SoundBefore(h, k - 1)
  BY <1>3, FilesSound
<1>5. x \in DOMAIN v /\ x \in MadeBefore(h, k - 1)
  BY <1>1, <1>4 DEF Legal, Fits, SoundBefore, Sound
<1>6. ASSUME NEW b \in Range(BranchTo[h]), x \in Range(txs[b]) PROVE v[x] = Len(BranchTo[b]) - 1
  BY <1>1, <1>3, <1>5, <1>6, HeightsBefore
<1>7. CASE found < Len(BranchTo[h])
  BY <1>1, <1>5, <1>6, <1>7 DEF FoundHeight
<1>8. CASE ~(found < Len(BranchTo[h]))
  <2>1. x \in TxsTo(h)
    <3>1. 1..(k - 1) \subseteq 1..n
      BY <1>2
    <3>2. FirstTxs(h, k - 1) \subseteq FirstTxs(h, n)
      BY <3>1 DEF FirstTxs
    <3> QED
      BY <1>2, <1>5, <3>2 DEF MadeBefore
  <2>2. PICK b \in Range(BranchTo[h]) : x \in Range(txs[b])
    BY <2>1 DEF TxsTo
  <2>3. Len(BranchTo[b]) \in Nat /\ Len(BranchTo[h]) \in Nat /\ Len(BranchTo[b]) <= Len(BranchTo[h])
    <3>1. Path[h] \in Seq(Nat) /\ h \in 0..Len(file)
      BY PathTypes, Ancestry
    <3>2. Len(Path[h]) \in Nat /\ DOMAIN Path[h] = 1..Len(Path[h])
      BY <3>1, LenProperties
    <3>3. PICK i \in 1..Len(Path[h]) : b = Path[h][i]
      BY <2>2, <3>2, BranchIsPath DEF Range
    <3>4. Len(Path[b]) = i
      BY <3>1, <3>3, PathElements
    <3> QED
      BY <3>2, <3>4, BranchIsPath
  <2>4. v[x] = Len(BranchTo[b]) - 1
    BY <1>6, <2>2
  <2>5. found \in HeightsWith(x)
    BY <1>1 DEF FoundHeight
  <2>6. found \in Int
    <3>1. PICK c \in 1..Len(dbBlocks) : found = Len(BranchTo[c]) - 1
      BY <2>5 DEF HeightsWith
    <3>2. c \in 1..Len(file)
      BY Lengths DEF Progress
    <3> QED
      BY <3>1, <3>2, BranchFacts
  <2> QED
    BY <1>1, <1>5, <1>8, <2>3, <2>4, <2>5, <2>6
<1> QED
  BY <1>7, <1>8

\* Undoing one transaction of the tip, in the index and in what is unspent.
LEMMA SameUndone ==
  ASSUME Inv, FilesOK, NEW h \in 1..Len(file), NEW k \in 1..Len(txs[h]),
         NEW u, NEW D, SameBut(u, UnspentBefore(h, k), D \cup Touched(h, k)),
         NEW found, ~IsReward(txs[h][k]) => FoundHeight(h, Source(txs[h][k]), found),
         NEW after, Undone(after, u, txs[h][k], found)
  PROVE  SameBut(after, UnspentBefore(h, k - 1), D \cup Touched(h, k - 1))
<1> DEFINE n == Len(txs[h])
<1>1. PICK t, v, w : t = txs[h][k] /\ v = UnspentBefore(h, k) /\ w = UnspentBefore(h, k - 1)
  OBVIOUS
<1>2. /\ n \in Nat /\ \A j \in Nat : FirstTxs(h, j + 1) = FirstTxs(h, j) \cup {txs[h][j + 1]}
  BY FirstTxsFacts DEF FilesOK, TxsTyped
<1>3. k - 1 \in Nat /\ k - 1 + 1 = k /\ k - 1 \in 0..n
  BY <1>2
<1>4. Touched(h, k) = Touched(h, k - 1) \cup {t} \cup Spent(t)
  <2>1. FirstTxs(h, k) = FirstTxs(h, k - 1) \cup {t}
    BY <1>1, <1>2, <1>3
  <2> QED
    BY <2>1 DEF Touched
<1>5. Processed(v, w, t, Len(BranchTo[h]) - 1)
  <2>1. v = ProcessUTXO(w, t, Len(BranchTo[h]) - 1)
    BY <1>1, <1>2, BeforeInTurn DEF SteppedBefore, Inv
  <2> QED
    BY <2>1, ProcessEffect
<1>6. t \notin DOMAIN w /\ t \notin Spent(t)
  <2>1. Fits(t, DOMAIN w, MadeBefore(h, k - 1)) /\ Sound(DOMAIN w, MadeBefore(h, k - 1))
    BY <1>1, <1>3, FilesSound DEF Legal, SoundBefore, Inv
  <2> QED
    BY <2>1 DEF Fits, Sound, Spent
<1>7. ASSUME NEW x \in Spent(t)
      PROVE  /\ x \in DOMAIN w
             /\ \/ found = w[x]
                \/ found > w[x] /\ found \in HeightsWith(x)
  <2>1. ~IsReward(txs[h][k]) /\ x = Source(txs[h][k])
    BY <1>1, <1>7 DEF Spent
  <2>2. FoundHeight(h, Source(txs[h][k]), found)
    BY <2>1
  <2> QED
    BY <1>1, <2>1, <2>2, HeightsFound
<1>8. ASSUME NEW x, x \notin D \cup Touched(h, k - 1) PROVE SameOutput(after, w, x)
  <2>1. CASE x = t
    BY <1>1, <1>6, <2>1 DEF SameOutput, Undone
  <2>2. CASE x \in Spent(t)
    <3>1. x \in DOMAIN after /\ after[x] = found
      BY <1>1, <2>2 DEF Undone
    <3> QED
      BY <1>7, <2>2, <3>1 DEF SameOutput
  <2>3. CASE x # t /\ x \notin Spent(t)
    <3>1. SameOutput(u, v, x)
      BY <1>1, <1>4, <1>8, <2>3 DEF SameBut
    <3>2. /\ x \in DOMAIN after <=> x \in DOMAIN u
          /\ x \in DOMAIN after => after[x] = u[x]
      BY <1>1, <2>3 DEF Undone
    <3>3. /\ x \in DOMAIN v <=> x \in DOMAIN w
          /\ x \in DOMAIN v => v[x] = w[x]
      BY <1>5, <2>3 DEF Processed
    <3> QED
      BY <3>1, <3>2, <3>3 DEF SameOutput
  <2> QED
    BY <2>1, <2>2, <2>3
<1> QED
  BY <1>1, <1>8 DEF SameBut

\* The tip is undone: the index is the same as that of its parent.
LEMMA SameBlockUndone ==
  ASSUME Inv, FilesOK, NEW h \in 1..Len(file), NEW u, NEW D, NEW heightOf,
         SameBut(u, Unspent[h], D \cup Touched(h, Len(txs[h]))),
         \A t \in Range(txs[h]) : ~IsReward(t) => FoundHeight(h, Source(t), heightOf[t])
  PROVE  SameBut(UndoBlockTxs(u, txs[h], heightOf), Unspent[file[h].previous], D)
<1> DEFINE n == Len(txs[h])
           down(k) == UndoDownTo(u, txs[h], heightOf, k)
           S == {k \in 0..n : SameBut(down(k), UnspentBefore(h, k), D \cup Touched(h, k))}
<1>1. n \in Nat /\ FirstTxs(h, 0) = {} /\ FirstTxs(h, n) = Range(txs[h])
  BY FirstTxsFacts DEF FilesOK, TxsTyped
<1>2. SteppedBefore(h)
  BY <1>1, BeforeInTurn DEF Inv
<1>3. UndoneInTurn(u, txs[h], heightOf)
  BY <1>1, UndoSteps
<1>4. n \in S
  <2>1. down(n) = u /\ UnspentBefore(h, n) = Unspent[h]
    BY <1>2, <1>3 DEF SteppedBefore, UndoneInTurn
  <2>2. SameBut(down(n), UnspentBefore(h, n), D \cup Touched(h, n))
    BY <2>1
  <2>3. n \in 0..n
    BY <1>1
  <2> QED
    BY <2>2, <2>3, Zenon
<1>5. ASSUME NEW k \in 1..n, k \in S PROVE k - 1 \in S
  <2>1. k - 1 \in 0..n
    BY <1>1
  <2>2. PICK t, uk, after : t = txs[h][k] /\ uk = down(k) /\ after = down(k - 1)
    OBVIOUS
  <2>3. after = UndoUTXO(uk, t, heightOf[t])
    BY <1>3, <2>2 DEF UndoneInTurn
  <2>4. Undone(after, uk, t, heightOf[t])
    BY <2>3, UndoneEffect
  <2>5. SameBut(uk, UnspentBefore(h, k), D \cup Touched(h, k))
    BY <1>5, <2>2
  <2>6. t \in Range(txs[h])
    BY <1>1, <2>2 DEF FirstTxs
  <2>7. ~IsReward(t) => FoundHeight(h, Source(t), heightOf[t])
    BY <2>6
  <2>8. SameBut(after, UnspentBefore(h, k - 1), D \cup Touched(h, k - 1))
    BY <2>2, <2>4, <2>5, <2>7, SameUndone
  <2> QED
    BY <2>1, <2>2, <2>8
<1>6. 0 \in S
  <2> HIDE DEF S, n
  <2> QED
    BY <1>1, <1>4, <1>5, Downwards
<1>7. SameBut(down(0), UnspentBefore(h, 0), D \cup Touched(h, 0))
  BY <1>6
<1>8. D \cup Touched(h, 0) = D /\ UnspentBefore(h, 0) = Unspent[file[h].previous]
  BY <1>1, <1>2 DEF Touched, SteppedBefore
<1> QED
  BY <1>7, <1>8 DEF UndoBlockTxs

-----------------------------------------------------------------------------
(* The index and the main chain.                                           *)

\* The outputs that missed blocks of the branch of block h make or spend.
MissedOn(h) == UNION {Touched(b, Len(txs[b])) : b \in missed \cap Range(BranchTo[h])}

\* The index u is that of the chain up to block h, but for missed blocks.
Follows(u, h) == SameBut(u, Unspent[h], MissedOn(h))

\* What LevelDB has follows the chain that a restore finds.
FollowsBest == \E h \in 0..Len(dbBlocks) : TipIs(h, Len(dbBlocks)) /\ Follows(utxo, h)

\* The index of LevelDB follows the chain in memory whenever other threads can
\* see it, and the batch follows it while a block is imported: it has the
\* transactions of the new block when they are processed along the way.
BatchUtxoOK ==
  /\ LockFree => Follows(utxo, TipOf(currentChain))
  /\ Importing /\ processUTXO =>
       /\ pc \in {"process", "redo"} /\ toAppend = <<>>
       /\ ExtendsTip(blockInfo) /\ TipOf(currentChain) = blockInfo.previous
       /\ Follows(utxo, blockInfo.previous)
       /\ batchUtxo = ProcessFirst(utxo, txs[hash], blockInfo.height, next)
  /\ Importing /\ ~processUTXO => Follows(batchUtxo, TipOf(currentChain))

\* Up to the end of the first restart, the restore finds the chain that the
\* index follows; from a second one on, nothing is known.
UnspentOK ==
  /\ \/ starts = 0
     \/ starts = 1 /\ pc \in {"restore", "rebuild"}
     => FollowsBest
  /\ starts < 2 => BatchUtxoOK

LEMMA SameButMore ==
  ASSUME NEW u, NEW v, NEW D, NEW E, SameBut(u, v, D), D \subseteq E
  PROVE  SameBut(u, v, E)
  BY DEF SameBut

LEMMA BranchBlocks ==
  ASSUME TypeOK, FileOrdered, NEW h \in 0..Len(file)
  PROVE  Range(BranchTo[h]) \subseteq 1..Len(file)
<1>1. DOMAIN Path[h] = 1..Len(Path[h])
  BY PathTypes, LenProperties
<1>2. \A i \in 1..Len(Path[h]) : Path[h][i] \in 1..Len(file)
  BY PathElements
<1> QED
  BY <1>1, <1>2, BranchIsPath DEF Range

\* What follows a block goes on to do so when bitcoind writes or a batch is
\* written, as long as no missed block of the branch is forgotten.
LEMMA SameButKept ==
  ASSUME Inv, Inv', FilesGrow, NEW h \in 0..Len(file), NEW u, NEW D,
         SameBut(u, Unspent[h], D),
         \A x \in D : \/ x \in MissedOn(h) /\ missed \cap Range(BranchTo[h]) \subseteq missed'
                      \/ x \in MissedOn(h)',
         Len(dbBlocks) <= Len(dbBlocks')
  PROVE  Follows(u, h)'
<1> DEFINE n == Len(dbBlocks)
<1>1. /\ Len(file) \in Nat /\ n \in Nat /\ Len(dbBlocks') \in Nat /\ n <= Len(file)
      /\ Range(BranchTo[h]) \subseteq 1..Len(file)
  <2>1. Len(dbBlocks') \in Nat
    BY LenProperties DEF Inv, TypeOK
  <2> QED
    BY <2>1, TipLengths, BranchBlocks DEF Inv
<1>2. ASSUME NEW b \in 1..Len(file)
      PROVE  Touched(b, Len(txs[b]))' = Touched(b, Len(txs[b]))
  <2>1. txs'[b] = txs[b]
    BY DEF FilesGrow
  <2> QED
    BY <2>1 DEF Touched, FirstTxs
<1>3. ASSUME NEW x, x \in MissedOn(h), missed \cap Range(BranchTo[h]) \subseteq missed'
      PROVE  x \in MissedOn(h)'
  <2>1. PICK b \in missed \cap Range(BranchTo[h]) : x \in Touched(b, Len(txs[b]))
    BY <1>3 DEF MissedOn
  <2>2. b \in missed' /\ b \in Range(BranchTo'[h]) /\ b \in 1..Len(file)
    BY <1>1, <1>3, <2>1 DEF FilesGrow
  <2>3. x \in Touched(b, Len(txs[b]))'
    BY <1>2, <2>1, <2>2
  <2> QED
    BY <2>2, <2>3 DEF MissedOn
<1>4. ASSUME NEW x, NEW f, f \in HeightsWith(x) PROVE f \in HeightsWith(x)'
  <2>1. PICK c \in 1..n : x \in Range(txs[c]) /\ f = Len(BranchTo[c]) - 1
    BY <1>4 DEF HeightsWith
  <2>2. c \in 1..Len(dbBlocks') /\ c \in 1..Len(file) /\ c \in 0..Len(file)
    BY <1>1
  <2>3. x \in Range(txs'[c]) /\ f = Len(BranchTo'[c]) - 1
    BY <2>1, <2>2 DEF FilesGrow
  <2> QED
    BY <2>2, <2>3 DEF HeightsWith
<1>5. PICK v : v = Unspent[h]
  OBVIOUS
<1>6. Unspent'[h] = v
  BY <1>5 DEF FilesGrow
<1>7. ASSUME NEW x, x \notin MissedOn(h)' PROVE SameOutput(u, v, x)'
  <2>1. SameOutput(u, v, x)
    <3>1. x \notin D
      BY <1>3, <1>7
    <3> QED
      BY <1>5, <3>1 DEF SameBut
  <2> QED
    BY <1>4, <2>1 DEF SameOutput
<1>8. SameBut(u, v, MissedOn(h))'
  BY <1>7 DEF SameBut
<1> QED
  BY <1>6, <1>8 DEF Follows

LEMMA FollowsKept ==
  ASSUME Inv, Inv', FilesGrow, NEW h \in 0..Len(file), NEW u, Follows(u, h),
         missed \cap Range(BranchTo[h]) \subseteq missed',
         Len(dbBlocks) <= Len(dbBlocks')
  PROVE  Follows(u, h)'
<1>1. PICK D : D = MissedOn(h)
  OBVIOUS
<1>2. SameBut(u, Unspent[h], D)
  BY <1>1 DEF Follows
<1> QED
  BY <1>1, <1>2, SameButKept

\* Where the main chain in memory ends.
LEMMA TipPlace ==
  ASSUME Inv, pc # "rebuild"
  PROVE  /\ TipOf(currentChain) \in 0..Len(dbBlocks) /\ TipOf(currentChain) \in 0..Len(file)
         /\ currentChain = BranchTo[TipOf(currentChain)]
         /\ DOMAIN blocks \subseteq 1..Len(dbBlocks)
<1>1. /\ TipOf(currentChain) \in DOMAIN blocks \cup {Null}
      /\ currentChain = Path[TipOf(currentChain)]
  BY ChainIsPath DEF Inv, ChainOK
<1>2. DOMAIN blocks \subseteq 1..Len(dbBlocks) /\ Len(dbBlocks) \in Nat /\ Len(dbBlocks) <= Len(file)
      /\ Len(file) \in Nat
  BY TreeFacts, TipLengths DEF Inv
<1>3. TipOf(currentChain) \in 0..Len(dbBlocks)
  BY <1>1, <1>2 DEF Null
<1>4. TipOf(currentChain) \in 0..Len(file)
  BY <1>2, <1>3
<1> QED
  BY <1>1, <1>2, <1>3, <1>4, BranchIsPath

\* LevelDB goes on to follow the chain that a restore finds.
LEMMA BestKept ==
  ASSUME Inv, Inv', FilesGrow, file' = file \/ BlockArrives, FollowsBest,
         UNCHANGED <<utxo, missed, dbBlocks>>
  PROVE  FollowsBest'
<1>1. PICK h \in 0..Len(dbBlocks) : TipIs(h, Len(dbBlocks)) /\ Follows(utxo, h)
  BY DEF FollowsBest
<1>2. PICK u, n : u = utxo /\ n = Len(dbBlocks)
  OBVIOUS
<1>3. n \in Nat /\ n <= Len(file) /\ h \in 0..Len(file) /\ n = Len(dbBlocks') /\ u = utxo'
  BY <1>2, TipLengths
<1>4. TipIs(h, n)'
  BY <1>1, <1>2, <1>3, TipIsKept DEF Inv
<1>5. Follows(u, h)'
  BY <1>1, <1>2, <1>3, FollowsKept
<1>6. TipIs(h, Len(dbBlocks))' /\ Follows(utxo, h)'
  <2>1. TipIs(h, Len(dbBlocks))'
    BY <1>3, <1>4 DEF TipIs, FirstHeaviest
  <2>2. Follows(utxo, h)'
    BY <1>3, <1>5 DEF Follows
  <2> QED
    BY <2>1, <2>2
<1> QED
  BY <1>1, <1>6 DEF FollowsBest

\* A step that changes neither the index nor the batch nor the tip.
LEMMA UnspentSame ==
  ASSUME Inv, Inv', FilesGrow, file' = file \/ BlockArrives, UnspentOK,
         UNCHANGED <<utxo, missed, dbBlocks, starts>>,
         pc' \in {"restore", "rebuild"} => pc \in {"restore", "rebuild"},
         LockFree' => LockFree,
         LockFree' \/ Importing' => TipOf(currentChain') = TipOf(currentChain),
         Importing' => Importing /\ UNCHANGED <<batchUtxo, processUTXO, next, hash,
                                                blockInfo, longestBlock>>,
         starts < 2 /\ Importing' /\ processUTXO =>
           pc' \in {"process", "redo"} /\ toAppend' = toAppend
  PROVE  UnspentOK'
<1>1. starts < 2 => BatchUtxoOK'
  <2> SUFFICES ASSUME starts < 2 PROVE BatchUtxoOK'
    OBVIOUS
  <2>1. BatchUtxoOK
    BY DEF UnspentOK
  <2>2. PICK u, w, tip : u = utxo /\ w = batchUtxo /\ tip = TipOf(currentChain)
    OBVIOUS
  <2>3. LockFree \/ Importing => tip \in 0..Len(file)
    BY <2>2, TipPlace DEF LockFree, Importing
  <2>4. Len(dbBlocks) <= Len(dbBlocks')
    BY TipLengths
  <2>5. ASSUME NEW x, LockFree \/ Importing, Follows(x, tip) PROVE Follows(x, tip)'
    BY <2>3, <2>4, <2>5, FollowsKept
  <2>6. LockFree' => Follows(utxo, TipOf(currentChain))'
    <3> SUFFICES ASSUME LockFree' PROVE Follows(utxo, TipOf(currentChain))'
      OBVIOUS
    <3>1. Follows(u, tip)'
      BY <2>1, <2>2, <2>5 DEF BatchUtxoOK
    <3>2. utxo' = u /\ TipOf(currentChain') = tip
      BY <2>2
    <3> QED
      BY <3>1, <3>2 DEF Follows
  <2>7. Importing' /\ ~processUTXO' => Follows(batchUtxo, TipOf(currentChain))'
    <3> SUFFICES ASSUME Importing', ~processUTXO' PROVE Follows(batchUtxo, TipOf(currentChain))'
      OBVIOUS
    <3>1. Follows(w, tip)'
      BY <2>1, <2>2, <2>5 DEF BatchUtxoOK
    <3>2. batchUtxo' = w /\ TipOf(currentChain') = tip
      BY <2>2
    <3> QED
      BY <3>1, <3>2 DEF Follows
  <2>8. ASSUME Importing', processUTXO'
        PROVE  /\ pc' \in {"process", "redo"} /\ toAppend' = <<>>
               /\ ExtendsTip(blockInfo)' /\ TipOf(currentChain') = blockInfo'.previous
               /\ Follows(utxo, blockInfo.previous)'
               /\ batchUtxo' = ProcessFirst(utxo', txs'[hash'], blockInfo'.height, next')
    <3>1. /\ Importing /\ processUTXO /\ toAppend = <<>> /\ ExtendsTip(blockInfo)
          /\ tip = blockInfo.previous /\ Follows(u, tip)
          /\ batchUtxo = ProcessFirst(utxo, txs[hash], blockInfo.height, next)
      BY <2>1, <2>2, <2>8 DEF BatchUtxoOK
    <3>2. Follows(u, tip)'
      BY <2>5, <3>1
    <3>3. Follows(utxo, blockInfo.previous)'
      <4>1. utxo' = u /\ blockInfo'.previous = tip
        BY <2>2, <2>8, <3>1
      <4> QED
        BY <3>2, <4>1 DEF Follows
    <3>4. txs'[hash'] = txs[hash]
      BY <2>8, <3>1, ReadFacts DEF FilesGrow
    <3>5. ExtendsTip(blockInfo)' /\ TipOf(currentChain') = blockInfo'.previous
      BY <2>2, <2>8, <3>1 DEF ExtendsTip
    <3>6. pc' \in {"process", "redo"} /\ toAppend' = <<>>
      BY <2>8, <3>1
    <3> QED
      BY <2>8, <3>1, <3>3, <3>4, <3>5, <3>6
  <2> QED
    BY <2>6, <2>7, <2>8 DEF BatchUtxoOK
<1>2. \/ starts' = 0
      \/ starts' = 1 /\ pc' \in {"restore", "rebuild"}
      => FollowsBest'
  BY BestKept DEF UnspentOK
<1> QED
  BY <1>1, <1>2 DEF UnspentOK

\* What is known of an indexed block: its height, and its transactions.
LEMMA BlockKnown ==
  ASSUME Inv, LinksOK, NEW b \in DOMAIN blocks
  PROVE  /\ b \in 1..Len(dbBlocks) /\ b \in 1..Len(file)
         /\ blocks[b].height = Len(BranchTo[b]) - 1
         /\ blocks[b].previous = file[b].previous
         /\ TransactionsOf(b) = txs[b]
<1> DEFINE n == Len(dbBlocks)
<1>1. n \in Nat /\ n <= Len(txs) /\ n <= Len(file) /\ Len(file) \in Nat
  BY TipLengths, NewBlock
<1>2. b \in 1..n
  BY TreeFacts DEF Inv
<1>3. /\ blocks[b].index = b - 1 /\ blocks[b].previous = file[b].previous
      /\ blocks[b].height = dbBlocks[b].height
  BY DEF Inv, TreeOK
<1>4. blocks[b].height = Len(BranchTo[b]) - 1
  BY <1>2, <1>3, HeightIsLength, BranchIsPath
<1>5. dbTransactions[b] = txs[b]
  <2>1. txs \in Seq(Seq(Tx)) /\ dbTransactions = SubSeq(txs, 1, n)
    BY DEF LinksOK, TxsTyped, TransactionBlocks
  <2>2. \A i \in 1..n : txs[i] \in Seq(Tx)
    BY <1>1, <2>1, ElementOfSeq
  <2>3. dbTransactions \in Seq(Seq(Tx))
    BY <1>1, <2>1, <2>2, SubSeqProperties
  <2> QED
    BY <1>1, <1>2, <2>1, <2>3, PrefixIs
<1>6. blocks[b].index + 1 = b
  BY <1>2, <1>3
<1> QED
  BY <1>1, <1>2, <1>3, <1>4, <1>5, <1>6 DEF TransactionsOf

\* What UndoUTXO finds for the output that a transaction of the tip spends.
LEMMA FoundForTip ==
  ASSUME Inv, LinksOK, FilesOK, pc # "rebuild", NEW b \in 1..Len(file), b = TipOf(currentChain),
         NEW t \in Range(txs[b]), ~IsReward(t), NEW f \in HeightsOfSource(t)
  PROVE  FoundHeight(b, Source(t), f)
<1> DEFINE n == Len(dbBlocks)
<1>1. PICK s : s = Source(t)
  OBVIOUS
<1>2. PICK a \in Range(BranchTo[b]) : s \in Range(txs[a])
  <2>1. Sound(DOMAIN Unspent[b], TxsTo(b)) /\ t \in TxsTo(b)
    <3>1. b \in 0..Len(file)
      OBVIOUS
    <3>2. t \in TxsTo(b)
      BY BranchFacts DEF Inv
    <3> QED
      BY <3>1, <3>2, FilesSound DEF Inv, SoundTo
  <2>2. s \in TxsTo(b)
    BY <1>1, <2>1 DEF Sound
  <2> QED
    BY <2>2 DEF TxsTo
<1>3. /\ currentChain = BranchTo[b] /\ DOMAIN blocks \subseteq 1..n
      /\ n \in Nat /\ n <= Len(file)
  BY TipPlace, TipLengths
<1>4. a \in 1..n
  <2>1. a \in Range(currentChain)
    BY <1>2, <1>3
  <2>2. PICK i \in 1..Len(currentChain) : a = currentChain[i]
    <3>1. DOMAIN currentChain = 1..Len(currentChain)
      BY LenProperties DEF Inv, TypeOK
    <3> QED
      BY <2>1, <3>1 DEF Range
  <2>3. currentChain[i] \in DOMAIN blocks
    <3>1. i \in (0 + 1)..Len(currentChain)
      BY <2>2
    <3> QED
      BY <3>1 DEF Inv, ChainOK, PathAbove
  <2> QED
    BY <1>3, <2>2, <2>3
<1>5. dbTxBlocks[s] = IndicesWith(s, n)
  BY <1>2, <1>4 DEF LinksOK, TransactionBlocks, IndicesWith
<1>6. PICK c \in BlocksFound(s) : f = blocks[c].height
  BY <1>1 DEF HeightsOfSource
<1>7. PICK i \in dbTxBlocks[s] : c = blockIds[i + 1]
  BY <1>6 DEF BlocksFound
<1>8. PICK e \in 1..n : i = e - 1 /\ s \in Range(txs[e])
  BY <1>5, <1>7 DEF IndicesWith
<1>9. blockIds[e] = e /\ e \in DOMAIN blocks
  <2>1. n <= Len(blockIds) /\ Len(blockIds) \in Nat /\ DOMAIN blocks = 1..n
    <3>1. /\ InCommit \/ pc \in {"idle", "process"} => n <= Len(blockIds) /\ DOMAIN blocks = 1..n
          /\ Len(blockIds) \in Nat
      BY <1>3, Lengths DEF Inv, Progress, TreeOK, InCommit
    <3>2. CASE pc \in {"down", "restore"}
      <4>1. currentChain = <<>>
        BY <3>2 DEF Inv, ChainOK
      <4>2. TipOf(currentChain) = Null
        BY <4>1 DEF TipOf
      <4> QED
        BY <4>2 DEF Null
    <3> QED
      BY <3>1, <3>2 DEF Inv, TypeOK, InCommit
  <2> QED
    BY <2>1 DEF Inv, TreeOK
<1>10. c = e
  <2>1. i + 1 = e
    BY <1>8
  <2> QED
    BY <1>7, <1>9, <2>1
<1>11. f = Len(BranchTo[c]) - 1 /\ Len(BranchTo[c]) \in Nat \ {0}
  <2>1. blocks[c].height = Len(BranchTo[c]) - 1
    BY <1>9, <1>10, BlockKnown
  <2> QED
    BY <1>6, <1>8, <1>10, <2>1, HeightIsLength, BranchIsPath
<1>12. f \in HeightsWith(s)
  BY <1>8, <1>10, <1>11 DEF HeightsWith
<1>13. f < Len(BranchTo[b]) => c \in Range(BranchTo[b])
  <2> SUFFICES ASSUME f < Len(BranchTo[b]) PROVE c \in Range(BranchTo[b])
    OBVIOUS
  <2>1. currentChain[f + 1] = c
    BY <1>3, <1>6 DEF BlocksFound
  <2>2. f + 1 \in 1..Len(currentChain) /\ DOMAIN currentChain = 1..Len(currentChain)
    BY <1>3, <1>11, LenProperties, SMTT(30) DEF Inv, TypeOK
  <2> QED
    BY <1>3, <2>1, <2>2 DEF Range
<1> QED
  BY <1>1, <1>8, <1>10, <1>11, <1>12, <1>13 DEF FoundHeight

\* A block leaves the main chain: so do its transactions, from the last one.
LEMMA UnspentUndo ==
  ASSUME Inv, Inv', LinksOK, FilesOK, FilesGrow, UnspentOK, UndoTransactions
  PROVE  UnspentOK'
<1>1. /\ pc = "undo" /\ pc' = "undo" /\ Len(currentChain) > height
      /\ currentChain' = AllButLast(currentChain)
      /\ UNCHANGED <<file, utxo, missed, dbBlocks, starts, processUTXO, blocks>>
  BY DEF UndoTransactions, UndoBlock, dbTxVars, dbVars
<1>2. \/ starts' = 0
      \/ starts' = 1 /\ pc' \in {"restore", "rebuild"}
      => FollowsBest'
  BY <1>1, BestKept DEF UnspentOK
<1>3. starts < 2 => BatchUtxoOK'
  <2> SUFFICES ASSUME starts < 2 PROVE BatchUtxoOK'
    OBVIOUS
  <2>1. ~processUTXO /\ Follows(batchUtxo, TipOf(currentChain))
    BY <1>1 DEF UnspentOK, BatchUtxoOK, Importing
  <2>2. PICK b, len, u : b = TipOf(currentChain) /\ len = Len(currentChain) /\ u = batchUtxo
    OBVIOUS
  <2>3. len \in Nat /\ len > 0 /\ currentChain \in Seq(Hash \cup {Null}) /\ currentChain # <<>>
    <3>1. len \in Nat /\ height \in Nat /\ currentChain \in Seq(Hash \cup {Null})
      BY <2>2, Lengths DEF Inv, TypeOK
    <3>2. len > 0
      BY <1>1, <2>2, <3>1
    <3> QED
      BY <2>2, <3>1, <3>2
  <2>4. /\ b = currentChain[len] /\ b \in DOMAIN blocks
        /\ blocks[b].previous = IF len = 1 THEN Null ELSE currentChain[len - 1]
    <3>1. b = currentChain[len]
      BY <2>2, <2>3 DEF TipOf
    <3>2. PathAbove(currentChain, 0, Null)
      BY <1>1 DEF Inv, ChainOK
    <3>3. len \in (0 + 1)..Len(currentChain) /\ (len = 0 + 1 <=> len = 1)
      BY <2>2, <2>3
    <3> QED
      BY <3>1, <3>2, <3>3 DEF PathAbove
  <2>5. /\ b \in 1..Len(file) /\ file[b].previous = blocks[b].previous
        /\ TransactionsOf(b) = txs[b]
    BY <2>4, BlockKnown
  <2>6. PICK p : p = file[b].previous
    OBVIOUS
  <2>7. /\ p \in 0..Len(file) /\ Range(BranchTo[b]) = Range(BranchTo[p]) \cup {b}
    BY <2>5, <2>6, BranchFacts DEF Inv
  <2>8. TipOf(currentChain') = p
    <3>1. /\ Len(currentChain') = len - 1
          /\ \A i \in 1..(len - 1) : currentChain'[i] = currentChain[i]
      BY <1>1, <2>2, <2>3, AllButLastFacts
    <3>2. currentChain' \in Seq(Hash \cup {Null})
      BY DEF Inv, TypeOK
    <3>3. CASE len = 1
      <4>1. currentChain' = <<>>
        BY <3>1, <3>2, <3>3
      <4> QED
        BY <2>4, <2>5, <2>6, <3>3, <4>1 DEF TipOf
    <3>4. CASE len # 1
      <4>1. len - 1 \in 1..(len - 1) /\ currentChain' # <<>>
        BY <2>3, <3>1, <3>4
      <4> QED
        BY <2>4, <2>5, <2>6, <3>1, <3>4, <4>1 DEF TipOf
    <3> QED
      BY <3>3, <3>4
  <2>9. PICK heightOf : /\ \A t \in Range(txs[b]) : heightOf[t] \in HeightsOfSource(t)
                        /\ batchUtxo' = UndoBlockTxs(u, txs[b], heightOf)
    <3>1. TransactionsOf(currentChain[Len(currentChain)]) = txs[b]
      BY <2>2, <2>4, <2>5
    <3> QED
      BY <2>2, <3>1 DEF UndoTransactions
  <2>10. ASSUME NEW t \in Range(txs[b]), ~IsReward(t)
         PROVE  FoundHeight(b, Source(t), heightOf[t])
    BY <1>1, <2>2, <2>5, <2>9, <2>10, FoundForTip
  <2>11. SameBut(u, Unspent[b], MissedOn(p) \cup Touched(b, Len(txs[b])))
    <3>1. MissedOn(b) \subseteq MissedOn(p) \cup Touched(b, Len(txs[b]))
      BY <2>7 DEF MissedOn
    <3> QED
      BY <2>1, <2>2, <3>1, SameButMore DEF Follows
  <2>12. PICK after, D : after = batchUtxo' /\ D = MissedOn(p)
    OBVIOUS
  <2>13. SameBut(after, Unspent[p], D)
    BY <2>5, <2>6, <2>9, <2>10, <2>11, <2>12, SameBlockUndone
  <2>14. Follows(after, p)'
    BY <1>1, <2>7, <2>12, <2>13, FollowsKept, TipLengths DEF Follows
  <2>15. Follows(batchUtxo, TipOf(currentChain))'
    BY <2>8, <2>12, <2>14 DEF Follows
  <2> QED
    BY <1>1, <2>1, <2>15 DEF BatchUtxoOK, LockFree
<1> QED
  BY <1>1, <1>2, <1>3 DEF UnspentOK

\* A block that is redone brings its transactions with it.
LEMMA UnspentRedo ==
  ASSUME Inv, Inv', LinksOK, FilesOK, FilesGrow, UnspentOK, RedoTransactions
  PROVE  UnspentOK'
<1>1. /\ pc = "redo" /\ pc' = "redo" /\ toAppend # <<>>
      /\ currentChain' = Append(currentChain, toAppend[Len(toAppend)])
      /\ UNCHANGED <<file, utxo, missed, dbBlocks, starts, processUTXO, blocks>>
      /\ batchUtxo' = ProcessBlock(batchUtxo, TransactionsOf(toAppend[Len(toAppend)]),
                                   blocks[toAppend[Len(toAppend)]].height)
  BY DEF RedoTransactions, RedoBlock, dbTxVars, dbVars
<1>2. \/ starts' = 0
      \/ starts' = 1 /\ pc' \in {"restore", "rebuild"}
      => FollowsBest'
  BY <1>1, BestKept DEF UnspentOK
<1>3. starts < 2 => BatchUtxoOK'
  <2> SUFFICES ASSUME starts < 2 PROVE BatchUtxoOK'
    OBVIOUS
  <2>1. ~processUTXO /\ Follows(batchUtxo, TipOf(currentChain))
    BY <1>1 DEF UnspentOK, BatchUtxoOK, Importing
  <2>2. PICK b, u, p : /\ b = toAppend[Len(toAppend)] /\ u = batchUtxo
                       /\ p = TipOf(currentChain)
    OBVIOUS
  <2>3. /\ Len(toAppend) \in Nat \ {0} /\ toAppend \in Seq(Hash)
    BY <1>1, RedoEffect DEF RedoTransactions, Inv, TypeOK
  <2>4. b \in DOMAIN blocks /\ blocks[b].previous = p
    <3>1. b \in DOMAIN blocks
      BY <2>2, <2>3 DEF Inv, ReorganiseOK
    <3>2. Lowest = blocks[b]
      BY <1>1, <2>2 DEF Lowest
    <3>3. Lowest.previous = p
      BY <1>1, <2>2 DEF Inv, ReorganiseOK
    <3> QED
      BY <3>1, <3>2, <3>3
  <2>5. /\ b \in 1..Len(file) /\ file[b].previous = p
        /\ TransactionsOf(b) = txs[b] /\ blocks[b].height = Len(BranchTo[b]) - 1
    BY <2>4, BlockKnown
  <2>6. TipOf(currentChain') = b
    <3>1. currentChain \in Seq(Hash \cup {Null}) /\ b \in Hash \cup {Null}
      <4>1. currentChain \in Seq(Hash \cup {Null})
        BY DEF Inv, TypeOK
      <4>2. Len(toAppend) \in 1..Len(toAppend)
        BY <2>3
      <4> QED
        BY <2>2, <2>3, <4>1, <4>2, ElementOfSeq
    <3>2. /\ Len(currentChain') = Len(currentChain) + 1 /\ Len(currentChain) \in Nat
          /\ currentChain'[Len(currentChain) + 1] = b
      BY <1>1, <2>2, <3>1, AppendProperties, LenProperties
    <3>3. currentChain' # <<>>
      BY <3>2
    <3> QED
      BY <3>2, <3>3 DEF TipOf
  <2>7. batchUtxo' = ProcessBlock(u, txs[b], Len(BranchTo[b]) - 1)
    BY <1>1, <2>2, <2>5
  <2>8. Unspent[b] = ProcessBlock(Unspent[p], txs[b], Len(BranchTo[b]) - 1)
    BY <2>5, UnspentNow DEF UnspentHolds, UnspentStep, Inv
  <2>9. SameBut(u, Unspent[p], MissedOn(p))
    BY <2>1, <2>2 DEF Follows
  <2>10. Len(txs[b]) \in Nat
    BY <2>5, FirstTxsFacts DEF FilesOK, TxsTyped
  <2>11. PICK after, v, w : after = batchUtxo' /\ v = Unspent[p] /\ w = Unspent[b]
    OBVIOUS
  <2>12. SameBut(after, w, MissedOn(p))
    BY <2>7, <2>8, <2>9, <2>10, <2>11, SameBlockProcessed
  <2>13. MissedOn(p) \subseteq MissedOn(b)
    <3>1. Range(BranchTo[b]) = Range(BranchTo[p]) \cup {b}
      BY <2>5, BranchFacts DEF Inv
    <3> QED
      BY <3>1 DEF MissedOn
  <2>14. Follows(after, b)
    BY <2>11, <2>12, <2>13, SameButMore DEF Follows
  <2>15. b \in 0..Len(file) /\ Len(dbBlocks) <= Len(dbBlocks')
    BY <1>1, <2>5, TipLengths
  <2>16. Follows(after, b)'
    BY <1>1, <2>14, <2>15, FollowsKept
  <2>17. Follows(batchUtxo, TipOf(currentChain))'
    BY <2>6, <2>11, <2>16 DEF Follows
  <2> QED
    BY <1>1, <2>1, <2>17 DEF BatchUtxoOK, LockFree
<1> QED
  BY <1>1, <1>2, <1>3 DEF UnspentOK

\* A new block is read: the batch is the index of LevelDB.
LEMMA UnspentRead ==
  ASSUME Inv, Inv', LinksOK, LinksOK', FilesOK, FilesGrow, UnspentOK, ReadTransactions
  PROVE  UnspentOK'
<1>1. /\ pc = "idle" /\ pc' = "process" /\ next' = 0 /\ batchUtxo' = utxo
      /\ processUTXO' = ExtendsTip(blockInfo')
      /\ UNCHANGED <<file, currentChain, utxo, missed, dbBlocks, starts, longestBlock>>
  BY DEF ReadTransactions, ReadBlock, dbTxVars, dbVars, tipVars
<1>2. \/ starts' = 0
      \/ starts' = 1 /\ pc' \in {"restore", "rebuild"}
      => FollowsBest'
  BY <1>1, BestKept DEF UnspentOK
<1>3. starts < 2 => BatchUtxoOK'
  <2> SUFFICES ASSUME starts < 2 PROVE BatchUtxoOK'
    OBVIOUS
  <2>1. PICK u, tip : u = utxo /\ tip = TipOf(currentChain)
    OBVIOUS
  <2>2. Follows(u, tip) /\ tip \in 0..Len(file) /\ tip \in 0..Len(dbBlocks)
    BY <1>1, <2>1, TipPlace DEF UnspentOK, BatchUtxoOK, LockFree
  <2>3. Follows(u, tip)'
    BY <1>1, <2>2, FollowsKept, TipLengths
  <2>4. utxo' = u /\ batchUtxo' = u /\ TipOf(currentChain') = tip
    BY <1>1, <2>1
  <2>5. Follows(utxo, TipOf(currentChain))' /\ Follows(batchUtxo, TipOf(currentChain))'
    BY <2>3, <2>4 DEF Follows
  <2>6. ASSUME processUTXO'
        PROVE  /\ toAppend' = <<>> /\ ExtendsTip(blockInfo)' /\ tip = blockInfo'.previous
               /\ batchUtxo' = ProcessFirst(utxo', txs'[hash'], blockInfo'.height, next')
    <3>1. toAppend' = <<>>
      BY <1>1 DEF Inv, ReorganiseOK, InCommit
    <3>2. ExtendsTip(blockInfo)' /\ blockInfo'.previous = longestBlock'
      BY <1>1, <2>6 DEF ExtendsTip
    <3>3. longestBlock' \in {Null, tip}
      BY <1>1, <2>4 DEF Inv, ChainOK
    <3>4. ASSUME longestBlock' = Null PROVE tip = blockInfo'.previous
      <4>1. blockInfo'.previous = file'[hash'].previous /\ hash' = Len(dbBlocks') + 1
            /\ hash' <= Len(file') /\ Len(dbBlocks) \in Nat /\ Len(file) \in Nat
        BY <1>1, TipLengths DEF Inv, ImportOK, Progress, Importing
      <4>2. hash' \in 1..Len(file')
        BY <1>1, <4>1
      <4>3. hash' = 1
        BY <3>2, <3>4, <4>1, <4>2 DEF Inv, FileOrdered
      <4>4. Len(dbBlocks) = 0
        BY <1>1, <4>1, <4>3
      <4> QED
        <5>1. tip = 0
          BY <2>2, <4>4
        <5>2. blockInfo'.previous = 0
          BY <3>2, <3>4 DEF Null
        <5> QED
          BY <5>1, <5>2
    <3>5. tip = blockInfo'.previous
      BY <3>2, <3>3, <3>4
    <3>6. Len(txs'[hash']) \in Nat
      <4>1. BatchOK' /\ TxsTyped'
        BY <1>1 DEF LinksOK, Importing
      <4>2. /\ hash' = Len(dbBlocks') + 1 /\ hash' <= Len(file')
            /\ Len(dbBlocks) \in Nat /\ Len(file) \in Nat
        BY <1>1, TipLengths DEF Inv, Progress, Importing
      <4>3. hash' \in 1..Len(txs')
        BY <1>1, <4>1, <4>2 DEF TxsTyped
      <4>4. txs'[hash'] \in Seq(Tx)
        BY <4>1, <4>3, ElementOfSeq DEF TxsTyped
      <4> QED
        BY <4>4, LenProperties
    <3>7. PICK list, h : list = txs'[hash'] /\ h = blockInfo'.height
      OBVIOUS
    <3>8. ProcessedInTurn(u, list, h)
      BY <3>6, <3>7, ProcessSteps
    <3>9. batchUtxo' = ProcessFirst(utxo', txs'[hash'], blockInfo'.height, next')
      BY <1>1, <2>1, <3>7, <3>8 DEF ProcessedInTurn
    <3> QED
      BY <3>1, <3>2, <3>5, <3>9
  <2>7. processUTXO' => Follows(utxo, blockInfo.previous)'
    <3> SUFFICES ASSUME processUTXO' PROVE Follows(utxo, blockInfo.previous)'
      OBVIOUS
    <3>1. blockInfo'.previous = tip /\ utxo' = u
      BY <2>4, <2>6
    <3> QED
      BY <2>3, <3>1 DEF Follows
  <2> QED
    BY <1>1, <2>4, <2>5, <2>6, <2>7 DEF BatchUtxoOK
<1> QED
  BY <1>1, <1>2, <1>3 DEF UnspentOK

\* A transaction of a block that extends the tip.
LEMMA UnspentProcess ==
  ASSUME Inv, Inv', LinksOK, FilesOK, FilesGrow, UnspentOK, ProcessTransaction
  PROVE  UnspentOK'
<1>1. /\ pc = "process" /\ next < Len(txs[hash]) /\ next' = next + 1
      /\ batchUtxo' = IF processUTXO
                      THEN ProcessUTXO(batchUtxo, txs[hash][next + 1], blockInfo.height)
                      ELSE batchUtxo
      /\ UNCHANGED <<file, txs, currentChain, utxo, missed, dbBlocks, starts, longestBlock, pc,
                     toAppend, hash, blockInfo, processUTXO>>
  BY DEF ProcessTransaction, vars, dbTxVars, dbVars, tipVars, memVars, walkVars, importVars
<1>2. \/ starts' = 0
      \/ starts' = 1 /\ pc' \in {"restore", "rebuild"}
      => FollowsBest'
  BY <1>1, BestKept DEF UnspentOK
<1>3. starts < 2 => BatchUtxoOK'
  <2> SUFFICES ASSUME starts < 2 PROVE BatchUtxoOK'
    OBVIOUS
  <2>1. BatchUtxoOK
    BY DEF UnspentOK
  <2>2. PICK u, w, tip : u = utxo /\ w = batchUtxo /\ tip = TipOf(currentChain)
    OBVIOUS
  <2>3. Follows(u, tip) /\ tip \in 0..Len(file)
    BY <1>1, <2>1, <2>2, TipPlace DEF BatchUtxoOK, LockFree
  <2>4. \A x : Follows(x, tip) => Follows(x, tip)'
    BY <1>1, <2>3, FollowsKept, TipLengths
  <2>5. Follows(utxo, TipOf(currentChain))'
    <3>1. utxo' = u /\ TipOf(currentChain') = tip
      BY <1>1, <2>2
    <3> QED
      BY <2>3, <2>4, <3>1 DEF Follows
  <2>6. CASE ~processUTXO
    <3>1. batchUtxo' = w /\ TipOf(currentChain') = tip /\ Follows(w, tip)
      BY <1>1, <2>1, <2>2, <2>6 DEF BatchUtxoOK, Importing
    <3>2. Follows(batchUtxo, TipOf(currentChain))'
      BY <2>4, <3>1 DEF Follows
    <3> QED
      BY <1>1, <2>5, <2>6, <3>2 DEF BatchUtxoOK
  <2>7. CASE processUTXO
    <3>1. /\ toAppend = <<>> /\ ExtendsTip(blockInfo) /\ tip = blockInfo.previous
          /\ batchUtxo = ProcessFirst(utxo, txs[hash], blockInfo.height, next)
      BY <1>1, <2>1, <2>2, <2>7 DEF BatchUtxoOK, Importing
    <3>2. Len(txs[hash]) \in Nat /\ next \in Nat
      <4>1. hash \in 1..Len(txs)
        BY <1>1, NewBlock DEF Importing
      <4> QED
        BY <4>1, FirstTxsFacts DEF LinksOK, TxsTyped
    <3>3. PICK list, h, k : list = txs[hash] /\ h = blockInfo.height /\ k = next + 1
      OBVIOUS
    <3>4. k \in 1..Len(list) /\ k - 1 = next
      BY <1>1, <3>2, <3>3
    <3>5. batchUtxo' = ProcessFirst(utxo, txs[hash], blockInfo.height, next + 1)
      <4>1. ProcessedInTurn(u, list, h)
        BY <3>2, <3>3, ProcessSteps
      <4>2. ProcessFirst(u, list, h, k) = ProcessUTXO(ProcessFirst(u, list, h, k - 1), list[k], h)
        BY <3>4, <4>1 DEF ProcessedInTurn
      <4>3. batchUtxo = ProcessFirst(u, list, h, k - 1)
        BY <2>2, <3>1, <3>3, <3>4
      <4>4. batchUtxo' = ProcessUTXO(batchUtxo, list[k], h)
        BY <1>1, <2>7, <3>3
      <4> QED
        BY <2>2, <3>3, <4>2, <4>3, <4>4
    <3>6. batchUtxo' = ProcessFirst(utxo', txs'[hash'], blockInfo'.height, next')
      BY <1>1, <3>5
    <3>7. Follows(utxo, blockInfo.previous)'
      <4>1. utxo' = u /\ blockInfo'.previous = tip
        BY <1>1, <2>2, <3>1
      <4> QED
        BY <2>3, <2>4, <4>1 DEF Follows
    <3>8. ExtendsTip(blockInfo)' /\ TipOf(currentChain') = blockInfo'.previous
      BY <1>1, <2>2, <3>1 DEF ExtendsTip
    <3> QED
      BY <1>1, <2>5, <2>7, <3>1, <3>6, <3>7, <3>8 DEF BatchUtxoOK
  <2> QED
    BY <2>6, <2>7
<1> QED
  BY <1>1, <1>2, <1>3 DEF UnspentOK

\* The batch is written: the index follows the new tip, or the block that
\* joined without its transactions is missed.
LEMMA WrittenBlock ==
  ASSUME Inv, Inv', LinksOK, WriteBatch
  PROVE  /\ pc = "redo" /\ pc' = "idle" /\ toAppend = <<>>
         /\ Importing /\ utxo' = batchUtxo /\ next = Len(txs[hash])
         /\ UNCHANGED <<file, txs, starts>>
         /\ missed' = (missed \cap Range(currentChain'))
                         \cup {b \in {hash} : blockInfo.longestChain /\ ~processUTXO}
         /\ currentChain' = IF blockInfo.longestChain THEN Append(currentChain, hash)
                                                      ELSE currentChain
         /\ TipOf(currentChain') = IF blockInfo.longestChain THEN hash ELSE TipOf(currentChain)
         /\ Range(currentChain') = IF blockInfo.longestChain THEN Range(currentChain) \cup {hash}
                                                             ELSE Range(currentChain)
         /\ hash \in 1..Len(file) /\ hash = Len(dbBlocks) + 1
         /\ blockInfo.previous = file[hash].previous
         /\ blockInfo.height = Len(BranchTo[hash]) - 1
         /\ Len(dbBlocks) <= Len(dbBlocks')
<1>1. /\ pc = "redo" /\ pc' = "idle" /\ toAppend = <<>>
      /\ Importing /\ InCommit /\ utxo' = batchUtxo
      /\ UNCHANGED <<file, txs, starts>>
      /\ missed' = (missed \cap Range(currentChain'))
                      \cup {b \in {hash} : blockInfo.longestChain /\ ~processUTXO}
      /\ currentChain' = IF blockInfo.longestChain THEN Append(currentChain, hash)
                                                   ELSE currentChain
      /\ blocks' = Insert(blocks, hash, blockInfo)
  BY DEF WriteBatch, Finish, Importing, InCommit
<1>2. /\ hash \in 1..Len(file) /\ hash = Len(dbBlocks) + 1 /\ Len(dbBlocks') = Len(dbBlocks) + 1
      /\ Len(dbBlocks) \in Nat /\ blocks'[hash] = blockInfo /\ hash \in DOMAIN blocks'
      /\ DOMAIN blocks' = 1..(Len(dbBlocks) + 1)
  BY FinishEffect DEF WriteBatch
<1>3. hash \in Hash \cup {Null} /\ currentChain \in Seq(Hash \cup {Null})
  BY DEF Inv, TypeOK
<1>4. TipOf(Append(currentChain, hash)) = hash
  <2>1. /\ Len(Append(currentChain, hash)) = Len(currentChain) + 1 /\ Len(currentChain) \in Nat
        /\ Append(currentChain, hash)[Len(currentChain) + 1] = hash
    BY <1>3, AppendProperties, LenProperties
  <2>2. Append(currentChain, hash) # <<>>
    BY <2>1
  <2> QED
    BY <2>1, <2>2 DEF TipOf
<1>5. Range(Append(currentChain, hash)) = Range(currentChain) \cup {hash}
  BY <1>3, RangeOfAppend
<1>6. blockInfo.previous = file[hash].previous
  BY <1>1 DEF Inv, ImportOK
<1>7. blockInfo.height = Len(BranchTo[hash]) - 1
  <2>1. PICK p : p = file[hash].previous
    OBVIOUS
  <2>2. /\ p \in 0..Len(file) /\ p < hash
        /\ Len(BranchTo[hash]) = Len(BranchTo[p]) + 1 /\ Len(BranchTo[p]) \in Nat
    BY <1>2, <2>1, BranchFacts DEF Inv
  <2>3. blockInfo.height = IF p = Null THEN 0 ELSE dbBlocks[p].height + 1
    BY <1>1, <2>1 DEF Inv, ImportOK
  <2>4. CASE p = Null
    <3>1. Len(BranchTo[p]) = 0
      BY <2>4, RecursionsHold, BranchIsPath DEF Inv, Recursions, Null
    <3> QED
      BY <2>2, <2>3, <2>4, <3>1
  <2>5. CASE p # Null
    <3>1. p \in 1..Len(dbBlocks)
      BY <1>2, <2>2, <2>5 DEF Null
    <3>2. dbBlocks[p].height = Len(BranchTo[p]) - 1
      BY <3>1, HeightIsLength, BranchIsPath
    <3> QED
      BY <2>2, <2>3, <2>5, <3>2
  <2> QED
    BY <2>4, <2>5
<1>8. next = Len(txs[hash])
  BY <1>1 DEF LinksOK
<1>9. /\ TipOf(currentChain') = IF blockInfo.longestChain THEN hash ELSE TipOf(currentChain)
      /\ Range(currentChain') = IF blockInfo.longestChain THEN Range(currentChain) \cup {hash}
                                                          ELSE Range(currentChain)
  BY <1>1, <1>4, <1>5, Zenon
<1>10. Len(dbBlocks) <= Len(dbBlocks')
  BY <1>2
<1> QED
  BY <1>1, <1>2, <1>6, <1>7, <1>8, <1>9, <1>10

LEMMA UnspentWrite ==
  ASSUME Inv, Inv', TipsOK', LinksOK, FilesOK, FilesGrow, UnspentOK, WriteBatch
  PROVE  UnspentOK'
<1>1. PICK w, tip, p : w = batchUtxo /\ tip = TipOf(currentChain') /\ p = TipOf(currentChain)
  OBVIOUS
<1>2. /\ pc = "redo" /\ pc' = "idle" /\ toAppend = <<>>
      /\ Importing /\ utxo' = w /\ next = Len(txs[hash])
      /\ UNCHANGED <<file, txs, starts>>
      /\ missed' = (missed \cap Range(currentChain'))
                      \cup {b \in {hash} : blockInfo.longestChain /\ ~processUTXO}
      /\ tip = IF blockInfo.longestChain THEN hash ELSE p
      /\ Range(currentChain') = IF blockInfo.longestChain THEN Range(currentChain) \cup {hash}
                                                          ELSE Range(currentChain)
      /\ hash \in 1..Len(file)
      /\ blockInfo.previous = file[hash].previous
      /\ blockInfo.height = Len(BranchTo[hash]) - 1
      /\ Len(dbBlocks) <= Len(dbBlocks')
  BY <1>1, WrittenBlock
<1>3. p \in 0..Len(file) /\ currentChain = BranchTo[p]
  BY <1>1, <1>2, TipPlace
<1>4. starts < 2 => Follows(w, tip)'
  <2> SUFFICES ASSUME starts < 2 PROVE Follows(w, tip)'
    OBVIOUS
  <2>1. /\ ~processUTXO => Follows(w, p)
        /\ processUTXO => /\ ExtendsTip(blockInfo) /\ p = blockInfo.previous
                          /\ Follows(utxo, blockInfo.previous)
                          /\ w = ProcessFirst(utxo, txs[hash], blockInfo.height, next)
    BY <1>1, <1>2 DEF UnspentOK, BatchUtxoOK
  <2>2. CASE ~blockInfo.longestChain
    <3>1. tip = p /\ Follows(w, p) /\ Range(currentChain') = Range(BranchTo[p])
      BY <1>2, <1>3, <2>1, <2>2 DEF ExtendsTip
    <3>2. missed \cap Range(BranchTo[p]) \subseteq missed'
      BY <1>2, <3>1
    <3> QED
      BY <1>2, <1>3, <3>1, <3>2, FollowsKept
  <2>3. CASE blockInfo.longestChain
    <3>1. tip = hash /\ blockInfo.previous = p
      <4>1. Lowest = blockInfo /\ Lowest.previous = TipOf(currentChain)
        BY <1>2, <2>3 DEF Inv, ReorganiseOK, Lowest
      <4> QED
        BY <1>1, <1>2, <2>3, <4>1
    <3>2. Range(BranchTo[hash]) = Range(BranchTo[p]) \cup {hash}
      BY <1>2, <3>1, BranchFacts DEF Inv
    <3>3. missed \cap Range(BranchTo[hash]) \subseteq missed' /\ MissedOn(p) \subseteq MissedOn(hash)
      BY <1>2, <1>3, <2>3, <3>2 DEF MissedOn
    <3>4. PICK h, u, v, new : /\ h = Len(BranchTo[hash]) - 1 /\ u = utxo
                              /\ v = Unspent[p] /\ new = Unspent[hash]
      OBVIOUS
    <3>5. new = ProcessBlock(v, txs[hash], h)
      BY <1>2, <3>1, <3>4, UnspentNow DEF UnspentHolds, UnspentStep, Inv
    <3>6. Len(txs[hash]) \in Nat /\ txs \in Seq(Seq(Tx)) /\ hash \in 1..Len(txs)
      BY <1>2, FirstTxsFacts DEF FilesOK, TxsTyped
    <3>7. hash \in 0..Len(file)
      BY <1>2
    <3>8. CASE processUTXO
      <4>1. w = ProcessBlock(u, txs[hash], h)
        BY <1>2, <2>1, <3>4, <3>8 DEF ProcessBlock
      <4>2. SameBut(u, v, MissedOn(p))
        BY <2>1, <3>1, <3>4, <3>8 DEF Follows
      <4>3. SameBut(w, new, MissedOn(p))
        BY <3>5, <3>6, <4>1, <4>2, SameBlockProcessed
      <4>4. Follows(w, hash)
        BY <3>3, <3>4, <4>3, SameButMore DEF Follows
      <4>5. Follows(w, tip)
        BY <3>1, <4>4
      <4> QED
        BY <1>2, <3>1, <3>3, <3>7, <4>5, FollowsKept
    <3>9. CASE ~processUTXO
      <4>1. SameBut(w, v, MissedOn(p))
        BY <2>1, <3>4, <3>9 DEF Follows
      <4>2. PICK b, D : b = hash /\ D = MissedOn(p) \cup Touched(b, Len(txs[b]))
        OBVIOUS
      <4>3. SameBut(w, new, D)
        BY <3>5, <3>6, <4>1, <4>2, UntouchedSame
      <4>4. SameBut(w, Unspent[b], D) /\ b = tip
        BY <3>1, <3>4, <4>2, <4>3
      <4>5. ASSUME NEW x \in D PROVE x \in MissedOn(b) \/ x \in MissedOn(b)'
        <5>1. CASE x \in MissedOn(p)
          BY <3>3, <4>2, <5>1
        <5>2. CASE x \in Touched(b, Len(txs[b]))
          <6>1. b \in missed'
            BY <1>2, <2>3, <3>9, <4>2
          <6>2. b \in Range(BranchTo'[b])
            BY <3>2, <3>7, <4>2 DEF FilesGrow
          <6>3. x \in Touched(b, Len(txs[b]))'
            BY <1>2, <5>2 DEF Touched, FirstTxs
          <6> QED
            BY <6>1, <6>2, <6>3 DEF MissedOn
        <5> QED
          BY <4>2, <5>1, <5>2
      <4>6. missed \cap Range(BranchTo[b]) \subseteq missed' /\ b \in 0..Len(file)
        BY <3>3, <3>7, <4>2
      <4>7. Follows(w, b)'
        BY <1>2, <4>4, <4>5, <4>6, SameButKept
      <4> QED
        BY <4>4, <4>7
    <3> QED
      BY <3>8, <3>9
  <2> QED
    BY <2>2, <2>3
<1>5. starts < 2 => Follows(utxo, TipOf(currentChain))'
  BY <1>1, <1>2, <1>4 DEF Follows
<1>6. starts' = 0 => FollowsBest'
  <2> SUFFICES ASSUME starts' = 0 PROVE FollowsBest'
    OBVIOUS
  <2>1. TipIs(tip, Len(dbBlocks))'
    <3>1. longestBlock' \in {Null, tip}
      BY <1>1, <1>2 DEF Inv, ChainOK
    <3>2. CASE longestBlock' = Null
      <4>1. TipIs(TipOf(currentChain), Len(dbBlocks))'
        BY <1>2, <3>2 DEF TipsOK, LockFree
      <4> QED
        BY <1>1, <4>1 DEF TipIs, FirstHeaviest
    <3>3. CASE longestBlock' = tip
      <4>1. TipIs(longestBlock, Len(dbBlocks))'
        BY <1>2 DEF TipsOK, Running
      <4> QED
        BY <3>3, <4>1 DEF TipIs, FirstHeaviest
    <3> QED
      BY <3>1, <3>2, <3>3
  <2>2. Follows(utxo, tip)'
    BY <1>2, <1>4 DEF Follows
  <2>3. Len(dbBlocks') \in Nat
    BY LenProperties DEF Inv, TypeOK
  <2>4. tip \in 0..Len(dbBlocks')
    BY <2>1, <2>3 DEF TipIs, Null
  <2> QED
    BY <2>1, <2>2, <2>4 DEF FollowsBest
<1>7. starts < 2 => BatchUtxoOK'
  BY <1>2, <1>5 DEF BatchUtxoOK, Importing
<1> QED
  BY <1>2, <1>6, <1>7 DEF UnspentOK

LEMMA UnspentStart ==
  ASSUME Inv, Inv', FilesGrow, UnspentOK, Start,
         UNCHANGED <<utxo, missed>>
  PROVE  UnspentOK'
<1>1. /\ pc = "down" /\ pc' = "restore" /\ starts' = starts + 1 /\ starts \in Nat
      /\ UNCHANGED <<file, dbBlocks>>
  BY DEF Start, dbVars, Inv, TypeOK
<1>2. starts' < 2 => FollowsBest'
  <2> SUFFICES ASSUME starts' < 2 PROVE FollowsBest'
    OBVIOUS
  <2>1. starts = 0
    BY <1>1
  <2>2. FollowsBest
    BY <2>1 DEF UnspentOK
  <2> QED
    BY <1>1, <2>2, BestKept
<1> QED
  BY <1>1, <1>2 DEF UnspentOK, BatchUtxoOK, LockFree, Importing

\* A first restart ends on the chain that the index follows: there is one
\* first heaviest chain.
LEMMA UnspentRestored ==
  ASSUME Inv, Inv', TipsOK', FilesGrow, UnspentOK, RestorePosition,
         UNCHANGED <<utxo, missed>>
  PROVE  UnspentOK'
<1>1. /\ pc = "rebuild" /\ pc' = "idle" /\ starts \in Nat
      /\ UNCHANGED <<file, dbBlocks, starts, currentChain, longestBlock>>
  BY DEF RestorePosition, dbVars, memVars, tipVars, Inv, TypeOK
<1>2. starts < 2 => FollowsBest
  <2>1. starts < 2 => starts = 0 \/ starts = 1
    BY <1>1
  <2> QED
    BY <1>1, <2>1 DEF UnspentOK
<1>3. starts = 0 => FollowsBest'
  BY <1>1, <1>2, BestKept
<1>4. starts < 2 => Follows(utxo, TipOf(currentChain))'
  <2> SUFFICES ASSUME starts < 2 PROVE Follows(utxo, TipOf(currentChain))'
    OBVIOUS
  <2>1. PICK h \in 0..Len(dbBlocks) : TipIs(h, Len(dbBlocks)) /\ Follows(utxo, h)
    BY <1>2 DEF FollowsBest
  <2>2. PICK n, tip, u : n = Len(dbBlocks) /\ tip = TipOf(currentChain) /\ u = utxo
    OBVIOUS
  <2>3. n \in Nat /\ n <= Len(file) /\ Len(file) \in Nat /\ h \in 0..Len(file)
    BY <2>2, TipLengths
  <2>4. TipIs(tip, n)
    <3>1. TipIs(TipOf(currentChain), Len(dbBlocks))'
      BY <1>1 DEF TipsOK, LockFree, Inv, ChainOK
    <3>2. IF n = 0 THEN tip = Null
          ELSE tip \in 1..n /\ \A g \in 1..n : IF g < tip THEN Work'[g] < Work'[tip]
                                                         ELSE Work'[g] <= Work'[tip]
      BY <1>1, <2>2, <3>1 DEF TipIs, FirstHeaviest
    <3>3. \A g \in 1..n : Work'[g] = Work[g]
      <4>1. \A g \in 1..n : g \in 0..Len(file)
        BY <2>3
      <4> QED
        BY <1>1, <4>1, HistoryKept DEF Inv
    <3> QED
      BY <3>2, <3>3 DEF TipIs, FirstHeaviest
  <2>5. h = tip
    <3>1. h = BestTip(n) /\ tip = BestTip(n)
      BY <2>1, <2>2, <2>3, <2>4, TipIsBest DEF Inv
    <3> QED
      BY <3>1
  <2>6. Follows(u, h)'
    BY <1>1, <2>1, <2>2, <2>3, FollowsKept
  <2> QED
    BY <1>1, <2>2, <2>5, <2>6 DEF Follows
<1> QED
  BY <1>1, <1>3, <1>4 DEF UnspentOK, BatchUtxoOK, LockFree, Importing

\* The end of the undoing changes nothing else.
LEMMA UndoEndsSame ==
  ASSUME Inv, UndoEnds
  PROVE  currentChain' = currentChain
<1>1. Len(currentChain) \in Nat /\ height \in Nat /\ currentChain \in Seq(Hash \cup {Null})
  BY LenProperties DEF Inv, TypeOK
<1>2. Len(currentChain) = height
  BY <1>1 DEF UndoEnds, Inv, ReorganiseOK
<1>3. currentChain' = [i \in 1..height |-> currentChain[i]]
  BY <1>1, <1>2 DEF UndoEnds
<1>4. DOMAIN currentChain = 1..height /\ currentChain = [i \in DOMAIN currentChain |-> currentChain[i]]
  BY <1>1, <1>2, LenProperties
<1> QED
  BY <1>3, <1>4

\* The other steps: they change neither the index nor its batch.
OtherSteps ==
  \/ ValidBlockArrives \/ CrashWithBatch \/ CommitProcessed
  \/ (RestoreBlock \/ SizeChain \/ RebuildChain) /\ UNCHANGED txVars
  \/ (ReadFails \/ WalkBack \/ WalkEnds \/ UndoEnds) /\ UNCHANGED txVars
  \/ UNCHANGED allVars

LEMMA UnspentOther ==
  ASSUME Inv, Inv', FilesGrow, UnspentOK, OtherSteps
  PROVE  UnspentOK'
<1>1. UNCHANGED <<utxo, missed, dbBlocks, starts>> /\ (file' = file \/ BlockArrives)
  BY DEF OtherSteps, ValidBlockArrives, BlockArrives, CrashWithBatch, Crash, Down,
     CommitProcessed, BeginCommit, RestoreBlock, SizeChain, RebuildChain, ReadFails,
     WalkBack, WalkEnds, UndoEnds, allVars, vars, txVars, dbTxVars, dbVars
<1>2. processUTXO /\ starts < 2 /\ Importing => pc \in {"process", "redo"} /\ ExtendsTip(blockInfo)
  BY DEF UnspentOK, BatchUtxoOK
<1>3. CASE CrashWithBatch
  <2>1. pc' = "down"
    BY <1>3 DEF CrashWithBatch, Crash, Down
  <2> QED
    BY <1>1, <2>1, UnspentSame DEF LockFree, Importing
<1>4. CASE (RestoreBlock \/ SizeChain \/ RebuildChain) /\ UNCHANGED txVars
  <2>1. pc \in {"restore", "rebuild"} /\ pc' \in {"restore", "rebuild"}
    BY <1>4 DEF RestoreBlock, SizeChain, RebuildChain
  <2> QED
    BY <1>1, <2>1, UnspentSame DEF LockFree, Importing
<1>5. CASE ValidBlockArrives \/ (ReadFails /\ UNCHANGED txVars) \/ UNCHANGED allVars
  <2>1. UNCHANGED <<pc, currentChain, batchUtxo, processUTXO, next, hash, blockInfo,
                    longestBlock, toAppend>>
    BY <1>5 DEF ValidBlockArrives, BlockArrives, ReadFails, allVars, vars, txVars, dbTxVars,
       batchVars, memVars, tipVars, importVars, walkVars
  <2> QED
    BY <1>1, <1>2, <2>1, UnspentSame DEF LockFree, Importing
<1>6. CASE CommitProcessed
  <2>1. /\ pc = "process" /\ pc' = IF Reorganises THEN "walk" ELSE "redo"
        /\ UNCHANGED <<currentChain, batchUtxo, processUTXO, next, hash, blockInfo,
                       longestBlock, toAppend>>
    BY <1>6 DEF CommitProcessed, BeginCommit, txVars, batchVars, tipVars, importVars
  <2>2. ExtendsTip(blockInfo) => ~Reorganises
    BY DEF ExtendsTip, Reorganises
  <2> QED
    BY <1>1, <1>2, <2>1, <2>2, UnspentSame DEF LockFree, Importing
<1>7. CASE (WalkBack \/ WalkEnds \/ UndoEnds) /\ UNCHANGED txVars
  <2>1. /\ pc \in {"walk", "undo"} /\ pc' \in {"walk", "undo", "redo"}
        /\ UNCHANGED <<batchUtxo, processUTXO, next, hash, blockInfo, longestBlock>>
    BY <1>7 DEF WalkBack, WalkEnds, UndoEnds, txVars, batchVars, tipVars, importVars
  <2>2. currentChain' = currentChain
    BY <1>7, UndoEndsSame DEF WalkBack, WalkEnds, memVars
  <2> QED
    BY <1>1, <1>2, <2>1, <2>2, UnspentSame DEF LockFree, Importing
<1> QED
  BY <1>3, <1>4, <1>5, <1>6, <1>7 DEF OtherSteps

LEMMA UnspentInit == UtxoInit => UnspentOK
<1> SUFFICES ASSUME UtxoInit PROVE UnspentOK
  OBVIOUS
<1>1. TypeOK /\ FileOrdered
  BY InvInit DEF UtxoInit, Inv
<1>2. Unspent[0] = NoTxs /\ utxo = NoTxs
  BY <1>1, UnspentSteps DEF UtxoInit
<1>3. ASSUME NEW x PROVE SameOutput(NoTxs, NoTxs, x)
  BY DEF SameOutput, NoTxs
<1>4. Follows(utxo, 0)
  BY <1>2, <1>3 DEF Follows, SameBut
<1>5. Len(dbBlocks) = 0 /\ TipOf(currentChain) = 0
  BY DEF UtxoInit, Init, TipOf, Null
<1>6. TipIs(0, Len(dbBlocks))
  BY <1>5 DEF TipIs, Null
<1>7. FollowsBest
  BY <1>4, <1>5, <1>6 DEF FollowsBest
<1> QED
  BY <1>4, <1>5, <1>7 DEF UnspentOK, BatchUtxoOK, UtxoInit, Init, Importing

LEMMA UnspentInTurn ==
  ASSUME Inv, Inv', TipsOK', LinksOK, LinksOK', FilesOK, FilesGrow, UnspentOK,
         [UtxoNext]_allVars
  PROVE  UnspentOK'
<1>1. CASE ReadTransactions
  BY <1>1, UnspentRead
<1>2. CASE ProcessTransaction
  BY <1>2, UnspentProcess
<1>3. CASE UndoTransactions
  BY <1>3, UnspentUndo
<1>4. CASE RedoTransactions
  BY <1>4, UnspentRedo
<1>5. CASE WriteBatch
  BY <1>5, UnspentWrite
<1>6. CASE (Start \/ RestorePosition) /\ UNCHANGED txVars
  <2>1. UNCHANGED <<utxo, missed>>
    BY <1>6 DEF txVars, dbTxVars
  <2> QED
    BY <1>6, <2>1, UnspentStart, UnspentRestored
<1>7. CASE OtherSteps
  BY <1>7, UnspentOther
<1>8. NoTransactions => OtherSteps \/ ((Start \/ RestorePosition) /\ UNCHANGED txVars)
  BY DEF NoTransactions, Restore, OtherSteps
<1> QED
  BY <1>1, <1>2, <1>3, <1>4, <1>5, <1>6, <1>7, <1>8 DEF UtxoNext, OtherSteps

FollowedOf == LinkedOf /\ UnspentOK

LEMMA FollowedAlways == UtxoSpec => []FollowedOf
<1>1. UtxoInit => UnspentOK
  BY UnspentInit
<1>2. LinkedOf /\ LinkedOf' /\ UnspentOK /\ [UtxoNext]_allVars => UnspentOK'
  <2> SUFFICES ASSUME LinkedOf, LinkedOf', UnspentOK, [UtxoNext]_allVars PROVE UnspentOK'
    OBVIOUS
  <2>1. /\ Inv /\ Inv' /\ TipsOK' /\ LinksOK /\ LinksOK' /\ FilesOK
    BY DEF LinkedOf, ChainOf
  <2>2. FilesGrow
    BY <2>1, FilesStepAlways, UnspentKept
  <2> QED
    BY <2>1, <2>2, UnspentInTurn
<1>3. LinkedOf /\ UnspentOK => FollowedOf
  BY DEF FollowedOf
<1> QED
  BY <1>1, <1>2, <1>3, LinkedAlways, PTL DEF UtxoSpec

\* The index of unspent outputs is that of the main chain, in any number of
\* reorganisations and up to a second restart, but for the outputs that a block
\* makes or spends that joined the chain as the tip of a reorganisation, and
\* for the height of an output that UndoUTXO restored from another block of the
\* same transaction (main.cpp:74-148, 318-398, 703-729 and 879-925).
THEOREM UnspentButForMissedAlways == UtxoSpec => []UnspentButForMissed
<1>1. FollowedOf => UnspentButForMissed
  <2> SUFFICES ASSUME FollowedOf, pc = "idle", starts < 2,
                      NEW t \in (DOMAIN utxo \cup DOMAIN Unspent[ChainTip]) \ MissedOutputs
               PROVE  SameOutput(utxo, Unspent[ChainTip], t)
    BY DEF UnspentButForMissed, SameOutput
  <2>1. Inv /\ FilesOK /\ BatchUtxoOK
    BY DEF FollowedOf, LinkedOf, ChainOf, UnspentOK
  <2>2. ChainTip = TipOf(currentChain)
    BY DEF ChainTip, TipOf
  <2>3. Follows(utxo, ChainTip)
    BY <2>1, <2>2 DEF BatchUtxoOK, LockFree
  <2>4. ChainTip \in 0..Len(file) /\ currentChain = BranchTo[ChainTip]
    BY <2>1, <2>2, TipPlace
  <2>5. MissedOn(ChainTip) \subseteq MissedOutputs
    <3> SUFFICES ASSUME NEW x \in MissedOn(ChainTip) PROVE x \in MissedOutputs
      OBVIOUS
    <3>1. PICK b \in missed \cap Range(currentChain) : x \in Touched(b, Len(txs[b]))
      BY <2>4 DEF MissedOn
    <3>2. b \in 1..Len(txs) /\ txs \in Seq(Seq(Tx))
      BY <2>1, <2>4, <3>1, BranchBlocks DEF FilesOK, TxsTyped, Inv
    <3>3. FirstTxs(b, Len(txs[b])) \subseteq MissedTxs
      BY <3>1, <3>2, FirstTxsFacts DEF MissedTxs
    <3> QED
      BY <3>1, <3>3 DEF Touched, Spent, MissedOutputs
  <2> QED
    BY <2>3, <2>5 DEF Follows, SameBut
<1> QED
  BY <1>1, FollowedAlways, PTL
=============================================================================
