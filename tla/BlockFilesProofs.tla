---------------------------- MODULE BlockFilesProofs ----------------------------
(***************************************************************************)
(* Proofs about BlockFiles: the reader of the block files implements       *)
(* BlockStream, and a block is imported as it was written unless the lock  *)
(* did not protect it.  The argument is the place of every block in the    *)
(* files: the places follow each other, a reader is always at the end of   *)
(* one block and finds the next one there or at the start of the next      *)
(* file, and what it finds between them is Zero.                           *)
(***************************************************************************)
EXTENDS BlockFiles, SequenceTheorems, TLAPS

CellType == Nat \X Nat
PlaceType == [file : Nat, place : Nat]

\* The types the proofs need.
Shape ==
  /\ files \in Seq(Seq(CellType)) /\ Len(files) > 0 /\ chunk \in Nat
  /\ used \in Nat /\ begun \in Nat /\ piece \in 0..Pieces
  /\ writer \in {"idle", "open", "write"} /\ writeLock \in BOOLEAN
  /\ writer = "idle" => begun = 0 \/ piece = Pieces
  /\ writer = "open" => piece = 0
  /\ pc \in {"down", "idle", "locked", "magic", "process"}
  /\ {saved, at, back} \subseteq PlaceType
  /\ imported \in Seq(Seq(CellType))
  /\ buffer \in Seq(CellType) /\ block \in Seq(CellType)

\* Cell k of block b is written.
Written(b, k) == b < begun \/ k <= piece

\* The place after block n, for blocks at the places loc.
End(loc, n) ==
  IF n = 0 THEN First ELSE [file |-> loc[n].file, place |-> loc[n].place + Pieces]

\* A file that has ended ends with block n.
Ends(loc, n) == Len(files[loc[n].file]) = loc[n].place + Pieces

NextStart(loc, n) == [file |-> loc[n].file + 1, place |-> 0]

\* How far the last file is written.
Front == used + (IF writer = "idle" THEN 0 ELSE piece)

\* The blocks are at the places loc, one after the other; what is allocated
\* beyond them is Zero.
Layout(loc) ==
  /\ \A b \in 1..begun :
       /\ loc[b].file \in 1..Last /\ loc[b].place \in Nat
       /\ \/ loc[b] = End(loc, b - 1)
          \/ b > 1 /\ loc[b] = NextStart(loc, b - 1) /\ Ends(loc, b - 1)
       /\ \A k \in 1..Pieces : Written(b, k) =>
            /\ loc[b].place + k <= Len(files[loc[b].file])
            /\ files[loc[b].file][loc[b].place + k] = <<b, k>>
       /\ \/ loc[b].file < Last
          \/ loc[b].place + Pieces <= used
          \/ writer # "idle" /\ b = begun
  /\ IF writer = "idle"
     THEN \/ End(loc, begun) = [file |-> Last, place |-> used]
          \/ /\ begun > 0 /\ used = 0
             /\ NextStart(loc, begun) = [file |-> Last, place |-> used]
             /\ Ends(loc, begun)
     ELSE begun > 0 /\ loc[begun] = [file |-> Last, place |-> used]
  /\ Front <= Len(files[Last])
  /\ \A p \in 1..Len(files[Last]) : p > Front => chunk > 0 /\ files[Last][p] = Zero

\* Where the reader is among them.
ReaderAt(loc) ==
  LET n == LastImported IN
  /\ n \in 0..begun
  /\ saved = End(loc, n)
  /\ pc = "idle" => at = End(loc, n)
  /\ Reading => back = End(loc, n)
  /\ pc = "locked" => at = back
  /\ pc = "magic" => /\ n < begun /\ Written(n + 1, 1)
                     /\ at = loc[n + 1]
                     /\ at.file = back.file \/ at.place = 0
                     /\ Len(buffer) > 0 /\ buffer[1] = <<n + 1, 1>>
  /\ pc = "process" => /\ n < begun /\ at = End(loc, n + 1)
                       /\ Len(block) = Pieces /\ block[1] = <<n + 1, 1>>

\* A block that is not as it was written has an excuse.
Excused(b, first) ==
  /\ chunk > 0
  /\ b \in unlocked \/ first
Sound(cells) ==
  \/ Intact(cells)
  \/ Excused(Number(cells), \E f \in 1..Last : files[f] # <<>> /\ files[f][1] = cells[1])

\* The blocks that were read.
BlocksRead ==
  {imported[i] : i \in 1..Len(imported)} \cup (IF pc = "process" THEN {block} ELSE {})

\* While a block is written, either side has the lock or the other one knows.
LockOK ==
  writer = "write" =>
    /\ writeLock => ~(Reading /\ back.file = Last)
    /\ writeLock \/ begun \in unlocked

SoundOK ==
  /\ \A cells \in BlocksRead : Len(cells) = Pieces /\ cells[1][2] = 1 /\ Sound(cells)
  /\ pc = "magic" =>
       \A k \in 1..Pieces : k <= Len(buffer) =>
         \/ buffer[k] = <<LastImported + 1, k>>
         \/ Excused(LastImported + 1, at.place = 0)
  /\ LockOK

\* The inductive invariant: for some places of the blocks.
Placed == \E loc : Layout(loc) /\ ReaderAt(loc)

IInv == Shape /\ Placed /\ SoundOK

-----------------------------------------------------------------------------
(* Places and cells.                                                       *)

LEMMA Numbers ==
  Pieces \in Nat /\ Pieces > 1 /\ Buffer \in Nat /\ Buffer > 0
  BY FilesAssumption

LEMMA LastFacts ==
  ASSUME Shape
  PROVE  /\ Last \in Nat \ {0} /\ Last = Len(files) /\ DOMAIN files = 1..Last
         /\ \A f \in 1..Last : files[f] \in Seq(CellType) /\ Len(files[f]) \in Nat
<1>1. files \in Seq(Seq(CellType)) /\ Len(files) \in Nat /\ Len(files) > 0
  BY DEF Shape
<1>2. \A f \in 1..Len(files) : files[f] \in Seq(CellType)
  BY <1>1, ElementOfSeq
<1>3. \A f \in 1..Len(files) : Len(files[f]) \in Nat
  BY <1>2, LenProperties
<1> QED
  BY <1>1, <1>2, <1>3, LenProperties DEF Last

\* The end of a block is a place of its file.
LEMMA EndFacts ==
  ASSUME Shape, NEW loc, Layout(loc), NEW n \in 0..begun
  PROVE  /\ End(loc, n) \in PlaceType /\ End(loc, n).file \in 1..Last
         /\ n > 0 => /\ End(loc, n).file = loc[n].file
                     /\ End(loc, n).place = loc[n].place + Pieces
<1>1. Last \in Nat \ {0} /\ begun \in Nat
  BY LastFacts DEF Shape
<1>2. CASE n = 0
  BY <1>1, <1>2 DEF End, First, PlaceType
<1>3. CASE n # 0
  <2>1. n \in 1..begun
    BY <1>1, <1>3
  <2>2. loc[n].file \in 1..Last /\ loc[n].place \in Nat
    BY <2>1 DEF Layout
  <2>3. End(loc, n) = [file |-> loc[n].file, place |-> loc[n].place + Pieces]
    BY <1>3 DEF End
  <2> QED
    BY <1>1, <2>2, <2>3, Numbers DEF PlaceType
<1> QED
  BY <1>2, <1>3

\* A cell at the place of a block is as written, or it is still Zero in a file
\* that was allocated in advance.
LEMMA CellFacts ==
  ASSUME Shape, NEW loc, Layout(loc), NEW b \in 1..begun, NEW k \in 1..Pieces,
         loc[b].place + k <= Len(files[loc[b].file])
  PROVE  \/ Written(b, k) /\ files[loc[b].file][loc[b].place + k] = <<b, k>>
         \/ /\ chunk > 0 /\ writer # "idle" /\ b = begun /\ k > piece /\ ~ Written(b, k)
            /\ loc[b] = [file |-> Last, place |-> used]
            /\ files[loc[b].file][loc[b].place + k] = Zero
<1>1. CASE Written(b, k)
  BY <1>1 DEF Layout
<1>2. CASE ~ Written(b, k)
  <2>1. begun \in Nat /\ piece \in Nat /\ used \in Nat /\ Pieces \in Nat
    BY Numbers DEF Shape
  <2>2. b = begun /\ k > piece
    BY <1>2, <2>1 DEF Written
  <2>3. writer # "idle"
    BY <2>1, <2>2 DEF Shape
  <2>4. loc[b] = [file |-> Last, place |-> used]
    BY <2>2, <2>3 DEF Layout
  <2>5. Front = used + piece /\ used + k \in 1..Len(files[Last])
    BY <2>1, <2>3, <2>4, LastFacts DEF Front
  <2>6. chunk > 0 /\ files[Last][used + k] = Zero
    BY <2>1, <2>2, <2>5 DEF Layout
  <2> QED
    BY <1>2, <2>2, <2>3, <2>4, <2>6
<1> QED
  BY <1>1, <1>2

\* The first cell of a block, where a reader at the end of the block before it
\* looks for it, is that of the next block.
LEMMA NextBlock ==
  ASSUME Shape, NEW loc, Layout(loc), NEW n \in 0..begun, at = End(loc, n),
         Len(files[ToRead.file]) > ToRead.place,
         files[ToRead.file][ToRead.place + 1][2] = 1
  PROVE  /\ n < begun /\ ToRead = loc[n + 1] /\ Written(n + 1, 1)
         /\ ToRead \in PlaceType /\ ToRead.file \in 1..Last
         /\ ToRead = at \/ ToRead.place = 0
         /\ files[ToRead.file][ToRead.place + 1] = <<n + 1, 1>>
<1> DEFINE f == at.file
           p == at.place
           from == ToRead
           cell == files[from.file][from.place + 1]
<1>1. /\ begun \in Nat /\ piece \in Nat /\ used \in Nat /\ Pieces \in Nat /\ Pieces > 1
      /\ Last \in Nat \ {0}
  BY LastFacts, Numbers DEF Shape
<1>2. f \in 1..Last /\ p \in Nat /\ at = [file |-> f, place |-> p]
  BY EndFacts DEF PlaceType
<1>3. /\ from \in PlaceType /\ from.file \in 1..Last
      /\ from = at \/ from.place = 0
      /\ \/ from = at /\ Len(files[f]) # p
         \/ from = [file |-> f + 1, place |-> 0] /\ Len(files[f]) = p /\ f < Last
  <2>1. CASE AtEnd(f, p) /\ f < Last
    BY <1>1, <1>2, <2>1 DEF ToRead, AtEnd, PlaceType
  <2>2. CASE ~(AtEnd(f, p) /\ f < Last)
    <3>1. from = at
      BY <2>2 DEF ToRead
    <3>2. Len(files[f]) # p
      BY <1>1, <1>2, <3>1, LastFacts
    <3> QED
      BY <1>2, <3>1, <3>2 DEF PlaceType
  <2> QED
    BY <2>1, <2>2
<1>4. cell # Zero
  BY DEF Zero
<1>5. from.file = Last => from.place + 1 <= Front
  <2> SUFFICES ASSUME from.file = Last, ~(from.place + 1 <= Front) PROVE FALSE
    OBVIOUS
  <2>1. Front \in Nat /\ from.place \in Nat
    BY <1>1, <1>3 DEF Front, PlaceType
  <2>2. Len(files[Last]) \in Nat
    BY <1>1, LastFacts
  <2>3. from.place + 1 \in 1..Len(files[Last]) /\ from.place + 1 > Front
    BY <2>1, <2>2
  <2>4. files[Last][from.place + 1] = Zero
    BY <2>3 DEF Layout
  <2> QED
    BY <1>4, <2>4
<1>6. n # begun
  <2> SUFFICES ASSUME n = begun PROVE FALSE
    OBVIOUS
  <2>1. CASE writer = "idle"
    <3>1. Front = used
      BY <1>1, <2>1 DEF Front
    <3>2. CASE End(loc, begun) = [file |-> Last, place |-> used]
      <4>1. f = Last /\ p = used
        BY <3>2
      <4> QED
        BY <1>1, <1>3, <1>5, <3>1, <4>1
    <3>3. CASE /\ begun > 0 /\ used = 0
               /\ NextStart(loc, begun) = [file |-> Last, place |-> used]
               /\ Ends(loc, begun)
      <4>1. begun \in 1..begun
        BY <1>1, <3>3
      <4>2. loc[begun].file = f /\ p = loc[begun].place + Pieces
        BY <3>3, EndFacts
      <4>3. Last = f + 1 /\ Len(files[f]) = p
        BY <3>3, <4>2 DEF NextStart, Ends
      <4> QED
        BY <1>1, <1>3, <1>5, <3>1, <3>3, <4>3
    <3> QED
      BY <2>1, <3>2, <3>3 DEF Layout
  <2>2. CASE writer # "idle"
    <3>1. Front = used + piece /\ begun > 0 /\ loc[begun] = [file |-> Last, place |-> used]
      BY <2>2 DEF Front, Layout
    <3>2. f = Last /\ p = used + Pieces
      BY <1>1, <3>1, EndFacts
    <3>3. piece <= Pieces
      BY <1>1 DEF Shape
    <3> QED
      BY <1>1, <1>3, <1>5, <3>1, <3>2, <3>3
  <2> QED
    BY <2>1, <2>2
<1>7. n + 1 \in 1..begun /\ n < begun
  BY <1>1, <1>6
<1>8. loc[n + 1] = from
  <2>1. \/ loc[n + 1] = End(loc, n)
        \/ n + 1 > 1 /\ loc[n + 1] = NextStart(loc, n) /\ Ends(loc, n)
    <3>1. (n + 1) - 1 = n
      BY <1>1
    <3> QED
      BY <1>7, <3>1 DEF Layout
  <2>2. CASE loc[n + 1] = End(loc, n) /\ from # at
    <3>1. from = [file |-> f + 1, place |-> 0] /\ Len(files[f]) = p /\ f < Last
      BY <1>3, <2>2
    <3>2. loc[n + 1].file = f /\ loc[n + 1].place = p
      BY <1>2, <2>2
    <3>3. ~ Written(n + 1, 1)
      <4>1. Written(n + 1, 1) => p + 1 <= Len(files[f])
        BY <1>1, <1>7, <3>2, SMTT(30) DEF Layout
      <4> QED
        BY <1>1, <1>2, <3>1, <4>1
    <3>4. n + 1 = begun /\ piece = 0
      BY <1>1, <1>7, <3>3 DEF Written
    <3>5. writer # "idle"
      BY <1>1, <3>4 DEF Shape
    <3>6. loc[n + 1].file = Last
      BY <3>4, <3>5 DEF Layout
    <3> QED
      BY <1>1, <1>2, <3>1, <3>2, <3>6
  <2>3. CASE n + 1 > 1 /\ loc[n + 1] = NextStart(loc, n) /\ Ends(loc, n)
    <3>1. n > 0 /\ loc[n].file = f /\ p = loc[n].place + Pieces
      BY <1>1, <2>3, EndFacts
    <3>2. Len(files[f]) = p /\ loc[n + 1] = [file |-> f + 1, place |-> 0]
      BY <2>3, <3>1 DEF Ends, NextStart
    <3> QED
      BY <1>3, <3>2
  <2> QED
    BY <2>1, <2>2, <2>3
<1>9. Written(n + 1, 1) /\ cell = <<n + 1, 1>>
  <2>1. loc[n + 1].place + 1 <= Len(files[loc[n + 1].file])
    BY <1>1, <1>3, <1>8, LastFacts DEF PlaceType
  <2>2. 1 \in 1..Pieces
    BY <1>1
  <2> QED
    BY <1>4, <1>7, <1>8, <2>1, <2>2, CellFacts
<1> QED
  BY <1>3, <1>7, <1>8, <1>9

-----------------------------------------------------------------------------
(* The places of the blocks, step by step.                                 *)

\* A block at the start of a file follows one in the file before.
LEMMA BeforeLast ==
  ASSUME Shape, NEW loc, Layout(loc), NEW b \in 1..begun, b > 1,
         loc[b] = NextStart(loc, b - 1)
  PROVE  /\ b - 1 \in 1..begun /\ loc[b - 1].file \in 1..Last /\ loc[b - 1].file < Last
         /\ loc[b].file = loc[b - 1].file + 1 /\ loc[b].place = 0
<1>1. begun \in Nat /\ Last \in Nat
  BY LastFacts DEF Shape
<1>2. b - 1 \in 1..begun
  BY <1>1
<1>3. loc[b - 1].file \in 1..Last /\ loc[b].file \in 1..Last
  BY <1>2 DEF Layout
<1>4. loc[b].file = loc[b - 1].file + 1 /\ loc[b].place = 0
  BY DEF NextStart
<1> QED
  BY <1>1, <1>2, <1>3, <1>4

LEMMA LayoutSame ==
  ASSUME NEW loc, Layout(loc), UNCHANGED <<files, chunk, used, begun, piece, writer>>
  PROVE  Layout(loc)'
  BY DEF Layout, Written, End, Ends, NextStart, Front, Last

\* A file that is replaced by one that starts with the same cells, up to the
\* end of the block before n.
LEMMA PlacesKept ==
  ASSUME Shape, NEW loc, Layout(loc), NEW new, NEW b \in 1..begun,
         Last' >= Last, Last' \in Nat,
         \A c \in 1..begun : new[c] = loc[c],
         \A f \in 1..Last : f < Last => files'[f] = files[f],
         \A k \in 1..Pieces : Written(b, k)' =>
            /\ loc[b].place + k <= Len(files'[loc[b].file])
            /\ files'[loc[b].file][loc[b].place + k] = <<b, k>>
  PROVE  /\ new[b].file \in 1..Last' /\ new[b].place \in Nat
         /\ \/ new[b] = End(new, b - 1)
            \/ b > 1 /\ new[b] = NextStart(new, b - 1) /\ Ends(new, b - 1)'
         /\ \A k \in 1..Pieces : Written(b, k)' =>
            /\ new[b].place + k <= Len(files'[new[b].file])
            /\ files'[new[b].file][new[b].place + k] = <<b, k>>
<1>1. new[b] = loc[b] /\ begun \in Nat /\ Last \in Nat
  BY LastFacts DEF Shape
<1>2. loc[b].file \in 1..Last /\ loc[b].place \in Nat
  BY DEF Layout
<1>3. CASE loc[b] = End(loc, b - 1)
  <2>1. b - 1 = 0 \/ b - 1 \in 1..begun
    BY <1>1
  <2>2. End(new, b - 1) = End(loc, b - 1)
    BY <2>1 DEF End
  <2> QED
    BY <1>1, <1>2, <1>3, <2>2, SMTT(30)
<1>4. CASE b > 1 /\ loc[b] = NextStart(loc, b - 1) /\ Ends(loc, b - 1)
  <2>1. /\ b - 1 \in 1..begun /\ loc[b - 1].file \in 1..Last /\ loc[b - 1].file < Last
    BY <1>4, BeforeLast
  <2>2. new[b - 1] = loc[b - 1] /\ NextStart(new, b - 1) = NextStart(loc, b - 1)
    BY <2>1 DEF NextStart
  <2>3. Ends(new, b - 1)'
    BY <1>4, <2>1, <2>2 DEF Ends
  <2> QED
    BY <1>1, <1>2, <1>4, <2>2, <2>3
<1> QED
  BY <1>3, <1>4 DEF Layout

\* The reader does not see what bitcoind does beyond the blocks there are.
LEMMA ReaderSame ==
  ASSUME Shape, NEW loc, Layout(loc), ReaderAt(loc), NEW new,
         \A c \in 1..begun : new[c] = loc[c],
         UNCHANGED <<dbVars, readerVars>>, begun' \in Nat, begun' >= begun,
         \A b \in 1..begun : Written(b, 1) => Written(b, 1)'
  PROVE  ReaderAt(new)'
<1> DEFINE n == LastImported
<1>1. begun \in Nat /\ n \in 0..begun
  BY DEF Shape, ReaderAt
<1>2. \A m \in 0..begun : End(new, m) = End(loc, m)
  BY <1>1 DEF End
<1>3. /\ UNCHANGED <<saved, imported, pc, at, back, buffer, block>>
      /\ LastImported' = LastImported /\ Reading' = Reading
  BY DEF dbVars, readerVars, LastImported, Number, Reading
<1>4. n < begun => n + 1 \in 1..begun /\ new[n + 1] = loc[n + 1]
  BY <1>1
<1>5. /\ n \in 0..begun' /\ saved = End(new, n)
      /\ (pc = "idle" => at = End(new, n))
      /\ (Reading => back = End(new, n))
      /\ (pc = "locked" => at = back)
  BY <1>1, <1>2 DEF ReaderAt
<1>6. ASSUME pc = "magic"
      PROVE  /\ n < begun'
             /\ n + 1 < begun' \/ 1 <= piece'
             /\ at = new[n + 1]
             /\ at.file = back.file \/ at.place = 0
             /\ Len(buffer) > 0 /\ buffer[1] = <<n + 1, 1>>
  <2>1. /\ n < begun /\ at = loc[n + 1] /\ Written(n + 1, 1)
        /\ at.file = back.file \/ at.place = 0
        /\ Len(buffer) > 0 /\ buffer[1] = <<n + 1, 1>>
    BY <1>6 DEF ReaderAt
  <2>2. PICK m \in 1..begun : m = n + 1
    BY <1>4, <2>1
  <2>3. Written(m, 1)'
    BY <2>1, <2>2
  <2>4. m < begun' \/ 1 <= piece'
    BY <2>3 DEF Written
  <2> QED
    BY <1>1, <1>4, <2>1, <2>2, <2>4
<1>7. ASSUME pc = "process"
      PROVE  /\ n < begun' /\ at = End(new, n + 1)
             /\ Len(block) = Pieces /\ block[1] = <<n + 1, 1>>
  BY <1>1, <1>2, <1>7 DEF ReaderAt
<1> QED
  BY <1>3, <1>5, <1>6, <1>7 DEF ReaderAt, Written

\* What a file is extended with, if it is, is Zero.
IsExtended(grown, file, really) ==
  /\ grown \in Seq(CellType) /\ Len(grown) \in Nat /\ Len(grown) >= Len(file)
  /\ \A p \in 1..Len(file) : grown[p] = file[p]
  /\ \A p \in 1..Len(grown) : p > Len(file) => really /\ grown[p] = Zero

LEMMA Extended ==
  ASSUME NEW file \in Seq(CellType), NEW size \in Int, NEW grown,
         grown = IF size > Len(file) THEN file \o Zeros(size - Len(file)) ELSE file
  PROVE  IsExtended(grown, file, size > Len(file))
<1>1. Len(file) \in Nat
  OBVIOUS
<1>2. CASE size > Len(file)
  <2>1. PICK zs : zs = Zeros(size - Len(file))
    OBVIOUS
  <2>2. size - Len(file) \in Nat /\ Zero \in CellType
    BY <1>1, <1>2 DEF Zero, CellType
  <2>3. zs \in Seq(CellType) /\ Len(zs) = size - Len(file)
        /\ \A p \in 1..Len(zs) : zs[p] = Zero
    BY <2>1, <2>2 DEF Zeros
  <2>4. grown = file \o zs
    BY <1>2, <2>1
  <2>5. /\ grown \in Seq(CellType) /\ Len(grown) = Len(file) + Len(zs)
        /\ \A p \in 1..(Len(file) + Len(zs)) :
             grown[p] = IF p <= Len(file) THEN file[p] ELSE zs[p - Len(file)]
    <3>1. grown \in Seq(CellType) /\ Len(grown) = Len(file) + Len(zs)
      BY <2>3, <2>4, ConcatProperties
    <3>2. ASSUME NEW i \in 1..(Len(file) + Len(zs))
          PROVE  grown[i] = IF i <= Len(file) THEN file[i] ELSE zs[i - Len(file)]
      BY <2>3, <2>4, ConcatProperties
    <3> QED
      BY <3>1, <3>2
  <2>6. \A p \in 1..(Len(file) + Len(zs)) : p > Len(file) => p - Len(file) \in 1..Len(zs)
    BY <1>1, <2>2, <2>3
  <2> QED
    BY <1>1, <1>2, <2>2, <2>3, <2>5, <2>6 DEF IsExtended
<1>3. CASE ~(size > Len(file))
  BY <1>1, <1>3 DEF IsExtended
<1> QED
  BY <1>2, <1>3

\* What bitcoind does when it begins a block.
LEMMA BeginEffect ==
  ASSUME Shape, BeginBlock
  PROVE  /\ writer = "idle" /\ writer' = "open" /\ begun' = begun + 1 /\ piece' = 0
         /\ UNCHANGED <<chunk, used, writeLock, unlocked, dbVars, readerVars>>
         /\ \E grown \in Seq(CellType) :
              /\ files' = [files EXCEPT ![Last] = grown]
              /\ Len(grown) \in Nat /\ Len(grown) >= Len(files[Last])
              /\ \A p \in 1..Len(files[Last]) : grown[p] = files[Last][p]
              /\ \A p \in 1..Len(grown) :
                   p > Len(files[Last]) => chunk > 0 /\ grown[p] = Zero
<1> DEFINE needed == used + Pieces
<1>1. PICK file : file = files[Last]
  OBVIOUS
<1>2. PICK size : size = IF chunk = 0 THEN 0 ELSE ((needed + chunk - 1) \div chunk) * chunk
  OBVIOUS
<1>3. PICK grown : grown = IF size > Len(file) THEN file \o Zeros(size - Len(file)) ELSE file
  OBVIOUS
<1>4. /\ used \in Nat /\ Pieces \in Nat /\ chunk \in Nat
      /\ file \in Seq(CellType) /\ Len(file) \in Nat
  BY <1>1, LastFacts, Numbers DEF Shape
<1>5. size \in Int
  <2>1. CASE chunk # 0
    <3>1. (needed + chunk - 1) \div chunk \in Int
      BY <1>4, <2>1
    <3> QED
      BY <1>2, <1>4, <2>1, <3>1
  <2> QED
    BY <1>2, <2>1
<1>6. size > Len(file) => chunk > 0
  BY <1>2, <1>4
<1>7. files' = [files EXCEPT ![Last] = grown]
  BY <1>1, <1>2, <1>3 DEF BeginBlock
<1>8. /\ grown \in Seq(CellType) /\ Len(grown) \in Nat /\ Len(grown) >= Len(file)
      /\ \A p \in 1..Len(file) : grown[p] = file[p]
      /\ \A p \in 1..Len(grown) : p > Len(file) => chunk > 0 /\ grown[p] = Zero
  <2>1. IsExtended(grown, file, size > Len(file))
    BY <1>3, <1>4, <1>5, Extended
  <2> QED
    BY <1>6, <2>1 DEF IsExtended
<1> QED
  BY <1>1, <1>7, <1>8 DEF BeginBlock

LEMMA PlacedBegin ==
  ASSUME Shape, Placed, BeginBlock
  PROVE  Placed'
<1>1. PICK loc : Layout(loc) /\ ReaderAt(loc)
  BY DEF Placed
<1>2. /\ writer = "idle" /\ writer' = "open" /\ begun' = begun + 1 /\ piece' = 0
      /\ UNCHANGED <<chunk, used, dbVars, readerVars>>
  BY BeginEffect
<1>3. PICK file : file = files[Last]
  OBVIOUS
<1>4. /\ begun \in Nat /\ used \in Nat /\ Pieces \in Nat /\ Pieces > 1 /\ chunk \in Nat
      /\ Last \in Nat \ {0} /\ Len(file) \in Nat
  BY <1>3, LastFacts, Numbers DEF Shape
<1>5. PICK grown \in Seq(CellType) :
        /\ files' = [files EXCEPT ![Last] = grown]
        /\ Len(grown) \in Nat /\ Len(grown) >= Len(file)
        /\ \A p \in 1..Len(file) : grown[p] = file[p]
        /\ \A p \in 1..Len(grown) : p > Len(file) => chunk > 0 /\ grown[p] = Zero
  BY <1>3, BeginEffect
<1>6. /\ Last' = Last /\ files'[Last] = grown
      /\ \A f \in 1..Last : f # Last => files'[f] = files[f]
  BY <1>5, LastFacts DEF Last, Shape
<1>15. PICK new : new = [b \in 1..(begun + 1) |->
                     IF b = begun + 1 THEN [file |-> Last, place |-> used] ELSE loc[b]]
  OBVIOUS
<1>7. /\ new[begun + 1] = [file |-> Last, place |-> used]
      /\ \A b \in 1..begun : new[b] = loc[b]
  BY <1>4, <1>15
<1>8. \A b \in 1..begun, k \in 1..Pieces : Written(b, k) /\ Written(b, k)'
  BY <1>2, <1>3 DEF Written, Shape
<1>9. ASSUME NEW b \in 1..begun
      PROVE  /\ new[b].file \in 1..Last' /\ new[b].place \in Nat
             /\ \/ new[b] = End(new, b - 1)
                \/ b > 1 /\ new[b] = NextStart(new, b - 1) /\ Ends(new, b - 1)'
             /\ \A k \in 1..Pieces : Written(b, k)' =>
                /\ new[b].place + k <= Len(files'[new[b].file])
                /\ files'[new[b].file][new[b].place + k] = <<b, k>>
             /\ new[b].file < Last' \/ new[b].place + Pieces <= used'
  <2>1. /\ loc[b].file \in 1..Last /\ loc[b].place \in Nat
        /\ loc[b].file < Last \/ loc[b].place + Pieces <= used
    BY <1>1, <1>2 DEF Layout
  <2>2. ASSUME NEW k \in 1..Pieces
        PROVE  /\ loc[b].place + k <= Len(files'[loc[b].file])
               /\ files'[loc[b].file][loc[b].place + k] = <<b, k>>
    <3>1. /\ loc[b].place + k <= Len(files[loc[b].file])
          /\ files[loc[b].file][loc[b].place + k] = <<b, k>>
      BY <1>1, <1>8 DEF Layout
    <3>2. CASE loc[b].file = Last
      <4>1. loc[b].place + k \in 1..Len(file)
        BY <1>3, <1>4, <2>1, <3>1, <3>2, SMTT(30)
      <4>2. files'[loc[b].file] = grown /\ files[loc[b].file] = file
        BY <1>3, <1>6, <3>2
      <4>3. PICK q : q = loc[b].place + k
        OBVIOUS
      <4>4. q \in 1..Len(file) /\ file[q] = <<b, k>> /\ q <= Len(grown)
        BY <1>4, <1>5, <3>1, <4>1, <4>2, <4>3
      <4>5. grown[q] = <<b, k>>
        BY <1>5, <4>4
      <4> QED
        BY <4>2, <4>3, <4>4, <4>5
    <3>3. CASE loc[b].file # Last
      BY <1>6, <2>1, <3>1, <3>3
    <3> QED
      BY <3>2, <3>3
  <2>3. \A f \in 1..Last : f < Last => files'[f] = files[f]
    BY <1>6
  <2>4. Last' >= Last /\ Last' \in Nat
    BY <1>4, <1>6
  <2>5. new[b] = loc[b] /\ used' = used /\ Last' = Last
    BY <1>2, <1>6, <1>7
  <2> QED
    BY <1>1, <1>7, <2>1, <2>2, <2>3, <2>4, <2>5, PlacesKept
<1>10. \/ new[begun + 1] = End(new, begun)
       \/ /\ begun > 0 /\ new[begun + 1] = NextStart(new, begun)
          /\ Len(files'[new[begun].file]) = new[begun].place + Pieces
  <2>1. End(new, begun) = End(loc, begun)
    BY <1>4, <1>7 DEF End
  <2>2. CASE End(loc, begun) = [file |-> Last, place |-> used]
    BY <1>7, <2>1, <2>2
  <2>3. CASE /\ begun > 0 /\ used = 0
             /\ NextStart(loc, begun) = [file |-> Last, place |-> used]
             /\ Ends(loc, begun)
    <3>1. begun \in 1..begun /\ new[begun] = loc[begun]
      BY <1>4, <1>7, <2>3
    <3>2. loc[begun].file \in 1..Last
      BY <1>1, <3>1 DEF Layout
    <3>3. loc[begun].file + 1 = Last
      BY <2>3 DEF NextStart
    <3>4. files'[loc[begun].file] = files[loc[begun].file]
      BY <1>4, <1>6, <3>2, <3>3
    <3>5. /\ Len(files'[new[begun].file]) = new[begun].place + Pieces
          /\ NextStart(new, begun) = NextStart(loc, begun)
      BY <2>3, <3>1, <3>4 DEF Ends, NextStart
    <3> QED
      BY <1>7, <2>3, <3>5
  <2> QED
    BY <1>1, <1>2, <2>2, <2>3 DEF Layout
<1>11. Front' = used /\ Front = used
  BY <1>2, <1>4 DEF Front
<1>12. Front' <= Len(files'[Last'])
       /\ \A p \in 1..Len(files'[Last']) : p > Front' => chunk' > 0 /\ files'[Last'][p] = Zero
  <2>1. used <= Len(file) /\ \A p \in 1..Len(file) : p > used => chunk > 0 /\ file[p] = Zero
    BY <1>1, <1>3, <1>11 DEF Layout
  <2>2. ASSUME NEW p \in 1..Len(grown), p > used PROVE chunk > 0 /\ grown[p] = Zero
    <3>1. CASE p > Len(file)
      BY <1>5, <3>1
    <3>2. CASE ~(p > Len(file))
      <4>1. p \in 1..Len(file)
        BY <1>4, <1>5, <3>2
      <4> QED
        BY <1>5, <2>1, <2>2, <4>1
    <3> QED
      BY <3>1, <3>2
  <2> QED
    BY <1>2, <1>4, <1>5, <1>6, <1>11, <2>1, <2>2
<1>13. Layout(new)'
  <2>1. ASSUME NEW b \in 1..begun'
        PROVE  /\ new[b].file \in 1..Last' /\ new[b].place \in Nat
               /\ \/ new[b] = End(new, b - 1)
                  \/ b > 1 /\ new[b] = NextStart(new, b - 1) /\ Ends(new, b - 1)'
               /\ \A k \in 1..Pieces : Written(b, k)' =>
                  /\ new[b].place + k <= Len(files'[new[b].file])
                  /\ files'[new[b].file][new[b].place + k] = <<b, k>>
               /\ \/ new[b].file < Last'
                  \/ new[b].place + Pieces <= used'
                  \/ writer' # "idle" /\ b = begun'
    <3>1. CASE b = begun + 1
      <4>1. /\ new[b].file = Last /\ new[b].place = used /\ b - 1 = begun
            /\ begun > 0 => b > 1
        BY <1>4, <1>7, <3>1
      <4>2. \A k \in 1..Pieces : ~ Written(b, k)'
        BY <1>2, <1>4, <3>1 DEF Written
      <4> QED
        BY <1>2, <1>4, <1>6, <1>10, <3>1, <4>1, <4>2 DEF Ends
    <3>2. CASE b # begun + 1
      <4>1. b \in 1..begun
        BY <1>2, <1>4, <3>2
      <4> QED
        BY <1>9, <4>1
    <3> QED
      BY <3>1, <3>2
  <2>2. writer' # "idle" /\ begun' > 0 /\ new[begun'] = [file |-> Last', place |-> used']
    BY <1>2, <1>4, <1>6, <1>7
  <2> QED
    BY <1>12, <2>1, <2>2 DEF Layout
<1>14. ReaderAt(new)'
  BY <1>1, <1>2, <1>4, <1>7, <1>8, ReaderSame
<1> QED
  BY <1>13, <1>14 DEF Placed

\* What bitcoind does when it writes a cell.
LEMMA WriteEffect ==
  ASSUME Shape, NEW loc, Layout(loc), WritePiece
  PROVE  /\ writer = "write" /\ piece < Pieces /\ piece' = piece + 1
         /\ UNCHANGED <<chunk, used, begun, writer, writeLock, unlocked, dbVars, readerVars>>
         /\ \E file \in Seq(CellType) :
              /\ files' = [files EXCEPT ![Last] = file]
              /\ Len(file) \in Nat /\ Len(file) >= Len(files[Last])
              /\ Len(file) >= used + piece + 1
              /\ file[used + piece + 1] = <<begun, piece + 1>>
              /\ \A p \in 1..Len(files[Last]) : p # used + piece + 1 => file[p] = files[Last][p]
              /\ Len(file) > Len(files[Last]) => Len(file) = used + piece + 1
<1>1. PICK old : old = files[Last]
  OBVIOUS
<1>2. PICK p : p = used + piece + 1
  OBVIOUS
<1>3. PICK file : file = IF p <= Len(old) THEN [old EXCEPT ![p] = <<begun, piece + 1>>]
                         ELSE Append(old, <<begun, piece + 1>>)
  OBVIOUS
<1>4. /\ used \in Nat /\ piece \in Nat /\ begun \in Nat /\ p \in Nat \ {0}
      /\ old \in Seq(CellType) /\ Len(old) \in Nat
  BY <1>1, <1>2, LastFacts, Numbers DEF Shape
<1>5. files' = [files EXCEPT ![Last] = file] /\ writer = "write"
  BY <1>1, <1>2, <1>3 DEF WritePiece
<1>6. p <= Len(old) + 1
  <2>1. Front = used + piece /\ Front <= Len(old)
    BY <1>1, <1>5 DEF Front, Layout
  <2> QED
    BY <1>2, <1>4, <2>1
<1>7. <<begun, piece + 1>> \in CellType
  BY <1>4 DEF CellType
<1>8. /\ file \in Seq(CellType) /\ Len(file) \in Nat /\ Len(file) >= Len(old)
      /\ Len(file) >= p /\ file[p] = <<begun, piece + 1>>
      /\ \A q \in 1..Len(old) : q # p => file[q] = old[q]
      /\ Len(file) > Len(old) => Len(file) = p
  <2>1. CASE p <= Len(old)
    <3>1. file = [old EXCEPT ![p] = <<begun, piece + 1>>] /\ p \in 1..Len(old)
      BY <1>3, <1>4, <2>1
    <3>2. /\ file \in Seq(CellType) /\ Len(file) = Len(old)
          /\ file[p] = <<begun, piece + 1>>
          /\ \A q \in 1..Len(old) : q # p => file[q] = old[q]
      BY <1>4, <1>7, <3>1
    <3> QED
      BY <1>4, <2>1, <3>2
  <2>2. CASE ~(p <= Len(old))
    <3>1. file = Append(old, <<begun, piece + 1>>) /\ p = Len(old) + 1
      BY <1>3, <1>4, <1>6, <2>2
    <3>2. /\ file \in Seq(CellType) /\ Len(file) = Len(old) + 1
          /\ file[Len(old) + 1] = <<begun, piece + 1>>
          /\ \A q \in 1..Len(old) : file[q] = old[q]
      BY <1>4, <1>7, <3>1, AppendProperties
    <3> QED
      BY <1>4, <3>1, <3>2
  <2> QED
    BY <2>1, <2>2
<1> QED
  BY <1>1, <1>2, <1>5, <1>8 DEF WritePiece

LEMMA PlacedWrite ==
  ASSUME Shape, Placed, WritePiece
  PROVE  Placed'
<1>1. PICK loc : Layout(loc) /\ ReaderAt(loc)
  BY DEF Placed
<1>2. /\ writer = "write" /\ piece < Pieces /\ piece' = piece + 1
      /\ UNCHANGED <<chunk, used, begun, writer, dbVars, readerVars>>
  BY <1>1, WriteEffect
<1>3. PICK old, p : old = files[Last] /\ p = used + piece + 1
  OBVIOUS
<1>4. /\ begun \in Nat /\ used \in Nat /\ Pieces \in Nat /\ piece \in Nat
      /\ Last \in Nat \ {0} /\ Len(old) \in Nat /\ old \in Seq(CellType)
  BY <1>3, LastFacts, Numbers DEF Shape
<1>5. PICK file \in Seq(CellType) :
        /\ files' = [files EXCEPT ![Last] = file]
        /\ Len(file) \in Nat /\ Len(file) >= Len(old) /\ Len(file) >= p
        /\ file[p] = <<begun, piece + 1>>
        /\ \A q \in 1..Len(old) : q # p => file[q] = old[q]
        /\ Len(file) > Len(old) => Len(file) = p
  BY <1>1, <1>3, WriteEffect
<1>6. /\ Last' = Last /\ files'[Last] = file
      /\ \A f \in 1..Last : f # Last => files'[f] = files[f]
  BY <1>5, LastFacts DEF Last, Shape
<1>7. begun > 0 /\ loc[begun] = [file |-> Last, place |-> used] /\ begun \in 1..begun
  BY <1>1, <1>2, <1>4 DEF Layout
<1>8. ASSUME NEW b \in 1..begun, NEW k \in 1..Pieces, Written(b, k)'
      PROVE  /\ loc[b].place + k <= Len(files'[loc[b].file])
             /\ files'[loc[b].file][loc[b].place + k] = <<b, k>>
  <2>1. loc[b].file \in 1..Last /\ loc[b].place \in Nat
    BY <1>1 DEF Layout
  <2>2. CASE b = begun /\ k = piece + 1
    <3>1. loc[b].file = Last /\ loc[b].place + k = p
      BY <1>3, <1>4, <1>7, <2>2
    <3> QED
      BY <1>5, <1>6, <2>2, <3>1
  <2>3. CASE ~(b = begun /\ k = piece + 1)
    <3>1. Written(b, k)
      BY <1>2, <1>4, <1>8, <2>3 DEF Written
    <3>2. /\ loc[b].place + k <= Len(files[loc[b].file])
          /\ files[loc[b].file][loc[b].place + k] = <<b, k>>
      BY <1>1, <3>1 DEF Layout
    <3>3. CASE loc[b].file # Last
      BY <1>6, <2>1, <3>2, <3>3
    <3>4. CASE loc[b].file = Last
      <4>1. PICK q : q = loc[b].place + k
        OBVIOUS
      <4>2. q # p
        <5>1. CASE b = begun
          BY <1>3, <1>4, <1>7, <2>3, <4>1, <5>1
        <5>2. CASE b # begun
          <6>1. loc[b].place + Pieces <= used
            BY <1>1, <1>4, <3>4, <5>2 DEF Layout
          <6> QED
            BY <1>3, <1>4, <2>1, <4>1, <6>1
        <5> QED
          BY <5>1, <5>2
      <4>3. q \in 1..Len(old) /\ old[q] = <<b, k>>
        BY <1>3, <1>4, <2>1, <3>2, <3>4, <4>1, SMTT(30)
      <4>4. file[q] = <<b, k>> /\ q <= Len(file)
        BY <1>4, <1>5, <4>2, <4>3
      <4> QED
        BY <1>6, <3>4, <4>1, <4>4
    <3> QED
      BY <3>3, <3>4
  <2> QED
    BY <2>2, <2>3
<1>9. ASSUME NEW b \in 1..begun
      PROVE  /\ loc[b].file \in 1..Last' /\ loc[b].place \in Nat
             /\ \/ loc[b] = End(loc, b - 1)
                \/ b > 1 /\ loc[b] = NextStart(loc, b - 1) /\ Ends(loc, b - 1)'
             /\ \A k \in 1..Pieces : Written(b, k)' =>
                /\ loc[b].place + k <= Len(files'[loc[b].file])
                /\ files'[loc[b].file][loc[b].place + k] = <<b, k>>
  BY <1>1, <1>4, <1>6, <1>8, PlacesKept
<1>10. ASSUME NEW b \in 1..begun
       PROVE  \/ loc[b].file < Last'
              \/ loc[b].place + Pieces <= used'
              \/ writer' # "idle" /\ b = begun'
  BY <1>1, <1>2, <1>6 DEF Layout
<1>11. Front = used + piece /\ Front' = p
  BY <1>2, <1>3, <1>4 DEF Front
<1>12. Front' <= Len(files'[Last'])
       /\ \A q \in 1..Len(files'[Last']) : q > Front' => chunk' > 0 /\ files'[Last'][q] = Zero
  <2>1. ASSUME NEW q \in 1..Len(file), q > p PROVE chunk > 0 /\ file[q] = Zero
    <3>1. q \in 1..Len(old) /\ q # p /\ q > Front
      BY <1>3, <1>4, <1>5, <1>11, <2>1
    <3>2. chunk > 0 /\ old[q] = Zero
      BY <1>1, <1>3, <3>1 DEF Layout
    <3> QED
      BY <1>5, <3>1, <3>2
  <2> QED
    BY <1>2, <1>5, <1>6, <1>11, <2>1
<1>13. Layout(loc)'
  BY <1>2, <1>6, <1>7, <1>9, <1>10, <1>12 DEF Layout
<1>14. ReaderAt(loc)'
  <2>1. \A b \in 1..begun : Written(b, 1) => Written(b, 1)'
    BY <1>2, <1>4 DEF Written
  <2> QED
    BY <1>1, <1>2, <1>4, <2>1, ReaderSame
<1> QED
  BY <1>13, <1>14 DEF Placed

LEMMA PlacedNextFile ==
  ASSUME Shape, Placed, NextFile
  PROVE  Placed'
<1>1. PICK loc : Layout(loc) /\ ReaderAt(loc)
  BY DEF Placed
<1>2. /\ writer = "idle" /\ used > 0 /\ used' = 0
      /\ UNCHANGED <<chunk, begun, piece, writer, dbVars, readerVars>>
  BY DEF NextFile
<1>3. PICK old, file : old = files[Last] /\ file = SubSeq(old, 1, used)
  OBVIOUS
<1>4. /\ begun \in Nat /\ used \in Nat /\ Pieces \in Nat /\ piece \in Nat
      /\ Last \in Nat \ {0} /\ Len(old) \in Nat /\ old \in Seq(CellType)
  BY <1>3, LastFacts, Numbers DEF Shape
<1>5. Front = used /\ Front' = 0 /\ used <= Len(old)
  <2>1. Front = used /\ Front' = 0
    BY <1>2, <1>4 DEF Front
  <2> QED
    BY <1>1, <1>3, <2>1 DEF Layout
<1>6. Len(file) = used /\ \A q \in 1..used : file[q] = old[q]
  BY <1>3, <1>4, <1>5
<1>7. files' = Append([files EXCEPT ![Last] = file], <<>>)
  BY <1>3 DEF NextFile
<1>8. /\ Last' = Last + 1 /\ files'[Last + 1] = <<>> /\ files'[Last] = file
      /\ \A f \in 1..Last : f # Last => files'[f] = files[f]
  <2>1. files \in Seq(Seq(CellType)) /\ Len(files) = Last /\ file \in Seq(CellType)
    BY <1>3, <1>4, <1>5 DEF Shape, Last
  <2>2. PICK fs : fs = [files EXCEPT ![Last] = file]
    OBVIOUS
  <2>3. fs \in Seq(Seq(CellType)) /\ Len(fs) = Last /\ fs[Last] = file
        /\ \A f \in 1..Last : f # Last => fs[f] = files[f]
    BY <1>4, <2>1, <2>2
  <2>4. <<>> \in Seq(CellType) /\ files' = Append(fs, <<>>)
    BY <1>7, <2>2
  <2>5. Len(files') = Last + 1 /\ files'[Last + 1] = <<>>
        /\ \A f \in 1..Last : files'[f] = fs[f]
    BY <2>3, <2>4, AppendProperties
  <2> QED
    BY <1>4, <2>3, <2>5 DEF Last
<1>9. /\ End(loc, begun) = [file |-> Last, place |-> used] /\ begun \in 1..begun
      /\ loc[begun].file = Last /\ loc[begun].place + Pieces = used
  <2>1. End(loc, begun) = [file |-> Last, place |-> used]
    BY <1>1, <1>2 DEF Layout
  <2>2. begun # 0
    BY <1>2, <2>1 DEF End, First
  <2> QED
    BY <1>4, <2>1, <2>2 DEF End
<1>10. ASSUME NEW b \in 1..begun, NEW k \in 1..Pieces
       PROVE  /\ loc[b].place + k <= Len(files'[loc[b].file])
              /\ files'[loc[b].file][loc[b].place + k] = <<b, k>>
  <2>1. /\ loc[b].file \in 1..Last /\ loc[b].place \in Nat
        /\ loc[b].file < Last \/ loc[b].place + Pieces <= used
    BY <1>1, <1>2 DEF Layout
  <2>2. Written(b, k)
    BY <1>2, <1>4 DEF Written, Shape
  <2>3. /\ loc[b].place + k <= Len(files[loc[b].file])
        /\ files[loc[b].file][loc[b].place + k] = <<b, k>>
    BY <1>1, <2>2 DEF Layout
  <2>4. CASE loc[b].file # Last
    BY <1>8, <2>1, <2>3, <2>4
  <2>5. CASE loc[b].file = Last
    <3>1. loc[b].place + k \in 1..used
      BY <1>4, <2>1, <2>5, SMTT(30)
    <3>2. PICK q : q = loc[b].place + k
      OBVIOUS
    <3>3. q \in 1..used /\ old[q] = <<b, k>>
      BY <1>3, <2>3, <2>5, <3>1, <3>2
    <3>4. file[q] = <<b, k>> /\ q <= Len(file)
      BY <1>4, <1>6, <3>3
    <3> QED
      BY <1>8, <2>5, <3>2, <3>4
  <2> QED
    BY <2>4, <2>5
<1>11. ASSUME NEW b \in 1..begun
      PROVE  /\ loc[b].file \in 1..Last' /\ loc[b].place \in Nat
             /\ \/ loc[b] = End(loc, b - 1)
                \/ b > 1 /\ loc[b] = NextStart(loc, b - 1) /\ Ends(loc, b - 1)'
             /\ \A k \in 1..Pieces : Written(b, k)' =>
                /\ loc[b].place + k <= Len(files'[loc[b].file])
                /\ files'[loc[b].file][loc[b].place + k] = <<b, k>>
  <2>1. Last' >= Last /\ Last' \in Nat /\ \A f \in 1..Last : f < Last => files'[f] = files[f]
    BY <1>4, <1>8
  <2>2. \A k \in 1..Pieces :
          /\ loc[b].place + k <= Len(files'[loc[b].file])
          /\ files'[loc[b].file][loc[b].place + k] = <<b, k>>
    BY <1>10
  <2> QED
    BY <1>1, <2>1, <2>2, PlacesKept
<1>12. \A b \in 1..begun : loc[b].file < Last'
  BY <1>1, <1>4, <1>8 DEF Layout
<1>13. NextStart(loc, begun) = [file |-> Last', place |-> used']
  BY <1>2, <1>8, <1>9 DEF NextStart
<1>14. Len(files'[loc[begun].file]) = loc[begun].place + Pieces
  BY <1>6, <1>8, <1>9
<1>15. Len(files'[Last']) = 0
  BY <1>8
<1>16. Layout(loc)'
  <2>1. \/ End(loc, begun') = [file |-> Last', place |-> used']
        \/ /\ begun' > 0 /\ used' = 0
           /\ NextStart(loc, begun') = [file |-> Last', place |-> used']
           /\ Len(files'[loc[begun'].file]) = loc[begun'].place + Pieces
    BY <1>2, <1>9, <1>13, <1>14
  <2> QED
    BY <1>2, <1>5, <1>11, <1>12, <1>15, <2>1 DEF Layout, Ends
<1>17. ReaderAt(loc)'
  <2>1. \A b \in 1..begun : Written(b, 1) => Written(b, 1)'
    BY <1>2, <1>4 DEF Written
  <2> QED
    BY <1>1, <1>2, <1>4, <2>1, ReaderSame
<1> QED
  BY <1>16, <1>17 DEF Placed

\* The file and the places are the same before and after a block is written.
LEMMA PlacedLock ==
  ASSUME Shape, Placed, LockToWrite
  PROVE  Placed'
<1>1. PICK loc : Layout(loc) /\ ReaderAt(loc)
  BY DEF Placed
<1>2. /\ writer = "open" /\ writer' = "write"
      /\ UNCHANGED <<files, chunk, used, begun, piece, dbVars, readerVars>>
  BY DEF LockToWrite
<1>3. Front' = Front /\ Last' = Last
  BY <1>2 DEF Front, Last
<1>4. Layout(loc)'
  BY <1>1, <1>2, <1>3 DEF Layout, Written, End, Ends, NextStart
<1>5. ReaderAt(loc)'
  <2>1. begun \in Nat /\ \A b \in 1..begun : Written(b, 1) => Written(b, 1)'
    BY <1>2 DEF Written, Shape
  <2> QED
    BY <1>1, <1>2, <2>1, ReaderSame
<1> QED
  BY <1>4, <1>5 DEF Placed

LEMMA PlacedEnd ==
  ASSUME Shape, Placed, EndBlock
  PROVE  Placed'
<1>1. PICK loc : Layout(loc) /\ ReaderAt(loc)
  BY DEF Placed
<1>2. /\ writer = "write" /\ piece = Pieces /\ writer' = "idle" /\ used' = used + Pieces
      /\ UNCHANGED <<files, chunk, begun, piece, dbVars, readerVars>>
  BY DEF EndBlock
<1>3. begun \in Nat /\ used \in Nat /\ Pieces \in Nat /\ Last \in Nat
  BY LastFacts, Numbers DEF Shape
<1>4. Front' = Front /\ Last' = Last
  BY <1>2, <1>3 DEF Front, Last
<1>5. begun > 0 /\ loc[begun] = [file |-> Last, place |-> used]
  BY <1>1, <1>2 DEF Layout
<1>6. End(loc, begun) = [file |-> Last, place |-> used']
  BY <1>2, <1>3, <1>5 DEF End
<1>7. ASSUME NEW b \in 1..begun
      PROVE  loc[b].file < Last \/ loc[b].place + Pieces <= used'
  <2>1. loc[b].file \in 1..Last /\ loc[b].place \in Nat
    BY <1>1 DEF Layout
  <2>2. loc[b].file < Last \/ loc[b].place + Pieces <= used \/ b = begun
    BY <1>1 DEF Layout
  <2> QED
    BY <1>2, <1>3, <1>5, <2>1, <2>2
<1>8. Layout(loc)'
  BY <1>1, <1>2, <1>4, <1>6, <1>7 DEF Layout, Written, End, Ends, NextStart
<1>9. ReaderAt(loc)'
  <2>1. \A b \in 1..begun : Written(b, 1) => Written(b, 1)'
    BY <1>2, <1>3 DEF Written
  <2> QED
    BY <1>1, <1>2, <1>3, <2>1, ReaderSame
<1> QED
  BY <1>8, <1>9 DEF Placed

-----------------------------------------------------------------------------
(* The reader.                                                             *)

\* What a failed read leaves.
LEMMA FailEffect ==
  ASSUME Shape, NEW f, NEW p, Fail(f, p)
  PROVE  at' = back /\ pc' = "idle" /\ back' = back /\ buffer' = <<>> /\ block' = <<>>
  BY DEF Fail, Retry, SetPosition

\* A successful read of the magic number: the next block, and its first cells.
LEMMA MagicEffect ==
  ASSUME Shape, Placed, ReadMagic, pc' = "magic"
  PROVE  \E loc :
           LET n == LastImported IN
           /\ Layout(loc) /\ ReaderAt(loc) /\ n < begun /\ n + 1 \in 1..begun
           /\ Written(n + 1, 1) /\ at' = loc[n + 1] /\ back' = back /\ UNCHANGED block
           /\ at'.file \in 1..Last /\ at' \in PlaceType
           /\ at'.file = back.file \/ at'.place = 0
           /\ buffer' \in Seq(CellType) /\ Len(buffer') > 0
           /\ at'.place + Len(buffer') <= Len(files[at'.file])
           /\ \A k \in 1..Len(buffer') : buffer'[k] = files[at'.file][at'.place + k]
           /\ buffer'[1] = <<n + 1, 1>>
<1>1. PICK loc : Layout(loc) /\ ReaderAt(loc)
  BY DEF Placed
<1>2. PICK n : n = LastImported
  OBVIOUS
<1>3. /\ n \in 0..begun /\ at = End(loc, n) /\ at = back /\ begun \in Nat
      /\ pc = "locked"
  BY <1>1, <1>2 DEF ReadMagic, ReaderAt, Reading, Shape
<1>4. PICK from : from = ToRead
  OBVIOUS
<1>5. ~ Fail(from.file, from.place)
      /\ \A p \in Ahead(from.file, from.place) : ~ Fail(from.file, p)
  BY DEF Fail
<1>6. PICK p \in Ahead(from.file, from.place) \ {from.place} :
        /\ files[from.file][from.place + 1][2] = 1
        /\ at' = from /\ buffer' = SubSeq(files[from.file], from.place + 1, p)
        /\ UNCHANGED <<back, block>>
  BY <1>4, <1>5 DEF ReadMagic
<1>7. from \in PlaceType /\ from.file \in 1..Last
  <2>1. at.file \in 1..Last /\ at \in PlaceType /\ Last \in Nat
    BY <1>1, <1>3, EndFacts, LastFacts
  <2> QED
    BY <1>4, <2>1 DEF ToRead, AtEnd, PlaceType
<1>8. /\ from.place \in Nat /\ files[from.file] \in Seq(CellType)
      /\ Len(files[from.file]) \in Nat
  BY <1>7, LastFacts DEF PlaceType
<1>9. p \in Nat /\ p > from.place /\ p <= Len(files[from.file])
  BY <1>6, <1>8, Numbers DEF Ahead
<1>10. Len(files[from.file]) > from.place
  BY <1>8, <1>9
<1>11. /\ n < begun /\ from = loc[n + 1] /\ Written(n + 1, 1)
       /\ from = at \/ from.place = 0
       /\ files[from.file][from.place + 1] = <<n + 1, 1>>
  BY <1>1, <1>3, <1>4, <1>6, <1>10, NextBlock
<1>12. PICK file : file = files[from.file]
  OBVIOUS
<1>13. /\ buffer' \in Seq(CellType) /\ Len(buffer') = p - from.place
       /\ \A k \in 1..(p - from.place) : buffer'[k] = file[from.place + k]
  <2>1. file \in Seq(CellType) /\ Len(file) \in Nat /\ p <= Len(file)
        /\ buffer' = SubSeq(file, from.place + 1, p)
    BY <1>6, <1>8, <1>9, <1>12
  <2>2. buffer' \in Seq(CellType)
    BY <1>8, <1>9, <2>1, SubSeqProperties
  <2>3. Len(buffer') = p - from.place
    BY <1>8, <1>9, <2>1, SubSeqProperties
  <2>4. ASSUME NEW k \in 1..(p - from.place) PROVE buffer'[k] = file[from.place + k]
    BY <1>8, <1>9, <2>1, SubSeqProperties
  <2> QED
    BY <2>2, <2>3, <2>4
<1>14. Len(buffer') > 0 /\ from.place + Len(buffer') <= Len(file) /\ buffer'[1] = <<n + 1, 1>>
  <2>1. Len(buffer') > 0 /\ from.place + Len(buffer') <= Len(file)
    BY <1>8, <1>9, <1>12, <1>13
  <2>2. 1 \in 1..(p - from.place)
    BY <1>8, <1>9
  <2>3. buffer'[1] = file[from.place + 1]
    BY <1>13, <2>2, Zenon
  <2> QED
    BY <1>11, <1>12, <2>1, <2>3, Zenon
<1>15. n + 1 \in 1..begun
  BY <1>3, <1>11
<1>16. at'.file = back.file \/ at'.place = 0
  BY <1>3, <1>6, <1>11
<1>17. Written(LastImported + 1, 1)
  BY <1>2, <1>11
<1>18. \A k \in 1..Len(buffer') : buffer'[k] = files[at'.file][at'.place + k]
  BY <1>6, <1>12, <1>13
<1>19. /\ LastImported < begun /\ LastImported + 1 \in 1..begun /\ at' = loc[LastImported + 1]
       /\ at'.file \in 1..Last /\ at' \in PlaceType /\ back' = back /\ UNCHANGED block
       /\ at'.place + Len(buffer') <= Len(files[at'.file])
       /\ buffer'[1] = <<LastImported + 1, 1>>
  BY <1>2, <1>6, <1>7, <1>11, <1>12, <1>14, <1>15
<1> QED
  BY <1>1, <1>13, <1>14, <1>16, <1>17, <1>18, <1>19

\* The end of the next block, once it is read.
LEMMA ReadEnd ==
  ASSUME Shape, NEW loc, Layout(loc), ReaderAt(loc), pc = "magic"
  PROVE  /\ LastImported + 1 \in 1..begun /\ at = loc[LastImported + 1]
         /\ [at EXCEPT !.place = @ + Pieces] = End(loc, LastImported + 1)
         /\ at \in PlaceType /\ at.file \in 1..Last
<1>1. /\ LastImported < begun /\ LastImported \in 0..begun /\ begun \in Nat
      /\ at = loc[LastImported + 1]
  BY DEF ReaderAt, Shape
<1>2. LastImported + 1 \in 1..begun /\ LastImported + 1 # 0
  BY <1>1
<1>3. at.file \in 1..Last /\ at.place \in Nat /\ at \in PlaceType
  BY <1>1, <1>2 DEF Layout, Shape
<1>4. [at EXCEPT !.place = @ + Pieces] = [file |-> at.file, place |-> at.place + Pieces]
  BY <1>3 DEF PlaceType
<1> QED
  BY <1>1, <1>2, <1>3, <1>4 DEF End

\* A successful read of the rest: the cells of the next block.
LEMMA DataEffect ==
  ASSUME Shape, Placed, ReadData, pc' = "process"
  PROVE  /\ pc = "magic" /\ UNCHANGED <<files, chunk, writerVars, dbVars, back>>
         /\ Complete /\ block' = Cells /\ at' = [at EXCEPT !.place = @ + Pieces]
         /\ buffer' = <<>>
         /\ Cells \in Seq(CellType) /\ Len(Cells) = Pieces /\ Cells[1] = buffer[1]
<1>1. PICK loc : Layout(loc) /\ ReaderAt(loc)
  BY DEF Placed
<1>2. /\ pc = "magic" /\ UNCHANGED <<files, chunk, writerVars, dbVars, back>>
      /\ Complete /\ block' = Cells /\ at' = [at EXCEPT !.place = @ + Pieces]
      /\ buffer' = <<>>
  BY DEF ReadData, Fail
<1>3. Len(buffer) > 0 /\ buffer \in Seq(CellType) /\ Len(buffer) \in Nat
      /\ Pieces \in Nat /\ Pieces > 1
  BY <1>1, <1>2, Numbers DEF ReaderAt, Shape
<1>4. at \in PlaceType /\ at.file \in 1..Last
  BY <1>1, <1>2, ReadEnd
<1>5. ASSUME NEW k \in 1..Pieces PROVE Cells[k] \in CellType
  <2>1. CASE k <= Len(buffer)
    BY <1>3, <2>1 DEF Cells
  <2>2. CASE ~(k <= Len(buffer))
    <3>1. Cells[k] = Cell(at.file, at.place + k)
      BY <2>2 DEF Cells
    <3>2. at.place + k \in Nat /\ at.place + k >= 1
      BY <1>3, <1>4 DEF PlaceType
    <3>3. files[at.file] \in Seq(CellType) /\ Len(files[at.file]) \in Nat
      BY <1>4, LastFacts
    <3>4. CASE at.place + k <= Len(files[at.file])
      <4>1. at.place + k \in 1..Len(files[at.file])
        BY <3>2, <3>3, <3>4
      <4>2. files[at.file][at.place + k] \in CellType
        BY <3>3, <4>1, ElementOfSeq
      <4> QED
        BY <3>1, <3>4, <4>2 DEF Cell
    <3>5. CASE ~(at.place + k <= Len(files[at.file]))
      BY <3>1, <3>5 DEF Cell, Zero, CellType
    <3> QED
      BY <3>4, <3>5
  <2> QED
    BY <2>1, <2>2
<1>6. Cells \in Seq(CellType) /\ Len(Cells) = Pieces
  <2>1. Cells = [k \in 1..Pieces |-> Cells[k]]
    BY DEF Cells
  <2>2. Cells \in [1..Pieces -> CellType]
    BY <1>5, <2>1
  <2> QED
    BY <1>3, <2>2, SeqDef
<1>7. Cells[1] = buffer[1]
  BY <1>3 DEF Cells
<1> QED
  BY <1>2, <1>6, <1>7

\* Steps of the reader leave the places.
LEMMA LastImportedSame ==
  ASSUME UNCHANGED imported
  PROVE  LastImported' = LastImported
  BY DEF LastImported, Number

LEMMA PlacedReader ==
  ASSUME Shape, Placed, LockToRead \/ ReadMagic \/ ReadData \/ Start \/ Crash
  PROVE  Placed'
<1>1. PICK loc : Layout(loc) /\ ReaderAt(loc)
  BY DEF Placed
<1>2. /\ UNCHANGED <<files, chunk, used, begun, piece, writer, saved, imported>>
      /\ LastImported' = LastImported
  BY LastImportedSame DEF LockToRead, ReadMagic, ReadData, Start, Crash, writerVars, dbVars
<1>3. /\ Layout(loc)'
      /\ LastImported \in 0..begun /\ saved = End(loc, LastImported)
  BY <1>1, <1>2, LayoutSame DEF ReaderAt
<1>4. CASE LockToRead
  <2>1. pc = "idle" /\ pc' = "locked" /\ back' = at /\ at' = at /\ at = End(loc, LastImported)
    BY <1>1, <1>4 DEF LockToRead, ReaderAt
  <2> QED
    BY <1>2, <1>3, <2>1 DEF Placed, ReaderAt, Reading
<1>5. CASE (ReadMagic \/ ReadData) /\ pc' \notin {"magic", "process"}
  <2>1. Reading /\ \E f, p : Fail(f, p)
    BY <1>5 DEF ReadMagic, ReadData, Reading
  <2>2. at' = back /\ pc' = "idle" /\ back = End(loc, LastImported)
    BY <1>1, <2>1, FailEffect DEF ReaderAt
  <2> QED
    BY <1>2, <1>3, <2>2 DEF Placed, ReaderAt, Reading
<1>6. CASE ReadMagic /\ pc' = "magic"
  <2>1. PICK loc2 :
          LET n == LastImported IN
          /\ Layout(loc2) /\ ReaderAt(loc2) /\ n < begun
          /\ Written(n + 1, 1) /\ at' = loc2[n + 1] /\ back' = back
          /\ at'.file = back.file \/ at'.place = 0
          /\ Len(buffer') > 0 /\ buffer'[1] = <<n + 1, 1>>
    BY <1>6, MagicEffect
  <2>2. Layout(loc2)' /\ LastImported \in 0..begun /\ saved = End(loc2, LastImported)
        /\ back = End(loc2, LastImported)
    BY <1>2, <1>6, <2>1, LayoutSame DEF ReaderAt, Reading, ReadMagic
  <2>3. Written(LastImported + 1, 1)'
    BY <1>2, <2>1 DEF Written
  <2> QED
    BY <1>2, <1>6, <2>1, <2>2, <2>3 DEF Placed, ReaderAt, Reading
<1>7. CASE ReadData /\ pc' = "process"
  <2>1. /\ pc = "magic" /\ block' = Cells /\ at' = [at EXCEPT !.place = @ + Pieces]
        /\ Len(Cells) = Pieces /\ Cells[1] = buffer[1]
    BY <1>7, DataEffect
  <2>2. /\ LastImported < begun /\ buffer[1] = <<LastImported + 1, 1>>
        /\ at' = End(loc, LastImported + 1)
    BY <1>1, <2>1, ReadEnd DEF ReaderAt
  <2> QED
    BY <1>2, <1>3, <1>7, <2>1, <2>2 DEF Placed, ReaderAt, Reading
<1>8. CASE Start
  <2>1. pc' = "idle" /\ at' = saved
    BY <1>8 DEF Start, SetPosition
  <2> QED
    BY <1>2, <1>3, <2>1 DEF Placed, ReaderAt, Reading
<1>9. CASE Crash
  <2>1. pc' = "down"
    BY <1>9 DEF Crash
  <2> QED
    BY <1>2, <1>3, <2>1 DEF Placed, ReaderAt, Reading
<1>10. ReadMagic => pc' # "process"
  BY DEF ReadMagic, Fail
<1>11. ReadData => pc' # "magic"
  BY DEF ReadData, Fail
<1> QED
  BY <1>4, <1>5, <1>6, <1>7, <1>8, <1>9, <1>10, <1>11

\* The block that is committed is the next one.
LEMMA CommitEffect ==
  ASSUME Shape, Placed, Commit
  PROVE  /\ pc = "process" /\ pc' = "idle" /\ imported' = Append(imported, block)
         /\ Len(block) = Pieces /\ block[1] = <<LastImported + 1, 1>>
         /\ Number(block) = LastImported + 1 /\ LastImported < begun /\ LastImported \in Nat
         /\ Len(imported') = Len(imported) + 1 /\ imported'[Len(imported) + 1] = block
         /\ \A i \in 1..Len(imported) : imported'[i] = imported[i]
         /\ LastImported' = LastImported + 1
         /\ saved' = at /\ at' = at
<1>1. PICK loc : Layout(loc) /\ ReaderAt(loc)
  BY DEF Placed
<1>2. /\ pc = "process" /\ pc' = "idle" /\ imported' = Append(imported, block)
      /\ saved' = at /\ at' = at
  BY DEF Commit
<1>3. /\ Len(block) = Pieces /\ block[1] = <<LastImported + 1, 1>>
      /\ LastImported < begun /\ LastImported \in Nat
  BY <1>1, <1>2 DEF ReaderAt
<1>4. block # <<>> /\ Number(block) = LastImported + 1
  BY <1>3, Numbers DEF Number
<1>5. imported \in Seq(Seq(CellType)) /\ block \in Seq(CellType) /\ Len(imported) \in Nat
  BY DEF Shape
<1>6. /\ Len(imported') = Len(imported) + 1 /\ imported'[Len(imported) + 1] = block
      /\ \A i \in 1..Len(imported) : imported'[i] = imported[i]
  BY <1>2, <1>5, AppendProperties
<1>7. imported' # <<>> /\ imported'[Len(imported')] = block
  BY <1>5, <1>6
<1>8. LastImported' = LastImported + 1
  BY <1>4, <1>7 DEF LastImported, Number
<1> QED
  BY <1>2, <1>3, <1>4, <1>6, <1>8

LEMMA PlacedCommit ==
  ASSUME Shape, Placed, Commit
  PROVE  Placed'
<1>1. PICK loc : Layout(loc) /\ ReaderAt(loc)
  BY DEF Placed
<1>2. /\ pc = "process" /\ pc' = "idle" /\ LastImported' = LastImported + 1
      /\ LastImported < begun /\ LastImported \in Nat /\ saved' = at /\ at' = at
  BY CommitEffect
<1>3. UNCHANGED <<files, chunk, used, begun, piece, writer>> /\ begun \in Nat
  BY DEF Commit, writerVars, Shape
<1>4. Layout(loc)'
  BY <1>1, <1>3, LayoutSame
<1>5. at = End(loc, LastImported + 1)
  BY <1>1, <1>2 DEF ReaderAt
<1> QED
  BY <1>2, <1>3, <1>4, <1>5 DEF Placed, ReaderAt, Reading

-----------------------------------------------------------------------------
(* The types.                                                              *)

LEMMA FilesChanged ==
  ASSUME Shape, NEW file \in Seq(CellType), files' = [files EXCEPT ![Last] = file]
  PROVE  files' \in Seq(Seq(CellType)) /\ Len(files') > 0
  BY LastFacts DEF Shape

LEMMA ShapeNext ==
  ASSUME Shape, Placed, [Next]_vars
  PROVE  Shape'
<1> USE DEF Shape
<1>1. CASE BeginBlock
  <2>1. /\ writer' = "open" /\ begun' = begun + 1 /\ piece' = 0
        /\ UNCHANGED <<chunk, used, writeLock, unlocked, dbVars, readerVars>>
        /\ files' \in Seq(Seq(CellType)) /\ Len(files') > 0
    BY <1>1, BeginEffect, FilesChanged
  <2> QED
    BY <2>1, Numbers DEF dbVars, readerVars
<1>2. CASE NextFile
  <2>1. /\ used' = 0 /\ UNCHANGED <<chunk, begun, piece, writer, writeLock, dbVars, readerVars>>
        /\ files' = Append([files EXCEPT ![Last] = SubSeq(files[Last], 1, used)], <<>>)
        /\ writer = "idle"
    BY <1>2 DEF NextFile
  <2>2. used <= Len(files[Last])
    <3>1. Front = used
      BY <2>1 DEF Front
    <3> QED
      BY <3>1 DEF Placed, Layout
  <2>3. SubSeq(files[Last], 1, used) \in Seq(CellType)
    BY <2>2, LastFacts, SubSeqProperties
  <2>4. PICK fs : fs = [files EXCEPT ![Last] = SubSeq(files[Last], 1, used)]
    OBVIOUS
  <2>5. fs \in Seq(Seq(CellType))
    <3>1. Last \in 1..Len(files)
      BY LastFacts
    <3> QED
      BY <2>3, <2>4, <3>1
  <2>6. <<>> \in Seq(CellType) /\ files' = Append(fs, <<>>)
    BY <2>1, <2>4
  <2>7. files' \in Seq(Seq(CellType)) /\ Len(files') = Len(fs) + 1
    BY <2>5, <2>6, AppendProperties
  <2>8. Len(files') > 0
    BY <2>5, <2>7
  <2> QED
    BY <2>1, <2>7, <2>8 DEF dbVars, readerVars
<1>3. CASE LockToWrite
  <2>1. /\ writer' = "write" /\ writeLock' \in BOOLEAN /\ writer = "open"
        /\ UNCHANGED <<files, chunk, used, begun, piece, dbVars, readerVars>>
    BY <1>3 DEF LockToWrite
  <2> QED
    BY <2>1 DEF dbVars, readerVars
<1>4. CASE WritePiece
  <2>1. PICK loc : Layout(loc)
    BY DEF Placed
  <2>2. /\ piece < Pieces /\ piece' = piece + 1 /\ writer = "write"
        /\ UNCHANGED <<chunk, used, begun, writer, writeLock, dbVars, readerVars>>
        /\ files' \in Seq(Seq(CellType)) /\ Len(files') > 0
    BY <1>4, <2>1, WriteEffect, FilesChanged
  <2> QED
    BY <2>2, Numbers DEF dbVars, readerVars
<1>5. CASE EndBlock
  <2>1. /\ writer' = "idle" /\ writeLock' = FALSE /\ used' = used + Pieces /\ piece = Pieces
        /\ UNCHANGED <<files, chunk, begun, piece, dbVars, readerVars>>
    BY <1>5 DEF EndBlock
  <2>2. used' \in Nat /\ writer' \in {"idle", "open", "write"} /\ writeLock' \in BOOLEAN
    <3>1. used \in Nat /\ Pieces \in Nat
      BY Numbers
    <3>2. used' \in Nat
      BY <2>1, <3>1
    <3> QED
      BY <2>1, <3>2
  <2>3. UNCHANGED <<files, chunk, begun, piece, imported, saved, at, back, pc, buffer, block>>
    BY <2>1 DEF dbVars, readerVars
  <2> QED
    BY <2>1, <2>2, <2>3
<1>6. CASE LockToRead
  <2>1. /\ pc' = "locked" /\ back' = at
        /\ UNCHANGED <<files, chunk, writerVars, saved, imported, at, buffer, block>>
    BY <1>6 DEF LockToRead, dbVars
  <2> QED
    BY <2>1 DEF writerVars
<1>7. CASE ReadMagic \/ ReadData
  <2>1. UNCHANGED <<files, chunk, used, begun, piece, writer, writeLock, saved, imported>>
    BY <1>7 DEF ReadMagic, ReadData, writerVars, dbVars
  <2>2. CASE \E f, p : Fail(f, p)
    <3>1. at' = back /\ pc' = "idle" /\ back' = back /\ buffer' = <<>> /\ block' = <<>>
      BY <2>2, FailEffect
    <3> QED
      BY <2>1, <3>1
  <2>3. CASE ~ \E f, p : Fail(f, p)
    <3>1. CASE ReadMagic
      <4>1. pc' = "magic"
        BY <2>3, <3>1 DEF ReadMagic
      <4>2. at' \in PlaceType /\ back' = back /\ UNCHANGED block /\ buffer' \in Seq(CellType)
        BY <3>1, <4>1, MagicEffect
      <4> QED
        BY <2>1, <4>1, <4>2
    <3>2. CASE ReadData
      <4>1. pc' = "process"
        BY <2>3, <3>2 DEF ReadData
      <4>2. /\ pc = "magic" /\ back' = back /\ block' \in Seq(CellType) /\ buffer' = <<>>
            /\ at' = [at EXCEPT !.place = @ + Pieces]
        BY <3>2, <4>1, DataEffect
      <4>3. PICK loc : Layout(loc) /\ ReaderAt(loc)
        BY DEF Placed
      <4>4. at' \in PlaceType
        <5>1. at' = End(loc, LastImported + 1)
          BY <4>2, <4>3, ReadEnd
        <5>2. LastImported + 1 \in 1..begun
          BY <4>2, <4>3, ReadEnd
        <5> QED
          BY <4>3, <5>1, <5>2, EndFacts
      <4> QED
        BY <2>1, <4>1, <4>2, <4>4
    <3> QED
      BY <1>7, <3>1, <3>2
  <2> QED
    BY <2>2, <2>3
<1>8. CASE Commit
  <2>1. /\ pc' = "idle" /\ imported' = Append(imported, block) /\ saved' = at /\ block' = <<>>
        /\ UNCHANGED <<files, chunk, used, begun, piece, writer, writeLock, at, back, buffer>>
    BY <1>8 DEF Commit, writerVars
  <2>2. imported' \in Seq(Seq(CellType))
    BY <2>1, AppendProperties
  <2> QED
    BY <2>1, <2>2
<1>9. CASE Start
  <2>1. /\ pc' = "idle" /\ at' = saved
        /\ UNCHANGED <<files, chunk, used, begun, piece, writer, writeLock, saved, imported,
                       back, buffer, block>>
    BY <1>9 DEF Start, SetPosition, writerVars, dbVars
  <2> QED
    BY <2>1
<1>10. CASE Crash
  <2>1. /\ pc' = "down" /\ at' = First /\ back' = First /\ buffer' = <<>> /\ block' = <<>>
        /\ UNCHANGED <<files, chunk, used, begun, piece, writer, writeLock, saved, imported>>
    BY <1>10 DEF Crash, writerVars, dbVars
  <2> QED
    BY <2>1 DEF First, PlaceType
<1>11. CASE UNCHANGED vars
  BY <1>11 DEF vars, writerVars, dbVars, readerVars
<1> QED
  BY <1>1, <1>2, <1>3, <1>4, <1>5, <1>6, <1>7, <1>8, <1>9, <1>10, <1>11
     DEF Next, Writer, Reader

LEMMA PlacedNext ==
  ASSUME Shape, Placed, [Next]_vars
  PROVE  Placed'
<1>1. CASE UNCHANGED vars
  <2>1. PICK loc : Layout(loc) /\ ReaderAt(loc)
    BY DEF Placed
  <2>2. /\ UNCHANGED <<files, chunk, used, begun, piece, writer, dbVars, readerVars>>
        /\ begun \in Nat
    BY <1>1 DEF vars, writerVars, Shape
  <2>3. Layout(loc)' /\ ReaderAt(loc)'
    BY <2>1, <2>2, LayoutSame, ReaderSame DEF Written
  <2> QED
    BY <2>3 DEF Placed
<1> QED
  BY <1>1, PlacedBegin, PlacedNextFile, PlacedLock, PlacedWrite, PlacedEnd, PlacedReader,
     PlacedCommit DEF Next, Writer, Reader

LEMMA PlacedInit == ASSUME Init PROVE Shape /\ Placed
<1>1. Shape
  <2>1. <<>> \in Seq(CellType) /\ files \in Seq(Seq(CellType)) /\ Len(files) > 0
    BY DEF Init
  <2>2. chunk \in Nat
    BY FilesAssumption DEF Init
  <2>3. First \in PlaceType /\ <<>> \in Seq(Seq(CellType)) /\ 0 \in 0..Pieces
    BY Numbers DEF First, PlaceType
  <2>4. /\ used = 0 /\ begun = 0 /\ piece = 0 /\ writer = "idle" /\ writeLock = FALSE
        /\ saved = First /\ imported = <<>> /\ pc = "down" /\ at = First /\ back = First
        /\ buffer = <<>> /\ block = <<>>
    BY DEF Init
  <2> QED
    BY <2>1, <2>2, <2>3, <2>4 DEF Shape
<1>2. PICK loc : loc = <<>>
  OBVIOUS
<1>3. /\ files = << <<>> >> /\ used = 0 /\ begun = 0 /\ piece = 0 /\ writer = "idle"
      /\ saved = First /\ imported = <<>> /\ pc = "down"
  BY DEF Init
<1>4. Last = 1 /\ files[Last] = <<>> /\ Len(files[Last]) = 0
  BY <1>3 DEF Last
<1>5. Layout(loc)
  BY <1>3, <1>4 DEF Layout, Front, End, First
<1>6. LastImported = 0
  BY <1>3 DEF LastImported
<1>7. ReaderAt(loc)
  BY <1>3, <1>6 DEF ReaderAt, End, Reading
<1> QED
  BY <1>1, <1>5, <1>7 DEF Placed

\* The places of the blocks are always those, whatever is allocated, cut and
\* restarted.
LEMMA PlacedAlways == Spec => [](Shape /\ Placed)
<1>1. Init => Shape /\ Placed
  BY PlacedInit
<1>2. Shape /\ Placed /\ [Next]_vars => Shape' /\ Placed'
  BY ShapeNext, PlacedNext
<1> QED
  BY <1>1, <1>2, PTL DEF Spec

-----------------------------------------------------------------------------
(* What is read is what was written.                                       *)

\* The first cell of a file, once it is written, is kept; so is what is known
\* of the blocks that were written without the lock.
HeadsKept ==
  /\ chunk' = chunk /\ unlocked \subseteq unlocked'
  /\ \A f \in 1..Last : files[f] # <<>> /\ files[f][1] # Zero =>
       /\ f \in 1..Last' /\ files'[f] # <<>> /\ files'[f][1] = files[f][1]

LEMMA HeadsSame ==
  ASSUME UNCHANGED <<files, chunk>>, unlocked \subseteq unlocked'
  PROVE  HeadsKept
  BY DEF HeadsKept, Last

LEMMA HeadsNext ==
  ASSUME Shape, Placed, [Next]_vars
  PROVE  HeadsKept
<1>1. Last \in Nat \ {0} /\ \A f \in 1..Last : files[f] \in Seq(CellType) /\ Len(files[f]) \in Nat
  BY LastFacts
<1>2. \A f \in 1..Last : files[f] # <<>> => Len(files[f]) >= 1
  BY <1>1
<1>3. CASE BeginBlock
  <2>1. PICK grown \in Seq(CellType) :
          /\ files' = [files EXCEPT ![Last] = grown]
          /\ Len(grown) >= Len(files[Last])
          /\ \A p \in 1..Len(files[Last]) : grown[p] = files[Last][p]
    BY <1>3, BeginEffect
  <2>2. /\ Last' = Last /\ files'[Last] = grown
        /\ \A f \in 1..Last : f # Last => files'[f] = files[f]
    BY <2>1, LastFacts DEF Last, Shape
  <2>3. files[Last] # <<>> => grown # <<>> /\ grown[1] = files[Last][1]
    BY <1>1, <1>2, <2>1
  <2> QED
    BY <1>1, <1>3, <2>2, <2>3, BeginEffect DEF HeadsKept
<1>4. CASE NextFile
  <2>1. /\ used > 0 /\ writer = "idle" /\ UNCHANGED <<chunk, unlocked>> /\ used \in Nat
        /\ files' = Append([files EXCEPT ![Last] = SubSeq(files[Last], 1, used)], <<>>)
    BY <1>4 DEF NextFile, Shape
  <2>2. used <= Len(files[Last])
    <3>1. Front = used
      BY <2>1 DEF Front
    <3> QED
      BY <3>1 DEF Placed, Layout
  <2>3. PICK file : file = SubSeq(files[Last], 1, used)
    OBVIOUS
  <2>4. file \in Seq(CellType) /\ Len(file) = used /\ file[1] = files[Last][1]
    BY <1>1, <2>1, <2>2, <2>3
  <2>5. file # <<>>
    BY <2>1, <2>4
  <2>6. PICK fs : fs = [files EXCEPT ![Last] = file]
    OBVIOUS
  <2>7. /\ fs \in Seq(Seq(CellType)) /\ Len(fs) = Last /\ fs[Last] = file
        /\ \A f \in 1..Last : f # Last => fs[f] = files[f]
    BY <1>1, <2>4, <2>6 DEF Shape, Last
  <2>8. <<>> \in Seq(CellType) /\ files' = Append(fs, <<>>)
    BY <2>1, <2>3, <2>6
  <2>9. Len(files') = Last + 1 /\ \A f \in 1..Last : files'[f] = fs[f]
    BY <2>7, <2>8, AppendProperties
  <2>10. ASSUME NEW f \in 1..Last, files[f] # <<>>
         PROVE  f \in 1..Last' /\ files'[f] # <<>> /\ files'[f][1] = files[f][1]
    <3>1. f \in 1..Last' /\ files'[f] = fs[f]
      BY <1>1, <2>9 DEF Last
    <3>2. CASE f = Last
      BY <2>4, <2>5, <2>7, <3>1, <3>2
    <3>3. CASE f # Last
      BY <2>7, <2>10, <3>1, <3>3
    <3> QED
      BY <3>2, <3>3
  <2> QED
    BY <2>1, <2>10 DEF HeadsKept
<1>5. CASE WritePiece
  <2>1. PICK loc : Layout(loc)
    BY DEF Placed
  <2>2. PICK file \in Seq(CellType) :
          /\ files' = [files EXCEPT ![Last] = file]
          /\ Len(file) \in Nat /\ Len(file) >= Len(files[Last])
          /\ \A p \in 1..Len(files[Last]) : p # used + piece + 1 => file[p] = files[Last][p]
    BY <1>5, <2>1, WriteEffect
  <2>3. /\ Last' = Last /\ files'[Last] = file
        /\ \A f \in 1..Last : f # Last => files'[f] = files[f]
    BY <2>2, LastFacts DEF Last, Shape
  <2>4. files[Last] # <<>> /\ files[Last][1] # Zero => file # <<>> /\ file[1] = files[Last][1]
    <3> SUFFICES ASSUME files[Last] # <<>>, files[Last][1] # Zero
                 PROVE  file # <<>> /\ file[1] = files[Last][1]
      OBVIOUS
    <3>1. 1 \in 1..Len(files[Last])
      BY <1>1, <1>2
    <3>2. ~(1 > Front)
      BY <2>1, <3>1 DEF Layout
    <3>3. Front = used + piece /\ used \in Nat /\ piece \in Nat
      BY <1>5, Numbers DEF Front, WritePiece, Shape
    <3>4. 1 # used + piece + 1
      BY <3>2, <3>3
    <3> QED
      BY <1>1, <2>2, <3>1, <3>4
  <2>5. chunk' = chunk /\ unlocked' = unlocked
    BY <1>5 DEF WritePiece
  <2> QED
    BY <1>1, <2>3, <2>4, <2>5 DEF HeadsKept
<1>6. CASE LockToWrite \/ EndBlock \/ Reader \/ Start \/ Crash \/ UNCHANGED vars
  <2>1. UNCHANGED <<files, chunk>>
    BY <1>6 DEF LockToWrite, EndBlock, Reader, LockToRead, ReadMagic, ReadData, Commit,
      Start, Crash, vars
  <2>2. unlocked \subseteq unlocked'
    BY <1>6 DEF LockToWrite, EndBlock, Reader, LockToRead, ReadMagic, ReadData, Commit,
      Start, Crash, vars, writerVars
  <2> QED
    BY <2>1, <2>2, HeadsSame
<1> QED
  BY <1>3, <1>4, <1>5, <1>6 DEF Next, Writer

LEMMA SoundKept ==
  ASSUME Shape, HeadsKept, NEW cells, cells[1][2] = 1, Sound(cells)
  PROVE  Sound(cells)'
<1>1. CASE Intact(cells)
  BY <1>1 DEF Sound, Intact
<1>2. CASE ~ Intact(cells)
  <2>1. chunk > 0 /\ (Number(cells) \in unlocked
                      \/ \E f \in 1..Last : files[f] # <<>> /\ files[f][1] = cells[1])
    BY <1>2 DEF Sound, Excused
  <2>2. cells[1] # Zero
    BY DEF Zero
  <2>3. chunk' > 0 /\ (Number(cells) \in unlocked'
                       \/ \E f \in 1..Last' : files'[f] # <<>> /\ files'[f][1] = cells[1])
    BY <2>1, <2>2 DEF HeadsKept
  <2> QED
    BY <2>3 DEF Sound, Excused, Number
<1> QED
  BY <1>1, <1>2

\* While the reader has the lock on the file it reads, a block that is written
\* there is known to be.
LEMMA CellRead ==
  ASSUME Shape, SoundOK, NEW loc, Layout(loc), Reading,
         NEW b \in 1..begun, Written(b, 1), NEW k \in 1..Pieces,
         loc[b].file = back.file \/ loc[b].place = 0,
         loc[b].place + k <= Len(files[loc[b].file])
  PROVE  \/ files[loc[b].file][loc[b].place + k] = <<b, k>>
         \/ Excused(b, loc[b].place = 0)
<1>1. \/ files[loc[b].file][loc[b].place + k] = <<b, k>>
      \/ /\ chunk > 0 /\ writer # "idle" /\ b = begun
         /\ loc[b] = [file |-> Last, place |-> used]
  BY CellFacts
<1>2. CASE /\ chunk > 0 /\ writer # "idle" /\ b = begun
           /\ loc[b] = [file |-> Last, place |-> used] /\ loc[b].place # 0
  <2>1. back.file = Last
    BY <1>2
  <2>2. writer # "open"
    <3>1. piece # 0
      BY <1>2 DEF Written, Shape
    <3> QED
      BY <3>1 DEF Shape
  <2>3. begun \in unlocked
    BY <1>2, <2>1, <2>2 DEF SoundOK, LockOK, Shape
  <2> QED
    BY <1>2, <2>3 DEF Excused
<1> QED
  BY <1>1, <1>2 DEF Excused

\* The lock is refused to whoever asks for it last.
LEMMA LockNext ==
  ASSUME Shape, Placed, LockOK, [Next]_vars
  PROVE  LockOK'
<1>1. CASE LockToWrite
  <2>1. /\ UNCHANGED <<files, begun, pc, back>>
        /\ writeLock' = ~ReadLocked(Last, used)
        /\ unlocked' = IF writeLock' THEN unlocked ELSE unlocked \cup {begun}
    BY <1>1 DEF LockToWrite, readerVars
  <2>2. Last' = Last /\ Reading' = Reading
    BY <2>1 DEF Last, Reading
  <2>3. writeLock' => ~(Reading /\ back.file = Last)
    BY <2>1 DEF ReadLocked
  <2> QED
    BY <2>1, <2>2, <2>3 DEF LockOK
<1>2. CASE BeginBlock \/ NextFile \/ EndBlock
  <2>1. writer' # "write"
    BY <1>2 DEF BeginBlock, NextFile, EndBlock
  <2> QED
    BY <2>1 DEF LockOK
<1>3. CASE WritePiece
  <2>1. UNCHANGED <<writer, writeLock, unlocked, begun, pc, back>>
    BY <1>3 DEF WritePiece, readerVars
  <2>2. Last' = Last
    BY <1>3, LastFacts DEF WritePiece, Last, Shape
  <2> QED
    BY <2>1, <2>2 DEF LockOK, Reading
<1>4. CASE LockToRead
  <2>1. UNCHANGED <<files, writer, writeLock, unlocked, begun>> /\ back' = at /\ ~Waits(at.file)
    BY <1>4 DEF LockToRead, writerVars
  <2>2. Last' = Last /\ (writeLock => at.file # Last)
    BY <2>1 DEF Last, Waits
  <2> QED
    BY <2>1, <2>2 DEF LockOK
<1>5. CASE ReadMagic \/ ReadData \/ Commit \/ Start \/ Crash \/ UNCHANGED vars
  <2>1. UNCHANGED <<files, writer, writeLock, unlocked, begun>>
    BY <1>5 DEF ReadMagic, ReadData, Commit, Start, Crash, vars, writerVars
  <2>2. Reading' => Reading /\ back' = back
    <3>1. CASE ReadMagic
      BY <3>1 DEF ReadMagic, Fail, Reading
    <3>2. CASE ReadData
      BY <3>2 DEF ReadData, Fail, Reading
    <3>3. CASE Commit \/ Start \/ Crash
      BY <3>3 DEF Commit, Start, Crash, Reading
    <3>4. CASE UNCHANGED vars
      BY <3>4 DEF vars, readerVars, Reading
    <3> QED
      BY <1>5, <3>1, <3>2, <3>3, <3>4
  <2> QED
    BY <2>1, <2>2 DEF LockOK, Last
<1> QED
  BY <1>1, <1>2, <1>3, <1>4, <1>5 DEF Next, Writer, Reader

\* The blocks that are read: those of before, and the one whose data is read.
LEMMA BlocksReadNext ==
  ASSUME Shape, Placed, [Next]_vars, NEW cells \in BlocksRead'
  PROVE  cells \in BlocksRead \/ (ReadData /\ pc' = "process" /\ cells = Cells)
<1>1. CASE Commit
  <2>1. /\ pc = "process" /\ pc' = "idle" /\ Len(imported') = Len(imported) + 1
        /\ imported'[Len(imported) + 1] = block
        /\ \A i \in 1..Len(imported) : imported'[i] = imported[i]
    BY <1>1, CommitEffect
  <2>2. PICK i \in 1..Len(imported') : cells = imported'[i]
    BY <2>1 DEF BlocksRead
  <2>3. Len(imported) \in Nat
    BY DEF Shape
  <2>4. CASE i \in 1..Len(imported)
    BY <2>1, <2>2, <2>4 DEF BlocksRead
  <2>5. CASE i \notin 1..Len(imported)
    BY <2>1, <2>2, <2>3, <2>5 DEF BlocksRead
  <2> QED
    BY <2>4, <2>5
<1>2. CASE ~ Commit
  <2>1. imported' = imported
    BY <1>2 DEF Next, Writer, Reader, BeginBlock, NextFile, LockToWrite, WritePiece, EndBlock,
      LockToRead, ReadMagic, ReadData, Start, Crash, vars, dbVars
  <2>2. \/ pc' = "process" => pc = "process" /\ block' = block
        \/ ReadData /\ pc' = "process"
    BY <1>2 DEF Next, Writer, Reader, BeginBlock, NextFile, LockToWrite, WritePiece, EndBlock,
      LockToRead, ReadMagic, Fail, Start, Crash, vars, readerVars
  <2>3. ReadData /\ pc' = "process" => block' = Cells
    BY DataEffect
  <2> QED
    BY <2>1, <2>2, <2>3 DEF BlocksRead
<1> QED
  BY <1>1, <1>2

LEMMA SoundNext ==
  ASSUME Shape, Placed, SoundOK, [Next]_vars
  PROVE  SoundOK'
<1>1. HeadsKept
  BY HeadsNext
<1>2. ASSUME ReadData, pc' = "process"
      PROVE  Len(Cells) = Pieces /\ Cells[1][2] = 1 /\ Sound(Cells)
  <2>1. PICK loc : Layout(loc) /\ ReaderAt(loc)
    BY DEF Placed
  <2>2. pc = "magic" /\ Complete /\ Len(Cells) = Pieces /\ Cells[1] = buffer[1]
    BY <1>2, DataEffect
  <2>3. PICK b : b = LastImported + 1
    OBVIOUS
  <2>4. /\ Written(b, 1) /\ buffer[1] = <<b, 1>> /\ b \in 1..begun /\ at = loc[b]
        /\ at.file = back.file \/ at.place = 0
        /\ at \in PlaceType /\ at.file \in 1..Last
    BY <2>1, <2>2, <2>3, ReadEnd DEF ReaderAt
  <2>5. ASSUME NEW k \in 1..Pieces
        PROVE  Cells[k] = <<b, k>> \/ Excused(b, at.place = 0)
    <3>1. CASE k <= Len(buffer)
      BY <2>2, <2>3, <3>1 DEF Cells, SoundOK
    <3>2. CASE ~(k <= Len(buffer))
      <4>1. at.place + k <= Len(files[at.file])
        BY <2>2, <2>4, LastFacts, Numbers DEF Complete, PlaceType
      <4>2. Cells[k] = files[at.file][at.place + k]
        BY <3>2, <4>1 DEF Cells, Cell
      <4> QED
        BY <2>1, <2>2, <2>4, <4>1, <4>2, CellRead DEF Reading
    <3> QED
      BY <3>1, <3>2
  <2>6. Cells # <<>> /\ Number(Cells) = b /\ Cells[1] = <<b, 1>>
    BY <2>2, <2>4, Numbers DEF Number
  <2>7. CASE Excused(b, at.place = 0)
    <3>1. at.place = 0 => files[at.file] # <<>> /\ files[at.file][1] = Cells[1]
      <4> SUFFICES ASSUME at.place = 0
                   PROVE  files[at.file] # <<>> /\ files[at.file][1] = Cells[1]
        OBVIOUS
      <4>1. 1 \in 1..Pieces
        BY Numbers
      <4>2. loc[b].place + 1 <= Len(files[at.file]) /\ files[at.file][loc[b].place + 1] = <<b, 1>>
        BY <2>1, <2>4, <4>1 DEF Layout
      <4> QED
        BY <2>4, <2>6, <4>2
    <3>2. Sound(Cells)
      BY <2>4, <2>6, <2>7, <3>1 DEF Sound, Excused
    <3> QED
      BY <2>2, <2>6, <3>2
  <2>8. CASE ~ Excused(b, at.place = 0)
    <3>1. Intact(Cells)
      BY <2>5, <2>6, <2>8 DEF Intact
    <3> QED
      BY <2>2, <2>6, <3>1 DEF Sound
  <2> QED
    BY <2>7, <2>8
<1>3. ASSUME NEW cells \in BlocksRead'
      PROVE  Len(cells) = Pieces /\ cells[1][2] = 1 /\ Sound(cells)'
  <2>1. Len(cells) = Pieces /\ cells[1][2] = 1 /\ Sound(cells)
    BY <1>2, BlocksReadNext DEF SoundOK
  <2> QED
    BY <1>1, <2>1, SoundKept
<1>4. ASSUME pc' = "magic", NEW k \in 1..Pieces, k <= Len(buffer')
      PROVE  \/ buffer'[k] = <<LastImported' + 1, k>>
             \/ chunk' > 0 /\ (LastImported' + 1 \in unlocked' \/ at'.place = 0)
  <2>1. imported' = imported /\ LastImported' = LastImported
    <3>1. ~ Commit
      BY <1>4 DEF Commit
    <3>2. imported' = imported
      BY <3>1 DEF Next, Writer, Reader, BeginBlock, NextFile, LockToWrite, WritePiece, EndBlock,
        LockToRead, ReadMagic, ReadData, Start, Crash, vars, dbVars
    <3> QED
      BY <3>2, LastImportedSame
  <2>2. chunk' = chunk /\ unlocked \subseteq unlocked'
    BY <1>1 DEF HeadsKept
  <2>3. CASE ReadMagic
    <3>1. PICK loc :
           LET n == LastImported IN
           /\ Layout(loc) /\ n + 1 \in 1..begun
           /\ Written(n + 1, 1) /\ at' = loc[n + 1]
           /\ at'.file \in 1..Last /\ at' \in PlaceType
           /\ at'.file = back.file \/ at'.place = 0
           /\ buffer' \in Seq(CellType) /\ Len(buffer') > 0
           /\ at'.place + Len(buffer') <= Len(files[at'.file])
           /\ \A i \in 1..Len(buffer') : buffer'[i] = files[at'.file][at'.place + i]
      BY <1>4, <2>3, MagicEffect
    <3>2. PICK b : b = LastImported + 1
      OBVIOUS
    <3>3. /\ b \in 1..begun /\ Written(b, 1) /\ at' = loc[b]
          /\ loc[b].file = back.file \/ loc[b].place = 0
      BY <3>1, <3>2
    <3>4. Len(files[at'.file]) \in Nat /\ at'.place \in Nat /\ Len(buffer') \in Nat
      BY <3>1, LastFacts DEF PlaceType
    <3>5. k \in 1..Len(buffer') /\ loc[b].place + k <= Len(files[loc[b].file])
      BY <1>4, <3>1, <3>3, <3>4, SMTT(30)
    <3>6. Reading
      BY <2>3 DEF ReadMagic, Reading
    <3>7. \/ files[loc[b].file][loc[b].place + k] = <<b, k>>
          \/ Excused(b, loc[b].place = 0)
      BY <3>1, <3>3, <3>5, <3>6, CellRead
    <3> QED
      BY <2>1, <2>2, <3>1, <3>2, <3>3, <3>5, <3>7 DEF Excused
  <2>4. CASE ~ ReadMagic
    <3>1. pc = "magic" /\ UNCHANGED <<buffer, at>>
      BY <1>4, <2>4 DEF Next, Writer, Reader, BeginBlock, NextFile, LockToWrite, WritePiece,
        EndBlock, LockToRead, ReadData, Fail, Commit, Start, Crash, vars, readerVars
    <3>2. buffer[k] = <<LastImported + 1, k>> \/ Excused(LastImported + 1, at.place = 0)
      BY <1>4, <3>1 DEF SoundOK
    <3> QED
      BY <2>1, <2>2, <3>1, <3>2 DEF Excused
  <2> QED
    BY <2>3, <2>4
<1>5. LockOK'
  BY LockNext DEF SoundOK
<1> QED
  BY <1>3, <1>4, <1>5 DEF SoundOK, Excused

LEMMA SoundInit == ASSUME Init PROVE SoundOK
<1>1. imported = <<>> /\ pc = "down" /\ writer = "idle" /\ BlocksRead = {}
  BY DEF Init, BlocksRead
<1> QED
  BY <1>1 DEF SoundOK, LockOK

\* A block is imported as bitcoind wrote it, whatever the buffers, the files and
\* the crashes, unless the file was allocated in advance and either bitcoind was
\* refused the lock or the block is the first of its file (BlockChain.cpp:1959-1980
\* and 2030-2034).
THEOREM IntactAlways == Spec => []IntactIfLocked
<1>1. Init => SoundOK
  BY SoundInit
<1>2. Shape /\ Placed /\ SoundOK /\ [Next]_vars => SoundOK'
  BY SoundNext
<1>3. SoundOK => IntactIfLocked
  <2> SUFFICES ASSUME SoundOK, NEW i \in 1..Len(imported)
               PROVE  \/ Intact(imported[i])
                      \/ /\ chunk > 0
                         /\ \/ Number(imported[i]) \in unlocked
                            \/ \E f \in 1..Last : files[f] # <<>> /\ files[f][1] = imported[i][1]
    BY DEF IntactIfLocked
  <2>1. Sound(imported[i])
    BY DEF SoundOK, BlocksRead
  <2> QED
    BY <2>1 DEF Sound, Excused
<1> QED
  BY <1>1, <1>2, <1>3, PlacedAlways, PTL DEF Spec

\* Every step of bitcoind and of the reader, crashes and switches of files
\* included, is one of the stream of blocks or leaves it as it is: no block is
\* skipped, none comes twice, and a restart resumes at the saved position
\* (main.cpp:482-500 and 827-831, BlockChain.cpp:2055-2070).
THEOREM ReaderImplementsStream == Spec => ImplementsBlockStream
<1>1. Init => Stream!Init
  BY DEF Init, Stream!Init, LastImported
<1>2. Shape /\ Placed /\ [Next]_vars => [Stream!Next]_(Stream!vars)
  <2> SUFFICES ASSUME Shape, Placed, [Next]_vars
               PROVE  [Stream!Next]_(Stream!vars)
    OBVIOUS
  <2> DEFINE read == IF pc = "process" THEN Number(block) ELSE LastImported
  <2>1. LastImported \in Nat /\ begun \in Nat
        /\ pc = "process" => LastImported < begun /\ Number(block) = LastImported + 1
    <3>1. PICK loc : ReaderAt(loc)
      BY DEF Placed
    <3>2. LastImported \in 0..begun /\ begun \in Nat
      BY <3>1 DEF ReaderAt, Shape
    <3>3. ASSUME pc = "process"
          PROVE  LastImported < begun /\ Number(block) = LastImported + 1
      <4>1. /\ LastImported < begun /\ Len(block) = Pieces
            /\ block[1] = <<LastImported + 1, 1>>
        BY <3>1, <3>3 DEF ReaderAt
      <4>2. block # <<>>
        BY <4>1, Numbers
      <4> QED
        BY <4>1, <4>2 DEF Number
    <3> QED
      BY <3>2, <3>3
  <2>2. CASE BeginBlock
    <3>1. begun' = begun + 1 /\ UNCHANGED <<pc, block, imported>>
      BY <2>2 DEF BeginBlock, dbVars, readerVars
    <3>2. LastImported' = LastImported /\ Number(block)' = Number(block)
      BY <3>1, LastImportedSame DEF Number
    <3> QED
      BY <3>1, <3>2 DEF Stream!Next, Stream!Write, Stream!vars
  <2>3. CASE NextFile \/ LockToWrite \/ WritePiece \/ EndBlock \/ UNCHANGED vars
    <3>1. UNCHANGED <<begun, pc, block, imported>>
      BY <2>3 DEF NextFile, LockToWrite, WritePiece, EndBlock, vars, writerVars, dbVars, readerVars
    <3>2. LastImported' = LastImported /\ Number(block)' = Number(block)
      BY <3>1, LastImportedSame DEF Number
    <3> QED
      BY <3>1, <3>2 DEF Stream!vars
  <2>4. CASE LockToRead \/ ReadMagic \/ Start \/ (ReadData /\ pc' # "process")
    <3>1. UNCHANGED <<begun, imported>> /\ pc # "process" /\ pc' # "process"
      BY <2>4 DEF LockToRead, ReadMagic, Start, ReadData, Fail, writerVars, dbVars
    <3>2. LastImported' = LastImported
      BY <3>1, LastImportedSame
    <3> QED
      BY <3>1, <3>2 DEF Stream!vars
  <2>5. CASE ReadData /\ pc' = "process"
    <3>1. PICK loc : Layout(loc) /\ ReaderAt(loc)
      BY DEF Placed
    <3>2. /\ pc = "magic" /\ UNCHANGED <<begun, imported>> /\ block' = Cells
          /\ Len(Cells) = Pieces /\ Cells[1] = buffer[1]
      BY <2>5, DataEffect DEF writerVars, dbVars
    <3>3. LastImported' = LastImported /\ buffer[1] = <<LastImported + 1, 1>>
          /\ LastImported < begun
      BY <3>1, <3>2, LastImportedSame DEF ReaderAt
    <3>4. block' # <<>> /\ block'[1] = <<LastImported + 1, 1>>
      BY <3>2, <3>3, Numbers
    <3>5. Number(block)' = LastImported + 1
      BY <3>4 DEF Number
    <3> QED
      BY <2>5, <3>2, <3>3, <3>5 DEF Stream!Next, Stream!Read, Stream!vars
  <2>6. CASE Commit
    <3>1. /\ pc = "process" /\ pc' = "idle" /\ LastImported' = LastImported + 1
          /\ Number(block) = LastImported + 1
      BY <2>6, CommitEffect
    <3>2. begun' = begun
      BY <2>6 DEF Commit, writerVars
    <3> QED
      BY <3>1, <3>2 DEF Stream!Next, Stream!Save, Stream!vars
  <2>7. CASE Crash
    <3>1. UNCHANGED <<begun, imported>> /\ pc' = "down"
      BY <2>7 DEF Crash, writerVars, dbVars
    <3>2. LastImported' = LastImported
      BY <3>1, LastImportedSame
    <3> QED
      BY <3>1, <3>2 DEF Stream!Next, Stream!Restart, Stream!vars
  <2> QED
    BY <2>2, <2>3, <2>4, <2>5, <2>6, <2>7 DEF Next, Writer, Reader
<1> QED
  BY <1>1, <1>2, PlacedAlways, PTL DEF Spec, ImplementsBlockStream, Stream!Spec
===============================================================================
