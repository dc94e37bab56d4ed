------------------------------- MODULE BlockFiles -------------------------------
(***************************************************************************)
(* The files blk*.dat: bitcoind appends blocks to them (with the patch of  *)
(* daemon-patches), and the import loop reads them at the same time        *)
(* (blockchain/BlockChain.cpp, src/main.cpp:480-500).                      *)
(*                                                                         *)
(* A file is a sequence of cells.  A block takes Pieces of them, the first *)
(* one with magic number, length and header; cells that were allocated in  *)
(* advance are Zero.  Cells are the unit in which a stdio buffer of        *)
(* bitcoind is flushed and one of the reader is filled, and are not of one *)
(* size.                                                                   *)
(*                                                                         *)
(* Both sides lock from their place in the file to infinity, so that locks *)
(* held at the same time always overlap.  The reader unlocks from where    *)
(* its descriptor is by then, which buffering has moved ahead: what is     *)
(* before stays locked.                                                    *)
(***************************************************************************)
EXTENDS Integers, Sequences

CONSTANTS
  MaxBlocks,    \* bound: how many blocks bitcoind writes
  MaxFiles,     \* bound: into how many files
  Pieces,       \* how many cells a block takes
  Buffer,       \* how many cells a stdio buffer may hold
  Chunks,       \* by how many cells a file may be allocated in advance; 0: not
  MaxStarts     \* bound: how often the daemon is started

ASSUME FilesAssumption ==
  /\ MaxBlocks \in Nat /\ MaxFiles \in Nat /\ MaxStarts \in Nat
  /\ Pieces \in Nat \ {0, 1}
  /\ Buffer \in Nat \ {0}
  /\ Chunks \subseteq Nat

Zero == <<0, 0>>
Place == 0..(MaxBlocks * Pieces + Buffer)   \* an offset in a file

VARIABLES
  files, chunk

\* bitcoind.
VARIABLES
  used,             \* how many cells of the last file have blocks
  begun, piece,     \* the last block, and how many of its cells are written
  writer,           \* "idle", "open", "write"
  writeLock,        \* it holds the lock on the last file
  unlocked          \* history: the blocks it wrote without the lock

\* LevelDB: BackupState and the blocks that were imported, each with how many
\* of its cells were as written.
VARIABLES
  saved, imported

\* The import loop.
VARIABLES
  pc,
  at,               \* where it reads: mBlockIndex and ftell()
  back,             \* bcBlockIndex, bcBlockPosition
  descriptor,       \* the offset of the file descriptor
  lockedFrom,       \* the lock goes from here to infinity
  buffer, block,    \* what was read
  left,             \* what an unlock left locked, by file
  starts

writerVars == <<used, begun, piece, writer, writeLock, unlocked>>
dbVars     == <<saved, imported>>
readerVars == <<pc, at, back, descriptor, lockedFrom, buffer, block, left>>
vars       == <<files, chunk, writerVars, dbVars, readerVars, starts>>

First == [file |-> 1, place |-> 0]

Init ==
  /\ files = << <<>> >>
  /\ chunk \in Chunks
  /\ used = 0 /\ begun = 0 /\ piece = 0 /\ writer = "idle"
  /\ writeLock = FALSE /\ unlocked = {}
  /\ saved = First /\ imported = <<>>
  /\ pc = "down" /\ at = First /\ back = First
  /\ descriptor = 0 /\ lockedFrom = 0 /\ buffer = <<>> /\ block = <<>>
  /\ left = [f \in 1..MaxFiles |-> {}]
  /\ starts = 0

-----------------------------------------------------------------------------
(* bitcoind.                                                               *)

Last == Len(files)

Zeros(n) == [i \in 1..n |-> Zero]

\* A block is given its place, for which the file is extended by whole chunks.
BeginBlock ==
  /\ writer = "idle" /\ begun < MaxBlocks
  /\ begun' = begun + 1 /\ piece' = 0 /\ writer' = "open"
  /\ LET needed == used + Pieces
         size   == IF chunk = 0 THEN 0 ELSE ((needed + chunk - 1) \div chunk) * chunk
     IN files' = [files EXCEPT ![Last] =
                    IF size > Len(@) THEN @ \o Zeros(size - Len(@)) ELSE @]
  /\ UNCHANGED <<chunk, used, writeLock, unlocked, dbVars, readerVars, starts>>

\* The next file is begun, the last one cut to what is used of it.
NextFile ==
  /\ writer = "idle" /\ used > 0 /\ Last < MaxFiles /\ begun < MaxBlocks
  /\ files' = Append([files EXCEPT ![Last] = SubSeq(@, 1, used)], <<>>)
  /\ used' = 0
  /\ UNCHANGED <<chunk, begun, piece, writer, writeLock, unlocked, dbVars,
                 readerVars, starts>>

Reading == pc \in {"locked", "magic"}

\* The reader has a lock on file f beyond place p.
ReadLocked(f, p) ==
  \/ Reading /\ back.file = f
  \/ \E q \in left[f] : q >= p

\* F_SETLK: bitcoind goes on when it is refused the lock.
LockToWrite ==
  /\ writer = "open"
  /\ writer' = "write"
  /\ writeLock' = ~ReadLocked(Last, used)
  /\ unlocked' = IF writeLock' THEN unlocked ELSE unlocked \cup {begun}
  /\ UNCHANGED <<files, chunk, used, begun, piece, dbVars, readerVars, starts>>

WritePiece ==
  /\ writer = "write" /\ piece < Pieces
  /\ piece' = piece + 1
  /\ files' = [files EXCEPT ![Last] =
                 LET p == used + piece + 1 IN
                 IF p <= Len(@) THEN [@ EXCEPT ![p] = <<begun, piece'>>]
                 ELSE Append(@, <<begun, piece'>>)]
  /\ UNCHANGED <<chunk, used, begun, writer, writeLock, unlocked, dbVars,
                 readerVars, starts>>

EndBlock ==
  /\ writer = "write" /\ piece = Pieces
  /\ writer' = "idle" /\ writeLock' = FALSE /\ used' = used + Pieces
  /\ UNCHANGED <<files, chunk, begun, piece, unlocked, dbVars, readerVars, starts>>

Writer == BeginBlock \/ NextFile \/ LockToWrite \/ WritePiece \/ EndBlock

-----------------------------------------------------------------------------
(* The import loop.                                                        *)

\* Where the descriptor may be when the stream is at place p of file f.
Ahead(f, p) == {q \in p..(p + Buffer) : q = p \/ q <= Len(files[f])}

\* fseek: back to the place from before the read, also out of a file that was
\* opened meanwhile.
SetPosition(place) ==
  /\ at' = place
  /\ descriptor' \in Ahead(place.file, place.place)

\* createBlockChain wants the magic number of a block in the first file.
Start ==
  /\ pc = "down" /\ starts < MaxStarts
  /\ files[1] # <<>> /\ files[1][1] # Zero
  /\ pc' = "idle" /\ starts' = starts + 1
  /\ SetPosition(saved)
  /\ UNCHANGED <<files, chunk, writerVars, dbVars, back, lockedFrom, buffer,
                 block, left>>

\* F_SETLKW: the reader waits for bitcoind.  fflush() then moves the descriptor.
WaitsNot(f) == FALSE
Waits(f)    == writeLock /\ f = Last

LockToRead ==
  /\ pc = "idle" /\ ~Waits(at.file)
  /\ pc' = "locked"
  /\ back' = at
  /\ lockedFrom' = descriptor /\ descriptor' = at.place
  /\ UNCHANGED <<files, chunk, writerVars, dbVars, at, buffer, block, left, starts>>

\* The file that was locked is unlocked from where its descriptor is; the lock
\* on it is left alone if the file to unlock is the next one.
Unlock(f, p) ==
  left' = [left EXCEPT ![back.file] =
    LET held == @ \cup {q \in Place : q >= lockedFrom}
    IN IF f = back.file THEN {q \in held : q < p} ELSE held]

\* readBlock returns false, and the loop tries again a second later.
StayThere(f, p) == [file |-> f, place |-> p]
Retry(f, p)     == back
Fail(f, p) ==
  /\ Unlock(f, p)
  /\ SetPosition(Retry(f, p))
  /\ pc' = "idle"
  /\ buffer' = <<>> /\ block' = <<>>
  /\ UNCHANGED <<back, lockedFrom>>

\* At the end of a file the next one is tried if there is one.
NeverAtEnd(f, p) == FALSE
AtEnd(f, p)      == Len(files[f]) = p
ToRead ==
  IF AtEnd(at.file, at.place) /\ at.file < Last THEN [file |-> at.file + 1, place |-> 0]
  ELSE at

\* The magic number is read and with it the buffer is filled.  At the end of
\* the last file, or when the magic number is not there, the read fails (if it
\* is not, the next file is opened but the old one is read, at a place that
\* has no magic number).
ReadMagic ==
  /\ pc = "locked"
  /\ LET from == ToRead
         file == files[from.file]
     IN \/ /\ Len(file) = from.place
           /\ Fail(from.file, from.place)
        \/ \E p \in Ahead(from.file, from.place) \ {from.place} :
             IF file[from.place + 1][2] = 1
             THEN /\ pc' = "magic" /\ at' = from /\ descriptor' = p
                  /\ buffer' = SubSeq(file, from.place + 1, p)
                  /\ UNCHANGED <<back, lockedFrom, block, left>>
             ELSE Fail(from.file, p)
  /\ UNCHANGED <<files, chunk, writerVars, dbVars, starts>>

\* The cells of the block: those in the buffer, the others as they are now.
Cell(f, p) == IF p <= Len(files[f]) THEN files[f][p] ELSE Zero
Cells ==
  [k \in 1..Pieces |-> IF k <= Len(buffer) THEN buffer[k]
                       ELSE Cell(at.file, at.place + k)]

Complete == at.place + Pieces <= Len(files[at.file])

Intact(cells) == \A k \in 1..Pieces : cells[k] = <<cells[1][1], k>>

AfterData ==
  IF descriptor >= at.place + Pieces THEN {descriptor}
  ELSE Ahead(at.file, at.place + Pieces)

\* The rest of the block is read.  A block with other bytes than were written
\* may or may not be accepted by processSingleBlock, which checks no hash.
ReadData ==
  /\ pc = "magic"
  /\ IF Complete
     THEN \E p \in AfterData :
            \/ /\ pc' = "process"
               /\ block' = Cells
               /\ at' = [at EXCEPT !.place = @ + Pieces]
               /\ descriptor' = p
               /\ Unlock(at.file, p)
               /\ buffer' = <<>>
               /\ UNCHANGED <<back, lockedFrom>>
            \/ ~Intact(Cells) /\ Fail(at.file, p)
     ELSE Fail(at.file, Len(files[at.file]))
  /\ UNCHANGED <<files, chunk, writerVars, dbVars, starts>>

\* The block and the position are written in one batch.
Commit ==
  /\ pc = "process"
  /\ pc' = "idle"
  /\ imported' = Append(imported, block)
  /\ saved' = at
  /\ block' = <<>>
  /\ UNCHANGED <<files, chunk, writerVars, at, back, descriptor, lockedFrom,
                 buffer, left, starts>>

Reader == LockToRead \/ ReadMagic \/ ReadData \/ Commit

\* The process stops; its locks are gone.
Crash ==
  /\ pc # "down"
  /\ starts < MaxStarts
  /\ pc' = "down" /\ at' = First /\ back' = First
  /\ descriptor' = 0 /\ lockedFrom' = 0 /\ buffer' = <<>> /\ block' = <<>>
  /\ left' = [f \in 1..MaxFiles |-> {}]
  /\ UNCHANGED <<files, chunk, writerVars, dbVars, starts>>

Next == Writer \/ Reader \/ Start \/ Crash

Spec == Init /\ [][Next]_vars

\* The main thread runs on, and bitcoind ends a block it has begun.
FairSpec ==
  Spec /\ WF_vars(Reader) /\ WF_vars(LockToWrite \/ WritePiece \/ EndBlock)

-----------------------------------------------------------------------------
\* Types; the reader is never beyond the end of the file that it reads, nor of
\* its buffer (BlockChain.cpp:1970-2018).
TypeOK ==
  /\ files \in Seq(Seq((0..MaxBlocks) \X (0..Pieces))) /\ Len(files) \in 1..MaxFiles
  /\ chunk \in Chunks
  /\ used \in Place /\ begun \in 0..MaxBlocks /\ piece \in 0..Pieces
  /\ writer \in {"idle", "open", "write"} /\ writeLock \in BOOLEAN
  /\ unlocked \subseteq 1..MaxBlocks
  /\ pc \in {"down", "idle", "locked", "magic", "process"}
  /\ {saved, at, back} \subseteq [file : 1..Len(files), place : Place]
  /\ {descriptor, lockedFrom} \subseteq Place
  /\ \A f \in 1..MaxFiles : left[f] \subseteq Place
  /\ starts \in 0..MaxStarts
  /\ at.place <= Len(files[at.file])
  /\ pc = "magic" => Len(buffer) \in 1..(Len(files[at.file]) - at.place)
  /\ pc = "process" <=> block # <<>>
  /\ \A cells \in {block} \cup {imported[i] : i \in 1..Len(imported)} :
       Len(cells) \in {0, Pieces}

\* The number of a block that was read, or of the one before the first.
Number(cells) == IF cells = <<>> THEN 0 ELSE cells[1][1]
LastImported  == IF imported = <<>> THEN 0 ELSE Number(imported[Len(imported)])

Stream == INSTANCE BlockStream WITH
            written  <- begun,
            position <- IF pc = "process" THEN Number(block) ELSE LastImported,
            saved    <- LastImported

\* The reader is the one that ChainIndex supposes: whatever files are switched,
\* allocated in advance and cut, and whenever bitcoind is in the middle of a
\* block, blocks come one after the other, none is skipped and none comes
\* twice, and a restart resumes at the saved position (main.cpp:482-500 and
\* 827-831, BlockChain.cpp:2055-2070).
ImplementsBlockStream == Stream!Spec

\* A block is imported as bitcoind wrote it unless the file was allocated in
\* advance and either the reader refused bitcoind the lock, or the block is the
\* first of its file, which is read under the lock of the file before
\* (BlockChain.cpp:1959-1980 and 2030-2034).
IntactIfLocked ==
  \A i \in 1..Len(imported) :
    Intact(imported[i]) \/
      /\ chunk > 0
      /\ \/ Number(imported[i]) \in unlocked
         \/ \E f \in 1..Last : files[f] # <<>> /\ files[f][1] = imported[i][1]

\* Unless the daemon is left stopped, every block that bitcoind has written is
\* imported, whatever the reader saw of it before it was complete.
EveryBlockImported ==
  \A b \in 1..MaxBlocks :
    []<>(pc # "down") /\ <>(begun >= b) => <>(LastImported >= b)
=============================================================================
