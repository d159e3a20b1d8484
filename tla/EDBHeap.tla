------------------------------- MODULE EDBHeap -------------------------------
(***************************************************************************)
(* The blocks of one .edb table file and the heap that lives in them:      *)
(* EDBFile::allocate_block (db/storage/edb/EDBFile.cpp) and the classes    *)
(* Heap and HeapBlock (db/storage/edb/Heap.cpp).                           *)
(*                                                                         *)
(* A file is a sequence of equal blocks.  The data area of a Heap block is *)
(* tiled by chunks; a chunk is a header of HeaderSize bytes followed by    *)
(* `size' bytes of data, and the last chunk is an end edge.  The model     *)
(* keeps the header that starts at each offset of a data area ("Data"      *)
(* where none starts) and abstracts the bytes of the data itself.          *)
(*                                                                         *)
(* m_header is volatile: only FlushHeader (the end of EDBFile::insert and  *)
(* EDBFile::remove, and the destructor) copies it to the file, whereas the *)
(* blocks are mapped MAP_SHARED and survive the process.  An access works  *)
(* on a copy of what it points at and writes it back in one piece          *)
(* (AlignedAccess.hpp), so that one flush is one step here, and the        *)
(* process can end between any two of them.                                *)
(***************************************************************************)
EXTENDS Integers, Sequences, FiniteSets

CONSTANTS
  BlockSize,        \* m_header.block_size
  BlockHeaderSize,  \* sizeof(Block), 9 in the code
  HeaderSize,       \* sizeof(HeapHeader), 8 in the code
  RequestSizes,     \* the sizes heap_allocate is called with
  MaxBlocks,        \* bound: the file never grows past this many blocks
  MaxStale          \* bound: spans that were given back and are still named

\* write_header_first_pass makes a block hold 255 rows of at least 9 bytes, so
\* that a data area always has room for the two edge headers.
ASSUME SizesAssumption ==
  /\ BlockSize \in Nat /\ BlockHeaderSize \in Nat /\ HeaderSize \in Nat \ {0}
  /\ BlockSize >= BlockHeaderSize + 2 * HeaderSize
  /\ RequestSizes \subseteq Nat
  /\ MaxBlocks \in Nat /\ MaxBlocks >= 2 /\ MaxStale \in Nat

DataSize == BlockSize - BlockHeaderSize
EdgeOffset == DataSize - HeaderSize
FreshSize == DataSize - 2 * HeaderSize

Blocks == 1..MaxBlocks
Offset == 0..EdgeOffset
BlockType == {"None", "Free", "Table", "Heap"} \* None: past the end of file
Available == {"Empty", "Freed"}             \* HeapHeader::is_available
Signature == Available \cup {"Used", "EndEdge", "Data"}
Chunk == [sig : Signature, size : 0..DataSize]
Span == [block : Blocks, offset : 0..BlockSize, size : 0..BlockSize]
Phase == {"header", "open", "aborted", "failed"}
GrowthStep == {"idle", "expanded", "linked", "typed", "ready"}
Growth == [step : GrowthStep, type : BlockType, size : RequestSizes \cup {0}]

VARIABLES
  blockCount,  \* m_block_count - 1: blocks in the file
  blockType,   \* Block::type
  next,        \* Block::next_block, 0 if none
  prev,        \* Block::prev_block, 0 if none
  chunk,       \* chunk[b][o]: the heap header starting at offset o of block b
  lastTable,   \* m_header.last_table_block, in memory
  lastHeap,    \* m_header.last_heap_block, in memory
  fileLast,    \* the two fields as last written to the file
  live,        \* history: the spans handed out and not freed yet
  phase,       \* "header": write_header is running; "open"; "aborted": the
               \* process is gone; "failed": gone before there was a header
  grow,        \* the running allocate_block: its last step, the type of the
               \* new block and the request it is for
  torn,        \* history: the blocks whose allocate_block was cut short
  freed,       \* history: spans given back whose owner, a row or the header
               \* of the file, still names them
  dangling     \* history: ... and nobody is left to change that owner

stale == <<freed, dangling>>
blocks == <<blockCount, blockType, next, prev, lastTable, lastHeap>>
vars == <<blocks, chunk, fileLast, live, phase, grow, torn, stale>>

NoHeader == [sig |-> "Data", size |-> 0]

(***************************************************************************)
(* HeapBlock::place_edge_headers: one empty chunk and the end edge.        *)
(***************************************************************************)
FreshData ==
  [o \in Offset |->
     IF o = EdgeOffset THEN [sig |-> "EndEdge", size |-> 0]
     ELSE IF o = 0 THEN [sig |-> "Empty", size |-> FreshSize]
     ELSE NoHeader]

(***************************************************************************)
(* The part of a heap block that HeapBlock::alloc walks over, and the      *)
(* header it stops at: the first available one with room for the request   *)
(* and for the header that will follow it.                                 *)
(***************************************************************************)
LooseFits(data, n) ==                        \* no room for a header
  {o \in Offset : data[o].sig \in Available /\ data[o].size >= n}

TightFits(data, n) ==                        \* no room for its next header
  {o \in Offset : data[o].sig \in Available
                  /\ data[o].size >= n + HeaderSize - 1}

Fits(data, n) ==
  {o \in Offset : data[o].sig \in Available
                  /\ data[o].size >= n + 2 * HeaderSize}

FirstFit(data, n, o) ==
  o \in Fits(data, n) /\ \A p \in Fits(data, n) : o <= p

\* HeapBlock::alloc splits the chunk at o: n bytes used, a new header behind.
LongRestCarve(data, o, n) ==                 \* rest without its header's size
  [data EXCEPT ![o] = [sig |-> "Used", size |-> n],
               ![o + HeaderSize + n] =
                  [sig |-> "Empty", size |-> data[o].size - n]]

Carve(data, o, n) ==
  [data EXCEPT ![o] = [sig |-> "Used", size |-> n],
               ![o + HeaderSize + n] =
                  [sig |-> "Empty", size |-> data[o].size - n - HeaderSize]]

\* The walk of HeapBlock::alloc itself, header by header from offset 0.
NoSpace == -1
Corrupted == -2
Walk(data, n) ==
  LET at[o \in 0..(2 * DataSize)] ==
        IF o \notin Offset \/ data[o].sig = "Data" THEN Corrupted
        ELSE IF data[o].sig \in Available /\ data[o].size >= n + 2 * HeaderSize
             THEN o
        ELSE IF data[o].sig = "EndEdge" THEN NoSpace
        ELSE at[o + data[o].size + HeaderSize]
  IN at[0]

HeapBlocks == {b \in Blocks : blockType[b] = "Heap"}

\* A block that is full of zeros has no header with a valid signature.
Readable(b) == b \in HeapBlocks /\ chunk[b][0].sig # "Data"

\* The heap blocks in the order Heap::alloc visits them: from block 2 along
\* next_block.
Chain ==
  LET from[b \in Blocks] ==
        IF next[b] = 0 THEN <<b>> ELSE <<b>> \o from[next[b]]
  IN from[2]

\* The walk comes as far as the i-th block: the ones before it have no room
\* for n bytes, and none is one at which it ends with a corruption error.
ComesTo(i, n) ==
  /\ i \in DOMAIN Chain
  /\ \A j \in 1..i : Readable(Chain[j])
  /\ \A j \in 1..(i - 1) : Fits(chunk[Chain[j]], n) = {}

FirstBlock(b, n) ==
  \E i \in DOMAIN Chain : Chain[i] = b /\ ComesTo(i, n) /\ Fits(chunk[b], n) # {}

NoBlockFits(n) ==
  \A i \in DOMAIN Chain : Readable(Chain[i]) /\ Fits(chunk[Chain[i]], n) = {}

SpanAt(b, o, n) ==
  [block |-> b, offset |-> o + HeaderSize + BlockHeaderSize, size |-> n]

NoGrowth == [step |-> "idle", type |-> "None", size |-> 0]
Idle == grow = NoGrowth

(***************************************************************************)
(* EDBFile::initialize up to write_header: the two reserved blocks.        *)
(***************************************************************************)
Init ==
  /\ blockCount = 2
  /\ blockType = [b \in Blocks |-> IF b = 1 THEN "Table"
                                   ELSE IF b = 2 THEN "Heap" ELSE "None"]
  /\ next = [b \in Blocks |-> 0]
  /\ prev = [b \in Blocks |-> 0]
  /\ chunk = [b \in Blocks |-> IF b = 2 THEN FreshData
                               ELSE [o \in Offset |-> NoHeader]]
  /\ lastTable = 1 /\ lastHeap = 2
  /\ fileLast = [table |-> 1, heap |-> 2]
  /\ live = {}
  /\ phase = "header"
  /\ grow = NoGrowth
  /\ torn = {} /\ freed = {} /\ dangling = {}

(***************************************************************************)
(* EDBFile::allocate_block, one action for each of its writes to the file. *)
(* First the file is expanded by a block of zeros, which makes its type    *)
(* Free.  The search for a Free block before that has no effect: what it   *)
(* finds is overwritten by the number of the new block, so a block that an *)
(* interrupted allocation left Free is never used again.                   *)
(***************************************************************************)
Expand(type, n) ==
  /\ Idle /\ blockCount < MaxBlocks
  /\ blockCount' = blockCount + 1
  /\ blockType' = [blockType EXCEPT ![blockCount + 1] = "Free"]
  /\ grow' = [step |-> "expanded", type |-> type, size |-> n]
  /\ UNCHANGED <<next, prev, chunk, lastTable, lastHeap, fileLast, live, phase,
                 torn, stale>>

\* The old last block of the kind is written with its link to the new one.
Last(type) == IF type = "Table" THEN lastTable ELSE lastHeap

LinkOneShort ==                              \* the number before the new one
  /\ grow.step = "expanded"
  /\ next' = [next EXCEPT ![Last(grow.type)] = blockCount - 1]
  /\ grow' = [grow EXCEPT !.step = "linked"]
  /\ UNCHANGED <<blockCount, blockType, prev, chunk, lastTable, lastHeap,
                 fileLast, live, phase, torn, stale>>

LinkBlock ==
  /\ grow.step = "expanded"
  /\ next' = [next EXCEPT ![Last(grow.type)] = blockCount]
  /\ grow' = [grow EXCEPT !.step = "linked"]
  /\ UNCHANGED <<blockCount, blockType, prev, chunk, lastTable, lastHeap,
                 fileLast, live, phase, torn, stale>>

\* The new block is written with its type and prev_block.
TypeBlock ==
  /\ grow.step = "linked"
  /\ blockType' = [blockType EXCEPT ![blockCount] = grow.type]
  /\ prev' = [prev EXCEPT ![blockCount] = Last(grow.type)]
  /\ IF grow.type = "Table"
       THEN /\ lastTable' = blockCount
            /\ grow' = NoGrowth
            /\ UNCHANGED lastHeap
       ELSE /\ lastHeap' = blockCount
            /\ grow' = [grow EXCEPT !.step = "typed"]
            /\ UNCHANGED lastTable
  /\ UNCHANGED <<blockCount, next, chunk, fileLast, live, phase, torn, stale>>

\* The data area of a heap block is written by HeapBlock::init.
InitOverwritten ==                           \* the copy of the block written last
  /\ grow.step = "typed"
  /\ grow' = [grow EXCEPT !.step = "ready"]
  /\ UNCHANGED <<blocks, chunk, fileLast, live, phase, torn, stale>>

InitHeapBlock ==
  /\ grow.step = "typed"
  /\ chunk' = [chunk EXCEPT ![blockCount] = FreshData]
  /\ grow' = [grow EXCEPT !.step = "ready"]
  /\ UNCHANGED <<blocks, fileLast, live, phase, torn, stale>>

\* EDBFile::insert, step 2: no free row slot was found.
AllocTableBlock == phase = "open" /\ Expand("Table", 0)

(***************************************************************************)
(* Heap::alloc.  A request above BlockSize - HeaderSize is refused with an *)
(* error and changes nothing, and so is one whose walk meets a block that  *)
(* is not Readable before one with room.                                   *)
(***************************************************************************)
Admitted(n) ==
  Idle /\ phase \in {"header", "open"} /\ n <= BlockSize - HeaderSize

AllocInChain(n) ==
  /\ Admitted(n)
  /\ \E b \in HeapBlocks, o \in Offset :
        /\ FirstBlock(b, n)
        /\ FirstFit(chunk[b], n, o)
        /\ chunk' = [chunk EXCEPT ![b] = Carve(chunk[b], o, n)]
        /\ live' = live \cup {SpanAt(b, o, n)}
  /\ UNCHANGED <<blocks, fileLast, phase, grow, torn, stale>>

AllocNewBlock(n) == Admitted(n) /\ NoBlockFits(n) /\ Expand("Heap", n)

AllocInNewBlock ==
  LET n == grow.size
  IN /\ grow.step = "ready"
     /\ 0 \in Fits(FreshData, n)
     /\ chunk' = [chunk EXCEPT ![blockCount] = Carve(FreshData, 0, n)]
     /\ live' = live \cup {SpanAt(blockCount, 0, n)}
     /\ grow' = NoGrowth
     /\ UNCHANGED <<blocks, fileLast, phase, torn, stale>>

\* The new block has no room either: ESSA_UNREACHABLE.
AllocAborts ==
  /\ grow.step = "ready"
  /\ 0 \notin Fits(FreshData, grow.size)
  /\ phase' = IF phase = "header" THEN "failed" ELSE "aborted"
  /\ grow' = NoGrowth
  /\ UNCHANGED <<blocks, chunk, fileLast, live, torn, stale>>

(***************************************************************************)
(* Heap::free and HeapBlock::free: the chunk is marked, never merged, and  *)
(* whatever its header was.  remove, rename and the update of a row free   *)
(* what they own first and write its owner later (OwnerWritten).           *)
(***************************************************************************)
HeaderOffset(s) == s.offset - BlockHeaderSize - HeaderSize

FreeAtOffset(s) ==                           \* sizeof(HeapHeader) forgotten
  LET o == s.offset - BlockHeaderSize
  IN /\ phase = "open" /\ Idle
     /\ o \in Offset
     /\ chunk' = [chunk EXCEPT ![s.block][o].sig = "Freed"]
     /\ live' = live \ {s}
     /\ freed' = freed \cup {s}
     /\ UNCHANGED <<blocks, fileLast, phase, grow, torn, dangling>>

Free(s) ==
  /\ phase = "open" /\ Idle
  /\ Cardinality(freed \cup dangling \cup {s}) <= MaxStale
  /\ chunk' = [chunk EXCEPT ![s.block][HeaderOffset(s)].sig = "Freed"]
  /\ live' = live \ {s}
  /\ freed' = freed \cup {s}
  /\ UNCHANGED <<blocks, fileLast, phase, grow, torn, dangling>>

\* A row or header that names a span given back before is freed once more.  If
\* the chunk was handed out again meanwhile, another owner loses its span: it
\* still names it, and the chunk is free.
Robbed(s) ==
  {t \in live : t.block = s.block /\ HeaderOffset(t) = HeaderOffset(s)}

FreeAgain(s) ==
  /\ phase = "open" /\ Idle
  /\ chunk' = [chunk EXCEPT ![s.block][HeaderOffset(s)].sig = "Freed"]
  /\ live' = live \ Robbed(s)
  /\ freed' = freed \cup {s}
  /\ dangling' = (dangling \ {s}) \cup Robbed(s)
  /\ UNCHANGED <<blocks, fileLast, phase, grow, torn>>

\* The row that named s is unlinked or written anew, or the header is.
OwnerWritten(s) ==
  /\ phase = "open" /\ Idle
  /\ freed' = freed \ {s}
  /\ UNCHANGED <<blocks, chunk, fileLast, live, phase, grow, torn, dangling>>

\* EDBFile::rename returns when the new name cannot be copied to the heap.
RenameFails(s) ==
  /\ phase = "open" /\ Idle
  /\ freed' = freed \ {s}
  /\ dangling' = dangling \cup {s}
  /\ UNCHANGED <<blocks, chunk, fileLast, live, phase, grow, torn>>

(***************************************************************************)
(* The end of EDBFile::initialize: write_header has put the literal block  *)
(* numbers 1 and 2 in the file and read_header loads them.                 *)
(***************************************************************************)
ReadHeader ==
  /\ phase = "header" /\ Idle
  /\ phase' = "open"
  /\ lastTable' = 1 /\ lastHeap' = 2
  /\ fileLast' = [table |-> 1, heap |-> 2]
  /\ UNCHANGED <<blockCount, blockType, next, prev, chunk, live, grow, torn, stale>>

FlushHeader ==
  /\ phase = "open" /\ Idle
  /\ fileLast' = [table |-> lastTable, heap |-> lastHeap]
  /\ UNCHANGED <<blocks, chunk, live, phase, grow, torn, stale>>

\* The process ends anywhere, and the table is opened again if it has a header.
Incomplete ==
  IF grow.step \in {"expanded", "linked", "typed"} THEN {blockCount} ELSE {}

Crash ==
  /\ phase # "failed"
  /\ phase' = IF phase = "header" THEN "failed" ELSE "open"
  /\ lastTable' = fileLast.table /\ lastHeap' = fileLast.heap
  /\ grow' = NoGrowth
  /\ torn' = torn \cup Incomplete
  /\ freed' = {} /\ dangling' = dangling \cup freed
  /\ UNCHANGED <<blockCount, blockType, next, prev, chunk, fileLast, live>>

Next ==
  \/ \E n \in RequestSizes : AllocInChain(n) \/ AllocNewBlock(n)
  \/ LinkBlock \/ TypeBlock \/ InitHeapBlock \/ AllocInNewBlock \/ AllocAborts
  \/ \E s \in live : Free(s)
  \/ \E s \in dangling : FreeAgain(s)
  \/ \E s \in freed : OwnerWritten(s) \/ RenameFails(s)
  \/ AllocTableBlock
  \/ ReadHeader
  \/ FlushHeader
  \/ Crash

Spec == Init /\ [][Next]_vars

-----------------------------------------------------------------------------
TypeOK ==
  /\ blockCount \in 2..MaxBlocks
  /\ blockType \in [Blocks -> BlockType]
  /\ next \in [Blocks -> Blocks \cup {0}]
  /\ prev \in [Blocks -> Blocks \cup {0}]
  /\ chunk \in [Blocks -> [Offset -> Chunk]]
  /\ lastTable \in Blocks /\ lastHeap \in Blocks
  /\ fileLast \in [table : Blocks, heap : Blocks]
  /\ live \subseteq Span /\ freed \subseteq Span /\ dangling \subseteq Span
  /\ phase \in Phase
  /\ grow \in Growth
  /\ torn \subseteq Blocks

(***************************************************************************)
(* The chunks tile the data area: the end edge stands where it was put,    *)
(* every other header is followed, exactly behind its data, by another one *)
(* and no header hides inside a chunk (the sizes HeapBlock::alloc writes   *)
(* when it splits a chunk).  The exceptions are a block whose allocation   *)
(* is running and the ones whose allocation a crash has cut short: they    *)
(* have no header at all.                                                  *)
(***************************************************************************)
TiledData(data) ==
  /\ data[0].sig # "Data"
  /\ \A o \in Offset : data[o].sig = "EndEdge" <=> o = EdgeOffset
  /\ \A o \in Offset : data[o].sig \notin {"Data", "EndEdge"} =>
        /\ o + HeaderSize + data[o].size \in Offset
        /\ data[o + HeaderSize + data[o].size].sig # "Data"
        /\ \A p \in Offset :
              o < p /\ p < o + HeaderSize + data[o].size => data[p].sig = "Data"

Unfinished == torn \cup Incomplete

Tiling ==
  /\ \A b \in HeapBlocks \ Unfinished : TiledData(chunk[b])
  /\ \A b \in Unfinished, o \in Offset : chunk[b][o] = NoHeader

(***************************************************************************)
(* A chunk is in use exactly when a span for it was handed out and not     *)
(* freed: no allocation is lost, none is handed out twice, and free marks  *)
(* the chunk the span came from and no other.  A span that a second free   *)
(* took away (Robbed) counts as freed, though its owner does not know.     *)
(***************************************************************************)
LiveIsUsed ==
  /\ \A s \in live :
        /\ HeaderOffset(s) \in Offset
        /\ chunk[s.block][HeaderOffset(s)] = [sig |-> "Used", size |-> s.size]
  /\ \A b \in Blocks, o \in Offset :
        chunk[b][o].sig = "Used" => SpanAt(b, o, chunk[b][o].size) \in live

(***************************************************************************)
(* Two spans that are both live share no byte, and none reaches into a     *)
(* chunk header or out of its block.                                       *)
(***************************************************************************)
NoOverlap ==
  \A s \in live :
     /\ s.offset + s.size + HeaderSize <= BlockSize
     /\ \A t \in live : s # t /\ s.block = t.block =>
           \/ s.offset + s.size + HeaderSize <= t.offset
           \/ t.offset + t.size + HeaderSize <= s.offset

(***************************************************************************)
(* The walk of HeapBlock::alloc over the sizes stops at the first chunk    *)
(* with enough room: no free chunk is skipped.  It meets a corruption      *)
(* error in no block but one without headers, and there it does: it never  *)
(* runs on over zeros.                                                     *)
(***************************************************************************)
WalkFindsFirstFit ==
  \A b \in HeapBlocks, n \in RequestSizes :
     LET w == Walk(chunk[b], n)
     IN IF b \in Unfinished THEN w = Corrupted
        ELSE IF Fits(chunk[b], n) = {} THEN w = NoSpace
        ELSE FirstFit(chunk[b], n, w)

(***************************************************************************)
(* next_block and prev_block of blocks of one kind agree, so that the walk *)
(* of Heap::alloc from block 2 meets heap blocks only, and ends: links go  *)
(* forward.  Only a link to a block whose allocation a crash has cut short *)
(* can lead to the error "non-heap block in heap block list", and from     *)
(* such a block no link leads on.                                          *)
(***************************************************************************)
LinksAgree ==
  \A b \in Blocks : next[b] # 0 =>
     /\ next[b] > b /\ next[b] <= blockCount /\ b \notin Unfinished
     /\ next[b] \notin Unfinished =>
           prev[next[b]] = b /\ blockType[next[b]] = blockType[b]

\* Neither the walk over a block nor the one over the blocks goes astray.
BlocksCanBeWalked == WalkFindsFirstFit /\ LinksAgree

(***************************************************************************)
(* No operation writes a header over the bytes of a span that stays live:  *)
(* strings of other rows survive every alloc, free, growth and restart,    *)
(* and a second free, unless it is of their own chunk.                     *)
(***************************************************************************)
Touched(b, o) == chunk'[b][o] # chunk[b][o]

WritesMissLiveData ==
  \A s \in live \cap live', o \in Offset :
     Touched(s.block, o) =>
        \/ o + HeaderSize + BlockHeaderSize <= s.offset - HeaderSize
        \/ s.offset + s.size <= o + BlockHeaderSize

LiveDataIsStable == [][WritesMissLiveData]_vars

=============================================================================
