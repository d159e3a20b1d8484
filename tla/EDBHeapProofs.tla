--------------------------- MODULE EDBHeapProofs ---------------------------
(***************************************************************************)
(* Proofs about EDBHeap, for every block size, header size, set of         *)
(* requests and file length.                                               *)
(***************************************************************************)
EXTENDS EDBHeap, Induction, TLAPS

Data == [Offset -> Chunk]

LEMMA Sizes ==
  /\ DataSize \in Nat /\ EdgeOffset \in Nat /\ FreshSize \in Nat
  /\ HeaderSize \in Nat /\ HeaderSize > 0
  /\ EdgeOffset = FreshSize + HeaderSize /\ DataSize = EdgeOffset + HeaderSize
  /\ BlockSize = DataSize + BlockHeaderSize
  /\ BlockHeaderSize \in Nat /\ BlockSize \in Nat
  /\ RequestSizes \subseteq Nat
  /\ MaxBlocks \in Nat /\ 2 \in Blocks /\ 1 \in Blocks
BY SizesAssumption DEF SizesAssumption, DataSize, EdgeOffset, FreshSize, Blocks

(***************************************************************************)
(* place_edge_headers makes a well-formed data area.                       *)
(***************************************************************************)
LEMMA FreshIsTiled ==
  /\ FreshData \in Data
  /\ TiledData(FreshData)
  /\ \A o \in Offset : FreshData[o].sig # "Used"
<1> USE Sizes
<1>1. FreshData \in Data
  BY DEF FreshData, Data, Chunk, Signature, Available, NoHeader, Offset
<1>2. TiledData(FreshData)
  BY DEF FreshData, TiledData, NoHeader, Offset
<1>3. \A o \in Offset : FreshData[o].sig # "Used"
  BY DEF FreshData, NoHeader, Offset
<1> QED BY <1>1, <1>2, <1>3

(***************************************************************************)
(* Splitting a chunk that has room for the request and two headers keeps   *)
(* the data area tiled and uses that chunk and no other.                   *)
(***************************************************************************)
LEMMA CarveIsTiled ==
  ASSUME NEW data \in Data, TiledData(data),
         NEW n \in Nat, NEW o \in Fits(data, n)
  PROVE  /\ o \in Offset /\ o + HeaderSize + n \in Offset
         /\ data[o].sig \in Available
         /\ n + HeaderSize + HeaderSize <= data[o].size
         /\ Carve(data, o, n) \in Data
         /\ TiledData(Carve(data, o, n))
         /\ Carve(data, o, n)[o] = [sig |-> "Used", size |-> n]
         /\ Carve(data, o, n)[o + HeaderSize + n].sig = "Empty"
         /\ data[o + HeaderSize + n].sig = "Data"
         /\ \A p \in Offset : p # o /\ p # o + HeaderSize + n =>
               Carve(data, o, n)[p] = data[p]
<1> USE Sizes
<1> DEFINE q == o + HeaderSize + n
           end == o + HeaderSize + data[o].size
           new == Carve(data, o, n)
           rest == data[o].size - n - HeaderSize
<1>1. /\ o \in Offset /\ data[o] \in Chunk /\ data[o].size \in Nat
      /\ data[o].size >= n + 2 * HeaderSize /\ data[o].sig \in Available
  BY DEF Fits, Data, Chunk
<1>2. end \in Offset /\ data[end].sig # "Data"
  BY <1>1 DEF TiledData, Available
<1>3. q \in Offset /\ o < q /\ q < end
  BY <1>1, <1>2 DEF Offset
<1>4. data[q].sig = "Data"
  BY <1>1, <1>3 DEF TiledData, Available
<1>5. /\ new[o] = [sig |-> "Used", size |-> n]
      /\ new[q] = [sig |-> "Empty", size |-> rest]
      /\ \A p \in Offset : p # o /\ p # q => new[p] = data[p]
  BY <1>1, <1>3 DEF Carve, Data, Offset
<1>6. rest \in 0..DataSize /\ n \in 0..DataSize
  BY <1>1 DEF Chunk
<1>7. new \in Data
  <2>1. [sig |-> "Used", size |-> n] \in Chunk
        /\ [sig |-> "Empty", size |-> rest] \in Chunk
    BY <1>6 DEF Chunk, Signature, Available
  <2> QED BY <2>1, <1>3 DEF Carve, Data
<1>8. TiledData(new)
  <2>1. new[0].sig # "Data"
    BY <1>3, <1>5 DEF TiledData, Offset
  <2>2. ASSUME NEW p \in Offset
        PROVE  new[p].sig = "EndEdge" <=> p = EdgeOffset
    BY <1>1, <1>3, <1>4, <1>5 DEF TiledData, Available
  <2>3. ASSUME NEW p \in Offset, new[p].sig \notin {"Data", "EndEdge"}
        PROVE  /\ p + HeaderSize + new[p].size \in Offset
               /\ new[p + HeaderSize + new[p].size].sig # "Data"
               /\ \A r \in Offset :
                     p < r /\ r < p + HeaderSize + new[p].size
                       => new[r].sig = "Data"
    <3>1. CASE p = o
      <4>1. new[p].size = n
        BY <3>1, <1>5
      <4>2. \A r \in Offset : o < r /\ r < q => data[r].sig = "Data"
        BY <1>1, <1>3 DEF TiledData, Available, Offset
      <4> QED BY <3>1, <4>1, <4>2, <1>1, <1>3, <1>5 DEF Offset
    <3>2. CASE p = q
      <4>1. new[p].size = rest /\ p + HeaderSize + rest = end
        BY <3>2, <1>5, <1>1 DEF Offset
      <4>2. new[end] = data[end]
        BY <1>2, <1>3, <1>5 DEF Offset
      <4>3. \A r \in Offset : q < r /\ r < end => data[r].sig = "Data"
        BY <1>1, <1>3 DEF TiledData, Available, Offset
      <4> QED BY <3>2, <4>1, <4>2, <4>3, <1>2, <1>3, <1>5 DEF Offset
    <3>3. CASE p # o /\ p # q
      <4>1. new[p] = data[p] /\ data[p].size \in Nat
        BY <3>3, <1>5 DEF Data, Chunk
      <4> DEFINE pend == p + HeaderSize + data[p].size
      <4>2. /\ pend \in Offset /\ data[pend].sig # "Data"
            /\ \A r \in Offset : p < r /\ r < pend => data[r].sig = "Data"
        BY <2>3, <4>1 DEF TiledData
      <4>3. new[pend].sig # "Data"
        BY <4>2, <1>3, <1>4, <1>5
      <4>4. ~(p < o /\ o < pend)
        BY <1>1, <4>2 DEF Available
      <4>5. ~(p < q /\ q < pend)
        <5>1. SUFFICES ASSUME p < q, q < pend PROVE FALSE
          OBVIOUS
        <5>2. o < p
          BY <5>1, <4>1, <4>4, <3>3, <1>3, <1>1 DEF Offset
        <5>3. data[p].sig = "Data"
          BY <5>1, <5>2, <1>1, <1>3 DEF TiledData, Available, Offset
        <5> QED BY <5>3, <4>1, <2>3
      <4> QED BY <4>1, <4>2, <4>3, <4>4, <4>5, <1>5, <1>3, <3>3
    <3> QED BY <3>1, <3>2, <3>3
  <2> QED BY <2>1, <2>2, <2>3 DEF TiledData
<1> QED BY <1>1, <1>3, <1>4, <1>5, <1>7, <1>8 DEF Offset

(***************************************************************************)
(* Marking a chunk as freed keeps the data area tiled.                     *)
(***************************************************************************)
LEMMA FreeIsTiled ==
  ASSUME NEW data \in Data, TiledData(data),
         NEW o \in Offset, data[o].sig \in {"Used", "Freed"}
  PROVE  /\ [data EXCEPT ![o].sig = "Freed"] \in Data
         /\ TiledData([data EXCEPT ![o].sig = "Freed"])
<1> USE Sizes
<1> DEFINE new == [data EXCEPT ![o].sig = "Freed"]
<1>1. /\ new[o].sig = "Freed" /\ new[o].size = data[o].size
      /\ \A p \in Offset : p # o => new[p] = data[p]
  BY DEF Data, Chunk
<1>2. new \in Data
  BY DEF Data, Chunk, Signature, Available
<1>3. \A p \in Offset : new[p].size = data[p].size
                        /\ (new[p].sig = "Data" <=> data[p].sig = "Data")
                        /\ (new[p].sig = "EndEdge" <=> data[p].sig = "EndEdge")
  BY <1>1
<1>4. TiledData(new)
  BY <1>3 DEF TiledData, Offset
<1> QED BY <1>2, <1>4

(***************************************************************************)
(* The inductive invariant.  Tiling alone is not inductive: a free needs   *)
(* to know that a chunk stands where its span says, for a live span        *)
(* (LiveIsUsed) and for one that was freed before (StaleHaveHeaders); and  *)
(* the steps of allocate_block need to know which of its writes are done   *)
(* (GrowthIsAtItsStep) and that nothing was in the new block before        *)
(* (OnlyHeapBlocksHaveChunks).                                             *)
(***************************************************************************)
OnlyHeapBlocksHaveChunks ==
  /\ \A b \in Blocks \ HeapBlocks, o \in Offset : chunk[b][o] = NoHeader
  /\ \A b \in Blocks : b > blockCount => blockType[b] = "None"

GrowthIsAtItsStep ==
  /\ grow.step = "idle" => grow = NoGrowth
  /\ grow.step # "idle" => grow.type \in {"Table", "Heap"} /\ blockCount \notin torn
  /\ grow.step \in {"expanded", "linked"} => blockType[blockCount] = "Free"
  /\ grow.step \in {"typed", "ready"} =>
        grow.type = "Heap" /\ blockType[blockCount] = "Heap"
  /\ grow.step = "ready" => chunk[blockCount] = FreshData
  /\ \A b \in torn : b <= blockCount

StaleHaveHeaders ==
  \A s \in freed \cup dangling :
     /\ HeaderOffset(s) \in Offset
     /\ chunk[s.block][HeaderOffset(s)].sig \in {"Used", "Freed"}

Inv == /\ TypeOK /\ Tiling /\ LiveIsUsed
       /\ OnlyHeapBlocksHaveChunks /\ GrowthIsAtItsStep /\ StaleHaveHeaders

LEMMA NoHeaderIsChunk ==
  NoHeader \in Chunk /\ NoHeader.sig = "Data" /\ FreshData[0].sig = "Empty"
BY Sizes DEF NoHeader, Chunk, Signature, FreshData, Offset

LEMMA GrowthTypes == Inv => blockCount \in Blocks /\ grow.size \in Nat
<1> SUFFICES ASSUME Inv PROVE blockCount \in Blocks /\ grow.size \in Nat
  OBVIOUS
<1>1. blockCount \in Blocks
  BY Sizes DEF Inv, TypeOK, Blocks
<1>2. grow.size \in RequestSizes \cup {0}
  BY DEF Inv, TypeOK, Growth
<1>3. grow.size \in RequestSizes => grow.size \in Nat
  BY Sizes
<1>4. grow.size = 0 => grow.size \in Nat
  OBVIOUS
<1> QED BY <1>1, <1>2, <1>3, <1>4

LEMMA InitInv == Init => Inv
<1> USE Sizes
<1> SUFFICES ASSUME Init PROVE Inv
  OBVIOUS
<1>1. NoHeader \in Chunk
  BY NoHeaderIsChunk
<1>2. \A b \in Blocks : chunk[b] = IF b = 2 THEN FreshData
                                    ELSE [o \in Offset |-> NoHeader]
  BY DEF Init
<1>3. TypeOK
  <2>1. chunk \in [Blocks -> [Offset -> Chunk]]
    BY <1>1, FreshIsTiled DEF Init, Data
  <2>2. blockType \in [Blocks -> BlockType]
    BY DEF Init, BlockType
  <2>3. next \in [Blocks -> Blocks \cup {0}] /\ prev \in [Blocks -> Blocks \cup {0}]
    BY DEF Init
  <2>4. blockCount \in 2..MaxBlocks /\ lastTable \in Blocks /\ lastHeap \in Blocks
        /\ fileLast \in [table : Blocks, heap : Blocks]
    BY DEF Init, Blocks
  <2>5. live \subseteq Span /\ phase \in Phase
        /\ freed \subseteq Span /\ dangling \subseteq Span /\ torn \subseteq Blocks
    BY DEF Init, Phase
  <2>6. grow \in Growth
    BY DEF Init, NoGrowth, Growth, GrowthStep, BlockType
  <2> QED BY <2>1, <2>2, <2>3, <2>4, <2>5, <2>6 DEF TypeOK
<1>4. HeapBlocks = {2} /\ Unfinished = {}
  BY DEF Init, HeapBlocks, Unfinished, Incomplete, NoGrowth
<1>5. Tiling
  BY <1>2, <1>4, FreshIsTiled DEF Tiling
<1>6. \A b \in Blocks, o \in Offset : chunk[b][o].sig # "Used"
  BY <1>2, FreshIsTiled DEF NoHeader
<1>7. LiveIsUsed
  BY <1>6 DEF Init, LiveIsUsed
<1>8. OnlyHeapBlocksHaveChunks
  BY <1>2, <1>4 DEF OnlyHeapBlocksHaveChunks, Init, Blocks
<1>9. GrowthIsAtItsStep /\ StaleHaveHeaders
  BY DEF GrowthIsAtItsStep, StaleHaveHeaders, Init, NoGrowth
<1> QED BY <1>3, <1>5, <1>7, <1>8, <1>9 DEF Inv

\* A block with a header is a heap block, and a finished one.
LEMMA HeaderMeansFinished ==
  ASSUME Inv, NEW b \in Blocks, NEW o \in Offset, chunk[b][o].sig # "Data"
  PROVE  /\ b \in HeapBlocks /\ b \notin Unfinished
         /\ chunk[b] \in Data /\ TiledData(chunk[b])
<1>1. b \in HeapBlocks /\ b \notin Unfinished
  BY NoHeaderIsChunk DEF Inv, OnlyHeapBlocksHaveChunks, Tiling
<1> QED BY <1>1 DEF Inv, TypeOK, Tiling, Data

(***************************************************************************)
(* A block whose chunk at o is split for a span of n bytes: the part of    *)
(* the invariant that the two ways to allocate share.                      *)
(***************************************************************************)
LEMMA CarvePreserves ==
  ASSUME Inv, NEW n \in Nat, NEW b \in Blocks, NEW o \in Fits(chunk[b], n),
         chunk' = [chunk EXCEPT ![b] = Carve(chunk[b], o, n)],
         live' = live \cup {SpanAt(b, o, n)}, UNCHANGED stale
  PROVE  /\ chunk' \in [Blocks -> Data]
         /\ \A c \in Blocks : c # b => chunk'[c] = chunk[c]
         /\ b \in HeapBlocks /\ b \notin Unfinished /\ TiledData(chunk'[b])
         /\ live' \subseteq Span
         /\ LiveIsUsed' /\ StaleHaveHeaders'
<1> USE Sizes
<1> DEFINE old == chunk[b]
           q == o + HeaderSize + n
           new == Carve(old, o, n)
<1>0. old \in Data /\ TiledData(old) /\ b \in HeapBlocks /\ b \notin Unfinished
  <2>1. o \in Offset /\ chunk[b][o].sig # "Data"
    BY DEF Fits, Available
  <2> QED BY <2>1, HeaderMeansFinished
<1>1. /\ o \in Offset /\ q \in Offset
      /\ old[o].sig \in Available /\ old[q].sig = "Data"
      /\ new \in Data /\ TiledData(new)
      /\ new[o] = [sig |-> "Used", size |-> n] /\ new[q].sig = "Empty"
      /\ \A p \in Offset : p # o /\ p # q => new[p] = old[p]
  BY <1>0, CarveIsTiled
<1>2. chunk \in [Blocks -> Data]
  BY DEF Inv, TypeOK, Data
<1>3. /\ chunk' \in [Blocks -> Data]
      /\ chunk'[b] = new
      /\ \A c \in Blocks : c # b => chunk'[c] = chunk[c]
  BY <1>1, <1>2
<1>4. SpanAt(b, o, n) \in Span
  BY <1>1 DEF SpanAt, Span, Offset
<1>5. HeaderOffset(SpanAt(b, o, n)) = o /\ SpanAt(b, o, n).block = b
      /\ SpanAt(b, o, n).size = n
  BY <1>1 DEF SpanAt, HeaderOffset, Offset
<1>6. ASSUME NEW s \in live'
      PROVE  /\ HeaderOffset(s) \in Offset
             /\ chunk'[s.block][HeaderOffset(s)]
                   = [sig |-> "Used", size |-> s.size]
  <2>1. CASE s = SpanAt(b, o, n)
    BY <2>1, <1>1, <1>3, <1>5
  <2>2. CASE s \in live
    <3>1. /\ HeaderOffset(s) \in Offset /\ s.block \in Blocks
          /\ chunk[s.block][HeaderOffset(s)] = [sig |-> "Used", size |-> s.size]
      BY <2>2 DEF Inv, LiveIsUsed, TypeOK, Span
    <3>2. s.block = b => HeaderOffset(s) # o /\ HeaderOffset(s) # q
      BY <3>1, <1>1 DEF Available
    <3> QED BY <3>1, <3>2, <1>1, <1>3
  <2> QED BY <2>1, <2>2
<1>7. ASSUME NEW c \in Blocks, NEW p \in Offset, chunk'[c][p].sig = "Used"
      PROVE  SpanAt(c, p, chunk'[c][p].size) \in live'
  <2>1. CASE c # b
    BY <2>1, <1>3, <1>7 DEF Inv, LiveIsUsed
  <2>2. CASE c = b /\ p = o
    BY <2>2, <1>1, <1>3
  <2>3. CASE c = b /\ p # o
    <3>1. p # q
      BY <2>3, <1>1, <1>3, <1>7
    <3>2. new[p] = old[p] /\ old[p].sig = "Used"
      BY <2>3, <3>1, <1>1, <1>3, <1>7
    <3> QED BY <2>3, <3>2, <1>3 DEF Inv, LiveIsUsed
  <2> QED BY <2>1, <2>2, <2>3
<1>8. LiveIsUsed'
  BY <1>6, <1>7 DEF LiveIsUsed, HeaderOffset
<1>9. live' \subseteq Span
  BY <1>4 DEF Inv, TypeOK
<1>10. StaleHaveHeaders'
  <2> SUFFICES ASSUME NEW s \in freed \cup dangling
               PROVE  /\ HeaderOffset(s) \in Offset
                      /\ chunk'[s.block][HeaderOffset(s)].sig \in {"Used", "Freed"}
    BY DEF StaleHaveHeaders, stale, HeaderOffset
  <2>1. /\ HeaderOffset(s) \in Offset /\ s.block \in Blocks
        /\ chunk[s.block][HeaderOffset(s)].sig \in {"Used", "Freed"}
    BY DEF Inv, StaleHaveHeaders, TypeOK, Span
  <2>2. s.block = b => HeaderOffset(s) # q
    BY <2>1, <1>1
  <2>3. CASE s.block = b /\ HeaderOffset(s) = o
    BY <2>3, <2>1, <1>1, <1>3
  <2>4. CASE ~(s.block = b /\ HeaderOffset(s) = o)
    BY <2>4, <2>1, <2>2, <1>1, <1>3
  <2> QED BY <2>3, <2>4
<1> QED BY <1>0, <1>1, <1>3, <1>8, <1>9, <1>10

\* The parts of the invariant that do not look at the links.
LEMMA ChunksKept ==
  ASSUME Inv, UNCHANGED <<chunk, live, stale>>
  PROVE  LiveIsUsed' /\ StaleHaveHeaders'
BY DEF Inv, LiveIsUsed, StaleHaveHeaders, HeaderOffset, stale

LEMMA ExpandInv ==
  ASSUME Inv, NEW type \in {"Table", "Heap"}, NEW n \in RequestSizes \cup {0},
         Expand(type, n)
  PROVE  Inv'
<1> USE Sizes
<1> DEFINE b == blockCount + 1
<1>1. /\ b \in Blocks /\ blockCount' = b /\ b \in 2..MaxBlocks /\ blockCount \in Nat
      /\ blockType' = [blockType EXCEPT ![b] = "Free"] /\ blockType[b] = "None"
      /\ grow' = [step |-> "expanded", type |-> type, size |-> n] /\ grow = NoGrowth
      /\ UNCHANGED <<next, prev, chunk, lastTable, lastHeap, fileLast, live, phase,
                     torn, stale>>
  BY DEF Inv, TypeOK, Expand, Idle, Blocks, OnlyHeapBlocksHaveChunks
<1>2. /\ blockType'[b] = "Free"
      /\ \A c \in Blocks : c # b => blockType'[c] = blockType[c]
      /\ blockType' \in [Blocks -> BlockType]
  BY <1>1 DEF Inv, TypeOK, BlockType
<1>3. HeapBlocks' = HeapBlocks /\ b \notin HeapBlocks
  BY <1>1, <1>2 DEF HeapBlocks
<1>4. Unfinished = torn /\ Unfinished' = torn \cup {b}
  BY <1>1 DEF Unfinished, Incomplete, NoGrowth
<1>5. TypeOK'
  BY <1>1, <1>2 DEF Inv, TypeOK, stale, Growth, GrowthStep, BlockType
<1>6. Tiling'
  BY <1>1, <1>3, <1>4 DEF Inv, Tiling, OnlyHeapBlocksHaveChunks
<1>7. OnlyHeapBlocksHaveChunks'
  BY <1>1, <1>2, <1>3 DEF Inv, OnlyHeapBlocksHaveChunks, Blocks
<1>8. GrowthIsAtItsStep'
  BY <1>1, <1>2 DEF Inv, GrowthIsAtItsStep, TypeOK, Blocks
<1>9. LiveIsUsed' /\ StaleHaveHeaders'
  BY <1>1, ChunksKept
<1> QED BY <1>5, <1>6, <1>7, <1>8, <1>9 DEF Inv

LEMMA AllocTableBlockInv == ASSUME Inv, AllocTableBlock PROVE Inv'
BY ExpandInv DEF AllocTableBlock

LEMMA AllocNewBlockInv ==
  ASSUME Inv, NEW n \in RequestSizes, AllocNewBlock(n) PROVE Inv'
BY ExpandInv DEF AllocNewBlock

LEMMA LinkBlockInv == ASSUME Inv, LinkBlock PROVE Inv'
<1> USE Sizes
<1>1. /\ grow.step = "expanded" /\ grow \in Growth
      /\ grow' = [grow EXCEPT !.step = "linked"]
      /\ UNCHANGED <<blockCount, blockType, prev, chunk, lastTable, lastHeap,
                     fileLast, live, phase, torn, stale>>
      /\ next' = [next EXCEPT ![Last(grow.type)] = blockCount]
  BY DEF LinkBlock, Inv, TypeOK
<1>2. /\ grow' \in Growth /\ grow'.step = "linked" /\ grow'.type = grow.type
  BY <1>1 DEF Growth, GrowthStep
<1>3. HeapBlocks' = HeapBlocks /\ Unfinished' = Unfinished
  BY <1>1, <1>2 DEF HeapBlocks, Unfinished, Incomplete
<1>4. next' \in [Blocks -> Blocks \cup {0}] /\ blockCount \in Blocks
  <2>1. blockCount \in Blocks
    BY DEF Inv, TypeOK, Blocks
  <2> QED BY <2>1, <1>1 DEF Inv, TypeOK
<1>5. TypeOK'
  BY <1>1, <1>2, <1>4 DEF Inv, TypeOK, stale
<1>6. Tiling' /\ OnlyHeapBlocksHaveChunks'
  BY <1>1, <1>3 DEF Inv, Tiling, OnlyHeapBlocksHaveChunks
<1>7. GrowthIsAtItsStep'
  BY <1>1, <1>2 DEF Inv, GrowthIsAtItsStep
<1>8. LiveIsUsed' /\ StaleHaveHeaders'
  BY <1>1, ChunksKept
<1> QED BY <1>5, <1>6, <1>7, <1>8 DEF Inv

LEMMA TypeBlockInv == ASSUME Inv, TypeBlock PROVE Inv'
<1> USE Sizes
<1> DEFINE b == blockCount
<1>1. /\ grow.step = "linked" /\ grow \in Growth /\ b \in Blocks /\ b \in Nat
      /\ grow.type \in {"Table", "Heap"} /\ b \notin torn
      /\ blockType[b] = "Free"
      /\ blockType' = [blockType EXCEPT ![b] = grow.type]
      /\ prev' = [prev EXCEPT ![b] = Last(grow.type)]
      /\ UNCHANGED <<blockCount, next, chunk, fileLast, live, phase, torn, stale>>
  <2>1. TypeBlock /\ TypeOK /\ GrowthIsAtItsStep
    BY DEF Inv
  <2>2. /\ grow.step = "linked" /\ blockType' = [blockType EXCEPT ![b] = grow.type]
        /\ prev' = [prev EXCEPT ![b] = Last(grow.type)]
        /\ UNCHANGED <<blockCount, next, chunk, fileLast, live, phase, torn, stale>>
    BY <2>1 DEF TypeBlock
  <2>3. grow \in Growth /\ b \in Blocks /\ b \in Nat
    BY <2>1 DEF TypeOK, Blocks
  <2>4. grow.type \in {"Table", "Heap"} /\ b \notin torn /\ blockType[b] = "Free"
    BY <2>1, <2>2 DEF GrowthIsAtItsStep
  <2> QED BY <2>2, <2>3, <2>4
<1>2. /\ blockType'[b] = grow.type
      /\ \A c \in Blocks : c # b => blockType'[c] = blockType[c]
      /\ blockType' \in [Blocks -> BlockType]
  BY <1>1 DEF Inv, TypeOK, BlockType
<1>3. lastTable' \in Blocks /\ lastHeap' \in Blocks /\ grow' \in Growth
  BY <1>1 DEF TypeBlock, Inv, TypeOK, Growth, GrowthStep, NoGrowth, BlockType
<1>4. prev' \in [Blocks -> Blocks \cup {0}]
  BY <1>1 DEF Inv, TypeOK, Last
<1>5. TypeOK'
  BY <1>1, <1>2, <1>3, <1>4 DEF Inv, TypeOK, stale
<1>6. \A o \in Offset : chunk[b][o] = NoHeader
  BY <1>1 DEF Inv, OnlyHeapBlocksHaveChunks, HeapBlocks
<1>7. Tiling' /\ OnlyHeapBlocksHaveChunks'
  <2>1. Unfinished = torn \cup {b}
    BY <1>1 DEF Unfinished, Incomplete
  <2>2. CASE grow.type = "Table"
    <3>1. HeapBlocks' = HeapBlocks /\ b \notin HeapBlocks
      BY <2>2, <1>1, <1>2 DEF HeapBlocks
    <3>2. Unfinished' = torn
      BY <2>2, <1>1 DEF TypeBlock, Unfinished, Incomplete, NoGrowth
    <3> QED BY <1>1, <1>2, <2>1, <3>1, <3>2 DEF Inv, Tiling, OnlyHeapBlocksHaveChunks
  <2>3. CASE grow.type = "Heap"
    <3>1. HeapBlocks' = HeapBlocks \cup {b}
      BY <2>3, <1>1, <1>2 DEF HeapBlocks
    <3>2. Unfinished' = torn \cup {b}
      BY <2>3, <1>1 DEF TypeBlock, Unfinished, Incomplete, Growth
    <3> QED BY <1>1, <1>2, <1>6, <2>1, <3>1, <3>2
            DEF Inv, Tiling, OnlyHeapBlocksHaveChunks
  <2> QED BY <1>1, <2>2, <2>3
<1>8. GrowthIsAtItsStep'
  <2>1. CASE grow.type = "Table"
    BY <2>1, <1>1 DEF TypeBlock, Inv, GrowthIsAtItsStep, NoGrowth
  <2>2. CASE grow.type = "Heap"
    <3>1. grow'.step = "typed" /\ grow'.type = "Heap"
      BY <2>2, <1>1 DEF TypeBlock, Growth
    <3> QED BY <3>1, <2>2, <1>1, <1>2 DEF Inv, GrowthIsAtItsStep
  <2> QED BY <1>1, <2>1, <2>2
<1>9. LiveIsUsed' /\ StaleHaveHeaders'
  BY <1>1, ChunksKept
<1> QED BY <1>5, <1>7, <1>8, <1>9 DEF Inv

LEMMA InitHeapBlockInv == ASSUME Inv, InitHeapBlock PROVE Inv'
<1> USE Sizes
<1> DEFINE b == blockCount
<1>1. /\ grow.step = "typed" /\ grow \in Growth /\ b \in Blocks /\ b \notin torn
      /\ grow.type = "Heap" /\ blockType[b] = "Heap"
      /\ chunk' = [chunk EXCEPT ![b] = FreshData]
      /\ grow' = [grow EXCEPT !.step = "ready"]
      /\ UNCHANGED <<blocks, fileLast, live, phase, torn, stale>>
      /\ UNCHANGED <<blockCount, blockType, next, prev, lastTable, lastHeap>>
  BY DEF InitHeapBlock, Inv, TypeOK, GrowthIsAtItsStep, Blocks, blocks
<1>2. /\ chunk' \in [Blocks -> Data] /\ chunk'[b] = FreshData
      /\ \A c \in Blocks : c # b => chunk'[c] = chunk[c]
  BY <1>1, FreshIsTiled DEF Inv, TypeOK, Data
<1>3. grow' \in Growth /\ grow'.step = "ready" /\ grow'.type = "Heap"
  BY <1>1 DEF Growth, GrowthStep
<1>4. HeapBlocks' = HeapBlocks /\ Unfinished = torn \cup {b} /\ Unfinished' = torn
      /\ b \in HeapBlocks
  BY <1>1, <1>3 DEF HeapBlocks, Unfinished, Incomplete
<1>5. TypeOK'
  BY <1>1, <1>2, <1>3 DEF Inv, TypeOK, stale, Data
<1>6. Tiling'
  <2>1. \A c \in HeapBlocks \ torn : TiledData(chunk'[c])
    <3> SUFFICES ASSUME NEW c \in HeapBlocks \ torn PROVE TiledData(chunk'[c])
      OBVIOUS
    <3>1. CASE c = b
      BY <3>1, <1>2, FreshIsTiled
    <3>2. CASE c # b
      BY <3>2, <1>2, <1>4 DEF Inv, Tiling, HeapBlocks
    <3> QED BY <3>1, <3>2
  <2>2. \A c \in torn, o \in Offset : chunk'[c][o] = NoHeader
    BY <1>1, <1>2, <1>4 DEF Inv, Tiling, TypeOK
  <2> QED BY <2>1, <2>2, <1>4 DEF Tiling
<1>7. OnlyHeapBlocksHaveChunks'
  BY <1>1, <1>2, <1>4 DEF Inv, OnlyHeapBlocksHaveChunks
<1>8. GrowthIsAtItsStep'
  BY <1>1, <1>2, <1>3 DEF Inv, GrowthIsAtItsStep
<1>9. \A o \in Offset : chunk[b][o].sig = "Data" /\ chunk'[b][o].sig # "Used"
  BY <1>2, <1>4, FreshIsTiled, NoHeaderIsChunk DEF Inv, Tiling
<1>10. LiveIsUsed'
  <2>1. \A s \in live : s.block \in Blocks /\ HeaderOffset(s) \in Offset
          /\ chunk[s.block][HeaderOffset(s)] = [sig |-> "Used", size |-> s.size]
    BY DEF Inv, TypeOK, LiveIsUsed, Span
  <2>2. ASSUME NEW s \in live PROVE s.block # b
    <3>1. /\ HeaderOffset(s) \in Offset
          /\ chunk[s.block][HeaderOffset(s)] = [sig |-> "Used", size |-> s.size]
      BY <2>1
    <3> QED BY <3>1, <1>9
  <2> QED BY <2>1, <2>2, <1>1, <1>2, <1>9 DEF Inv, LiveIsUsed, HeaderOffset
<1>11. StaleHaveHeaders'
  <2> SUFFICES ASSUME NEW s \in freed \cup dangling
               PROVE  /\ HeaderOffset(s) \in Offset
                      /\ chunk'[s.block][HeaderOffset(s)].sig \in {"Used", "Freed"}
    BY <1>1 DEF StaleHaveHeaders, stale, HeaderOffset
  <2>1. /\ HeaderOffset(s) \in Offset /\ s.block \in Blocks
        /\ chunk[s.block][HeaderOffset(s)].sig \in {"Used", "Freed"}
    BY DEF Inv, StaleHaveHeaders, TypeOK, Span
  <2>2. s.block # b
    BY <2>1, <1>9
  <2> QED BY <2>1, <2>2, <1>2
<1> QED BY <1>5, <1>6, <1>7, <1>8, <1>10, <1>11 DEF Inv

LEMMA AllocInChainInv ==
  ASSUME Inv, NEW n \in RequestSizes, AllocInChain(n) PROVE Inv'
<1> USE Sizes
<1>1. PICK b \in HeapBlocks, o \in Offset :
        /\ FirstFit(chunk[b], n, o)
        /\ chunk' = [chunk EXCEPT ![b] = Carve(chunk[b], o, n)]
        /\ live' = live \cup {SpanAt(b, o, n)}
  BY DEF AllocInChain
<1>2. b \in Blocks /\ o \in Fits(chunk[b], n) /\ n \in Nat
      /\ UNCHANGED <<stale, blocks, fileLast, phase, grow, torn>>
      /\ grow = NoGrowth
  BY <1>1 DEF HeapBlocks, FirstFit, AllocInChain, Admitted, Idle
<1>3. /\ chunk' \in [Blocks -> Data]
      /\ \A c \in Blocks : c # b => chunk'[c] = chunk[c]
      /\ b \in HeapBlocks /\ b \notin Unfinished /\ TiledData(chunk'[b])
      /\ live' \subseteq Span /\ LiveIsUsed' /\ StaleHaveHeaders'
  BY <1>1, <1>2, CarvePreserves
<1>4. HeapBlocks' = HeapBlocks /\ Unfinished' = Unfinished
  BY <1>2 DEF blocks, HeapBlocks, Unfinished, Incomplete
<1>5. TypeOK'
  BY <1>2, <1>3 DEF Inv, TypeOK, blocks, stale, Data
<1>6. Tiling'
  <2>1. \A c \in HeapBlocks \ Unfinished : TiledData(chunk'[c])
    BY <1>3 DEF Inv, Tiling, HeapBlocks
  <2>2. Unfinished \subseteq Blocks
    BY DEF Inv, TypeOK, Unfinished, Incomplete, Blocks
  <2>3. \A c \in Unfinished, p \in Offset : chunk'[c][p] = NoHeader
    BY <2>2, <1>3 DEF Inv, Tiling
  <2> QED BY <2>1, <2>3, <1>4 DEF Tiling
<1>7. OnlyHeapBlocksHaveChunks'
  BY <1>2, <1>3, <1>4 DEF Inv, OnlyHeapBlocksHaveChunks, blocks
<1>8. GrowthIsAtItsStep'
  BY <1>2 DEF Inv, GrowthIsAtItsStep, blocks, NoGrowth
<1> QED BY <1>3, <1>5, <1>6, <1>7, <1>8 DEF Inv

LEMMA AllocInNewBlockInv == ASSUME Inv, AllocInNewBlock PROVE Inv'
<1> USE Sizes
<1> DEFINE b == blockCount
           n == grow.size
<1>1. /\ grow.step = "ready" /\ b \in Blocks /\ n \in Nat /\ 0 \in Fits(chunk[b], n)
      /\ chunk' = [chunk EXCEPT ![b] = Carve(chunk[b], 0, n)]
      /\ live' = live \cup {SpanAt(b, 0, n)}
      /\ grow' = NoGrowth
      /\ UNCHANGED <<stale, blocks, fileLast, phase, torn>>
  <2>1. b \in Blocks /\ n \in Nat
    BY GrowthTypes
  <2>2. grow.step = "ready" /\ chunk[b] = FreshData
    BY DEF AllocInNewBlock, Inv, GrowthIsAtItsStep
  <2> QED BY <2>1, <2>2 DEF AllocInNewBlock
<1>2. /\ chunk' \in [Blocks -> Data]
      /\ \A c \in Blocks : c # b => chunk'[c] = chunk[c]
      /\ b \in HeapBlocks /\ b \notin Unfinished /\ TiledData(chunk'[b])
      /\ live' \subseteq Span /\ LiveIsUsed' /\ StaleHaveHeaders'
  <2>1. PICK c \in Blocks : c = b
    BY <1>1
  <2>2. PICK m \in Nat : m = n
    BY <1>1
  <2>3. PICK o \in Fits(chunk[c], m) : o = 0
    BY <1>1, <2>1, <2>2
  <2>4. /\ o \in Fits(chunk[c], m) /\ UNCHANGED stale
        /\ chunk' = [chunk EXCEPT ![c] = Carve(chunk[c], o, m)]
        /\ live' = live \cup {SpanAt(c, o, m)}
    BY <1>1, <2>1, <2>2, <2>3
  <2> HIDE DEF b, n
  <2>5. /\ chunk' \in [Blocks -> Data]
        /\ \A d \in Blocks : d # c => chunk'[d] = chunk[d]
        /\ c \in HeapBlocks /\ c \notin Unfinished /\ TiledData(chunk'[c])
        /\ live' \subseteq Span /\ LiveIsUsed' /\ StaleHaveHeaders'
    BY <2>4, CarvePreserves
  <2> QED BY <2>1, <2>5
<1>3. HeapBlocks' = HeapBlocks /\ Unfinished = torn /\ Unfinished' = torn
  BY <1>1 DEF blocks, HeapBlocks, Unfinished, Incomplete, NoGrowth
<1>4. NoGrowth \in Growth
  BY DEF NoGrowth, Growth, GrowthStep, BlockType
<1>5. TypeOK'
  BY <1>1, <1>2, <1>4 DEF Inv, TypeOK, blocks, stale, Data
<1>6. Tiling'
  <2>1. \A c \in HeapBlocks \ torn : TiledData(chunk'[c])
    BY <1>2, <1>3 DEF Inv, Tiling, HeapBlocks
  <2>2. \A c \in torn, p \in Offset : chunk'[c][p] = NoHeader
    BY <1>2, <1>3 DEF Inv, Tiling, TypeOK
  <2> QED BY <2>1, <2>2, <1>3 DEF Tiling
<1>7. OnlyHeapBlocksHaveChunks'
  BY <1>1, <1>2, <1>3 DEF Inv, OnlyHeapBlocksHaveChunks, blocks
<1>8. GrowthIsAtItsStep'
  BY <1>1 DEF Inv, GrowthIsAtItsStep, blocks, NoGrowth
<1> QED BY <1>2, <1>5, <1>6, <1>7, <1>8 DEF Inv

(***************************************************************************)
(* A chunk that is marked as freed, by its owner or by one that still      *)
(* names it: the spans of that chunk are live no more, all others are.     *)
(***************************************************************************)
LEMMA MarkFreed ==
  ASSUME Inv, NEW s \in Span, HeaderOffset(s) \in Offset,
         chunk[s.block][HeaderOffset(s)].sig \in {"Used", "Freed"},
         chunk' = [chunk EXCEPT ![s.block][HeaderOffset(s)].sig = "Freed"],
         live' = live \ Robbed(s),
         UNCHANGED <<blocks, fileLast, phase, grow, torn>>
  PROVE  /\ chunk' \in [Blocks -> Data]
         /\ Tiling' /\ LiveIsUsed' /\ OnlyHeapBlocksHaveChunks'
         /\ chunk'[s.block][HeaderOffset(s)].sig = "Freed"
         /\ \A c \in Blocks, p \in Offset :
               ~(c = s.block /\ p = HeaderOffset(s)) => chunk'[c][p] = chunk[c][p]
<1> USE Sizes
<1> DEFINE o == HeaderOffset(s)
           b == s.block
<1>1. b \in Blocks /\ o \in Offset /\ chunk[b][o].sig # "Data"
  BY DEF Span
<1>2. b \in HeapBlocks /\ b \notin Unfinished /\ chunk[b] \in Data /\ TiledData(chunk[b])
  BY <1>1, HeaderMeansFinished
<1>3. /\ [chunk[b] EXCEPT ![o].sig = "Freed"] \in Data
      /\ TiledData([chunk[b] EXCEPT ![o].sig = "Freed"])
  BY <1>2, FreeIsTiled
<1>4. chunk' = [chunk EXCEPT ![b] = [chunk[b] EXCEPT ![o].sig = "Freed"]]
  OBVIOUS
<1>5. /\ chunk' \in [Blocks -> Data] /\ TiledData(chunk'[b])
      /\ chunk'[b][o].sig = "Freed"
      /\ \A p \in Offset : p # o => chunk'[b][p] = chunk[b][p]
      /\ \A c \in Blocks : c # b => chunk'[c] = chunk[c]
  <2>1. chunk \in [Blocks -> Data]
    BY DEF Inv, TypeOK, Data
  <2>2. chunk' \in [Blocks -> Data]
    BY <2>1, <1>1, <1>3, <1>4
  <2>3. chunk'[b] = [chunk[b] EXCEPT ![o].sig = "Freed"]
    BY <2>1, <1>1, <1>4
  <2>4. chunk'[b][o].sig = "Freed" /\ \A p \in Offset : p # o => chunk'[b][p] = chunk[b][p]
    BY <2>3, <1>1, <1>2 DEF Data, Chunk
  <2>5. \A c \in Blocks : c # b => chunk'[c] = chunk[c]
    BY <2>1, <1>1, <1>4
  <2> QED BY <2>2, <2>3, <2>4, <2>5, <1>3
<1>6. HeapBlocks' = HeapBlocks /\ Unfinished' = Unfinished /\ Unfinished \subseteq Blocks
  <2>1. UNCHANGED <<blockCount, blockType, torn, grow>>
    BY DEF blocks
  <2>2. HeapBlocks' = HeapBlocks /\ Unfinished' = Unfinished
    BY <2>1 DEF HeapBlocks, Unfinished, Incomplete
  <2>3. Unfinished \subseteq Blocks
    <3>1. torn \subseteq Blocks /\ blockCount \in Blocks
      <4>1. torn \subseteq Blocks /\ blockCount \in 2..MaxBlocks
        BY Zenon DEF Inv, TypeOK
      <4> QED BY <4>1 DEF Blocks
    <3> QED BY <3>1 DEF Unfinished, Incomplete
  <2> QED BY <2>2, <2>3
<1>7. Tiling'
  <2>1. \A c \in HeapBlocks \ Unfinished : TiledData(chunk'[c])
    BY <1>5 DEF Inv, Tiling, HeapBlocks
  <2>2. \A c \in Unfinished, p \in Offset : chunk'[c][p] = NoHeader
    <3>1. \A c \in Unfinished, p \in Offset : chunk[c][p] = NoHeader
      BY DEF Inv, Tiling
    <3>2. \A c \in Unfinished : c \in Blocks /\ c # b
      BY <1>2, <1>6
    <3>3. \A c \in Unfinished : chunk'[c] = chunk[c]
      BY <3>2, <1>5
    <3> QED BY <3>1, <3>3
  <2> QED BY <2>1, <2>2, <1>6 DEF Tiling
<1>8. OnlyHeapBlocksHaveChunks'
  BY <1>2, <1>5, <1>6 DEF Inv, OnlyHeapBlocksHaveChunks, blocks
<1>9. LiveIsUsed'
  <2>1. ASSUME NEW t \in live'
        PROVE  /\ HeaderOffset(t) \in Offset
               /\ chunk'[t.block][HeaderOffset(t)]
                     = [sig |-> "Used", size |-> t.size]
    <3>1. /\ t \in live /\ t \notin Robbed(s) /\ t.block \in Blocks
          /\ HeaderOffset(t) \in Offset
          /\ chunk[t.block][HeaderOffset(t)]
                = [sig |-> "Used", size |-> t.size]
      BY DEF Inv, TypeOK, LiveIsUsed, Span
    <3>2. ~(t.block = b /\ HeaderOffset(t) = o)
      BY <3>1 DEF Robbed
    <3> QED BY <3>1, <3>2, <1>5
  <2>2. ASSUME NEW c \in Blocks, NEW p \in Offset, chunk'[c][p].sig = "Used"
        PROVE  SpanAt(c, p, chunk'[c][p].size) \in live'
    <3>1. ~(c = b /\ p = o)
      BY <2>2, <1>5
    <3>2. chunk'[c][p] = chunk[c][p]
      BY <3>1, <1>5
    <3>3. SpanAt(c, p, chunk[c][p].size) \in live
      BY <2>2, <3>2 DEF Inv, LiveIsUsed
    <3>4. SpanAt(c, p, chunk[c][p].size) \notin Robbed(s)
      <4>1. HeaderOffset(SpanAt(c, p, chunk[c][p].size)) = p
            /\ SpanAt(c, p, chunk[c][p].size).block = c
        BY DEF SpanAt, HeaderOffset, Offset
      <4> QED BY <4>1, <3>1 DEF Robbed
    <3> QED BY <3>2, <3>3, <3>4
  <2> QED BY <2>1, <2>2 DEF LiveIsUsed, HeaderOffset
<1> QED BY <1>5, <1>7, <1>8, <1>9 DEF Inv

\* A live span is the only one of its chunk.
LEMMA OwnChunk == ASSUME Inv, NEW s \in live PROVE Robbed(s) = {s}
<1> USE Sizes
<1>1. /\ s \in Span /\ HeaderOffset(s) \in Offset
      /\ chunk[s.block][HeaderOffset(s)] = [sig |-> "Used", size |-> s.size]
  BY DEF Inv, TypeOK, LiveIsUsed
<1>2. ASSUME NEW t \in live, t.block = s.block, HeaderOffset(t) = HeaderOffset(s)
      PROVE  t = s
  <2>1. /\ t \in Span
        /\ chunk[t.block][HeaderOffset(t)] = [sig |-> "Used", size |-> t.size]
    BY DEF Inv, TypeOK, LiveIsUsed
  <2>2. t.size = s.size
    BY <1>1, <1>2, <2>1
  <2>3. t.offset = s.offset
    BY <1>1, <1>2, <2>1 DEF HeaderOffset, Span
  <2> QED BY <1>1, <1>2, <2>1, <2>2, <2>3 DEF Span
<1> QED BY <1>2 DEF Robbed

LEMMA FreeInv == ASSUME Inv, NEW s \in live, Free(s) PROVE Inv'
<1>1. /\ s \in Span /\ s.block \in Blocks /\ HeaderOffset(s) \in Offset
      /\ chunk[s.block][HeaderOffset(s)].sig \in {"Used", "Freed"}
  <2>1. s \in Span /\ HeaderOffset(s) \in Offset
        /\ chunk[s.block][HeaderOffset(s)] = [sig |-> "Used", size |-> s.size]
    BY DEF Inv, TypeOK, LiveIsUsed
  <2> QED BY <2>1 DEF Span
<1>2. /\ chunk' = [chunk EXCEPT ![s.block][HeaderOffset(s)].sig = "Freed"]
      /\ live' = live \ Robbed(s) /\ freed' = freed \cup {s}
      /\ UNCHANGED <<blocks, fileLast, phase, grow, torn>> /\ dangling' = dangling
      /\ grow = NoGrowth
  BY OwnChunk DEF Free, Idle
<1>3. /\ chunk' \in [Blocks -> Data]
      /\ Tiling' /\ LiveIsUsed' /\ OnlyHeapBlocksHaveChunks'
      /\ chunk'[s.block][HeaderOffset(s)].sig = "Freed"
      /\ \A c \in Blocks, p \in Offset :
            ~(c = s.block /\ p = HeaderOffset(s)) => chunk'[c][p] = chunk[c][p]
  BY <1>1, <1>2, MarkFreed
<1>4. TypeOK'
  BY <1>1, <1>2, <1>3 DEF Inv, TypeOK, blocks, Data
<1>5. GrowthIsAtItsStep'
  BY <1>2 DEF Inv, GrowthIsAtItsStep, blocks, NoGrowth
<1>6. StaleHaveHeaders'
  BY <1>1, <1>2, <1>3 DEF Inv, StaleHaveHeaders, HeaderOffset, TypeOK, Span
<1> QED BY <1>3, <1>4, <1>5, <1>6 DEF Inv

LEMMA FreeAgainInv == ASSUME Inv, NEW s \in dangling, FreeAgain(s) PROVE Inv'
<1>1. /\ s \in Span /\ s.block \in Blocks /\ HeaderOffset(s) \in Offset
      /\ chunk[s.block][HeaderOffset(s)].sig \in {"Used", "Freed"}
  BY DEF Inv, TypeOK, StaleHaveHeaders, Span
<1>2. /\ chunk' = [chunk EXCEPT ![s.block][HeaderOffset(s)].sig = "Freed"]
      /\ live' = live \ Robbed(s) /\ freed' = freed \cup {s}
      /\ UNCHANGED <<blocks, fileLast, phase, grow, torn>>
      /\ dangling' = (dangling \ {s}) \cup Robbed(s)
      /\ grow = NoGrowth /\ Robbed(s) \subseteq live
  BY DEF FreeAgain, Idle, Robbed
<1>3. /\ chunk' \in [Blocks -> Data]
      /\ Tiling' /\ LiveIsUsed' /\ OnlyHeapBlocksHaveChunks'
      /\ chunk'[s.block][HeaderOffset(s)].sig = "Freed"
      /\ \A c \in Blocks, p \in Offset :
            ~(c = s.block /\ p = HeaderOffset(s)) => chunk'[c][p] = chunk[c][p]
  BY <1>1, <1>2, MarkFreed
<1>4. TypeOK'
  BY <1>1, <1>2, <1>3 DEF Inv, TypeOK, blocks, Data
<1>5. GrowthIsAtItsStep'
  BY <1>2 DEF Inv, GrowthIsAtItsStep, blocks, NoGrowth
<1>6. StaleHaveHeaders'
  <2> SUFFICES ASSUME NEW t \in freed' \cup dangling'
               PROVE  /\ HeaderOffset(t) \in Offset
                      /\ chunk'[t.block][HeaderOffset(t)].sig \in {"Used", "Freed"}
    BY DEF StaleHaveHeaders, HeaderOffset
  <2>1. CASE t = s
    BY <2>1, <1>1, <1>3
  <2>2. CASE t \in Robbed(s)
    BY <2>2, <1>1, <1>3 DEF Robbed
  <2>3. CASE t \in freed \cup dangling
    BY <2>3, <1>1, <1>3 DEF Inv, StaleHaveHeaders, TypeOK, Span
  <2> QED BY <1>2, <2>1, <2>2, <2>3
<1> QED BY <1>3, <1>4, <1>5, <1>6 DEF Inv

\* The steps that leave the blocks as they are.
LEMMA HeaderStepInv ==
  ASSUME Inv, \/ AllocAborts \/ ReadHeader \/ FlushHeader \/ Crash \/ UNCHANGED vars
              \/ \E s \in freed : OwnerWritten(s) \/ RenameFails(s)
  PROVE  Inv'
<1> USE Sizes
<1>0. /\ UNCHANGED <<blockCount, blockType, next, prev, chunk, live>>
      /\ lastTable' \in Blocks /\ lastHeap' \in Blocks
      /\ fileLast' \in [table : Blocks, heap : Blocks] /\ phase' \in Phase
      /\ \/ torn' = torn /\ grow' = grow
         \/ torn' = torn \cup Incomplete /\ grow' = NoGrowth
         \/ torn' = torn /\ grow' = NoGrowth /\ grow.step = "ready"
      /\ freed' \cup dangling' \subseteq freed \cup dangling
  <2>1. CASE AllocAborts
    BY <2>1 DEF AllocAborts, Inv, TypeOK, Phase, blocks, stale
  <2>2. CASE ReadHeader \/ FlushHeader
    BY <2>2 DEF ReadHeader, FlushHeader, Phase, Inv, TypeOK, blocks, stale
  <2>3. CASE Crash
    BY <2>3 DEF Crash, Inv, TypeOK, Phase
  <2>4. CASE UNCHANGED vars
    BY <2>4 DEF vars, Inv, TypeOK, blocks, stale
  <2>5. CASE \E s \in freed : OwnerWritten(s) \/ RenameFails(s)
    BY <2>5 DEF OwnerWritten, RenameFails, Inv, TypeOK, blocks
  <2> QED BY <2>1, <2>2, <2>3, <2>4, <2>5
<1>1. Incomplete \subseteq Blocks /\ \A b \in Incomplete : b <= blockCount
  BY DEF Incomplete, Inv, TypeOK, Blocks
<1>2. NoGrowth \in Growth
  BY DEF NoGrowth, Growth, GrowthStep, BlockType
<1>3. TypeOK'
  BY <1>0, <1>1, <1>2 DEF Inv, TypeOK
<1>4. Unfinished' = Unfinished /\ HeapBlocks' = HeapBlocks
  BY <1>0 DEF Unfinished, Incomplete, NoGrowth, HeapBlocks
<1>5. Tiling' /\ LiveIsUsed' /\ OnlyHeapBlocksHaveChunks'
  BY <1>0, <1>4 DEF Inv, Tiling, LiveIsUsed, OnlyHeapBlocksHaveChunks, HeaderOffset
<1>6. GrowthIsAtItsStep'
  BY <1>0, <1>1 DEF Inv, GrowthIsAtItsStep, NoGrowth
<1>7. StaleHaveHeaders'
  BY <1>0 DEF Inv, StaleHaveHeaders, HeaderOffset
<1> QED BY <1>3, <1>5, <1>6, <1>7 DEF Inv

LEMMA NextInv == Inv /\ [Next]_vars => Inv'
<1> SUFFICES ASSUME Inv, [Next]_vars PROVE Inv'
  OBVIOUS
<1>1. ASSUME NEW n \in RequestSizes, AllocInChain(n) PROVE Inv'
  BY <1>1, AllocInChainInv
<1>2. ASSUME NEW n \in RequestSizes, AllocNewBlock(n) PROVE Inv'
  BY <1>2, AllocNewBlockInv
<1>3. CASE LinkBlock
  BY <1>3, LinkBlockInv
<1>4. CASE TypeBlock
  BY <1>4, TypeBlockInv
<1>5. CASE InitHeapBlock
  BY <1>5, InitHeapBlockInv
<1>6. CASE AllocInNewBlock
  BY <1>6, AllocInNewBlockInv
<1>7. ASSUME NEW s \in live, Free(s) PROVE Inv'
  BY <1>7, FreeInv
<1>8. ASSUME NEW s \in dangling, FreeAgain(s) PROVE Inv'
  BY <1>8, FreeAgainInv
<1>9. CASE AllocTableBlock
  BY <1>9, AllocTableBlockInv
<1>10. CASE \/ AllocAborts \/ ReadHeader \/ FlushHeader \/ Crash \/ UNCHANGED vars
            \/ \E s \in freed : OwnerWritten(s) \/ RenameFails(s)
  BY <1>10, HeaderStepInv
<1> QED BY <1>1, <1>2, <1>3, <1>4, <1>5, <1>6, <1>7, <1>8, <1>9, <1>10 DEF Next

LEMMA InvIsInvariant == Spec => []Inv
<1> QED BY InitInv, NextInv, PTL DEF Spec

(***************************************************************************)
(* Every variable keeps its type; in particular the size of the rest of a  *)
(* split chunk, an unsigned subtraction in HeapBlock::alloc, never wraps.  *)
(***************************************************************************)
THEOREM TypeCorrect == Spec => []TypeOK
<1>1. Inv => TypeOK
  BY DEF Inv
<1> QED BY <1>1, InvIsInvariant, PTL

(***************************************************************************)
(* In every reachable state, between the writes of allocate_block and      *)
(* after a process ended there included: the chunks tile every heap block  *)
(* that was finished, so that the walk of HeapBlock::alloc steps from      *)
(* header to header up to the end edge, and one that was not finished has  *)
(* no header at all.                                                       *)
(***************************************************************************)
THEOREM ChunksTileTheBlocks == Spec => []Tiling
<1>1. Inv => Tiling
  BY DEF Inv
<1> QED BY <1>1, InvIsInvariant, PTL

(***************************************************************************)
(* The used chunks are exactly the spans handed out and not freed, by      *)
(* their owner or by one that freed the chunk before.                      *)
(***************************************************************************)
THEOREM UsedChunksAreLive == Spec => []LiveIsUsed
<1>1. Inv => LiveIsUsed
  BY DEF Inv
<1> QED BY <1>1, InvIsInvariant, PTL

\* Two headers of one tiled data area: the chunk of the first ends before.
LEMMA HeadersApart ==
  ASSUME NEW data \in Data, TiledData(data), NEW o \in Offset, NEW p \in Offset,
         data[o].sig = "Used", data[p].sig = "Used", o < p
  PROVE  o + HeaderSize + data[o].size <= p
<1>1. data[o].size \in Nat
  BY Sizes DEF Data, Chunk
<1>2. ~(p < o + HeaderSize + data[o].size)
  BY DEF TiledData
<1> QED BY <1>1, <1>2, Sizes DEF Offset

LEMMA LiveSpan ==
  ASSUME Inv, NEW s \in live
  PROVE  /\ s \in Span /\ s.block \in Blocks /\ HeaderOffset(s) \in Offset
         /\ chunk[s.block] \in Data /\ TiledData(chunk[s.block])
         /\ chunk[s.block][HeaderOffset(s)].sig = "Used"
         /\ chunk[s.block][HeaderOffset(s)].size = s.size
         /\ s.offset \in Nat /\ s.size \in Nat
<1> USE Sizes
<1>1. /\ s \in Span /\ s.block \in Blocks /\ HeaderOffset(s) \in Offset
      /\ chunk[s.block][HeaderOffset(s)] = [sig |-> "Used", size |-> s.size]
      /\ s.offset \in Nat /\ s.size \in Nat
  BY DEF Inv, TypeOK, LiveIsUsed, Span
<1> QED BY <1>1, HeaderMeansFinished

LEMMA InvNoOverlap == Inv => NoOverlap
<1> USE Sizes
<1> SUFFICES ASSUME Inv PROVE NoOverlap
  OBVIOUS
<1>1. ASSUME NEW s \in live PROVE s.offset + s.size + HeaderSize <= BlockSize
  <2>1. HeaderOffset(s) + HeaderSize + s.size \in Offset
    BY LiveSpan DEF TiledData
  <2> QED BY <2>1, LiveSpan DEF HeaderOffset, Offset
<1>2. ASSUME NEW s \in live, NEW t \in live, s # t, s.block = t.block
      PROVE  \/ s.offset + s.size + HeaderSize <= t.offset
             \/ t.offset + t.size + HeaderSize <= s.offset
  <2> DEFINE data == chunk[s.block]
             h == HeaderOffset(s)
             g == HeaderOffset(t)
  <2>1. /\ s \in Span /\ t \in Span /\ h \in Offset /\ g \in Offset
        /\ data \in Data /\ TiledData(data)
        /\ data[h].sig = "Used" /\ data[h].size = s.size
        /\ data[g].sig = "Used" /\ data[g].size = t.size
        /\ s.offset \in Nat /\ s.size \in Nat /\ t.offset \in Nat /\ t.size \in Nat
    BY <1>2, LiveSpan
  <2>2. h = s.offset - BlockHeaderSize - HeaderSize
        /\ g = t.offset - BlockHeaderSize - HeaderSize
    BY DEF HeaderOffset
  <2> HIDE DEF data, h, g
  <2>3. h # g
    <3>1. h = g => s.size = t.size
      BY <2>1
    <3>2. h = g => s.offset = t.offset
      BY <2>1, <2>2
    <3> QED BY <3>1, <3>2, <2>1, <1>2 DEF Span
  <2>4. CASE h < g
    <3>1. h + HeaderSize + s.size <= g
      BY <2>4, <2>1, HeadersApart
    <3> QED BY <3>1, <2>1, <2>2
  <2>5. CASE g < h
    <3>1. g + HeaderSize + t.size <= h
      BY <2>5, <2>1, HeadersApart
    <3> QED BY <3>1, <2>1, <2>2
  <2> QED BY <2>1, <2>3, <2>4, <2>5 DEF Offset
<1> QED BY <1>1, <1>2 DEF NoOverlap

(***************************************************************************)
(* Two live spans never share a byte, whatever the sequence of inserts,    *)
(* updates, deletes, growth and restarts that produced them.               *)
(***************************************************************************)
THEOREM SpansNeverOverlap == Spec => []NoOverlap
<1> QED BY InvNoOverlap, InvIsInvariant, PTL

(***************************************************************************)
(* A header that a step writes lies outside the data of every span that    *)
(* stays live: it stands at a header or inside a chunk that was available. *)
(***************************************************************************)
LEMMA CarveMissesOthers ==
  ASSUME NEW data \in Data, TiledData(data), NEW n \in Nat,
         NEW o \in Fits(data, n), NEW h \in Offset, data[h].sig = "Used",
         NEW p \in Offset, Carve(data, o, n)[p] # data[p]
  PROVE  p + HeaderSize <= h \/ h + HeaderSize + data[h].size <= p
<1>1. /\ o \in Offset /\ o + HeaderSize + n \in Offset
      /\ data[o].sig \in Available
      /\ n + HeaderSize + HeaderSize <= data[o].size
      /\ \A r \in Offset : r # o /\ r # o + HeaderSize + n =>
            Carve(data, o, n)[r] = data[r]
  <2>1. o \in Offset /\ o + HeaderSize + n \in Offset /\ data[o].sig \in Available
    BY CarveIsTiled
  <2>2. n + HeaderSize + HeaderSize <= data[o].size
    BY CarveIsTiled
  <2>3. ASSUME NEW r \in Offset, r # o, r # o + HeaderSize + n
        PROVE  Carve(data, o, n)[r] = data[r]
    BY <2>1, <2>3 DEF Carve, Data
  <2> QED BY <2>1, <2>2, <2>3
<1> USE Sizes
<1>2. data[o].size \in Nat /\ data[h].size \in Nat
  BY <1>1 DEF Data, Chunk
<1>3. p = o \/ p = o + HeaderSize + n
  BY <1>1
<1>4. CASE h < o
  <2>1. h + HeaderSize + data[h].size <= o
    BY <1>1, <1>2, <1>4 DEF TiledData, Offset, Available
  <2> QED BY <2>1, <1>1, <1>2, <1>3 DEF Offset
<1>5. CASE o < h
  <2>1. o + HeaderSize + data[o].size <= h
    BY <1>1, <1>2, <1>5 DEF TiledData, Offset, Available
  <2> QED BY <2>1, <1>1, <1>2, <1>3 DEF Offset
<1>6. o # h
  BY <1>1 DEF Available
<1> QED BY <1>1, <1>2, <1>4, <1>5, <1>6 DEF Offset

\* A chunk that is marked as freed, and another one that is in use.
LEMMA MarkMissesOthers ==
  ASSUME NEW data \in Data, TiledData(data), NEW h \in Offset, data[h].sig = "Used",
         NEW p \in Offset, data[p].sig \in {"Used", "Freed"}, p # h
  PROVE  p + HeaderSize <= h \/ h + HeaderSize + data[h].size <= p
<1> USE Sizes
<1>1. data[h].size \in Nat /\ data[p].size \in Nat
  BY DEF Data, Chunk
<1>2. CASE h < p
  <2>1. ~(p < h + HeaderSize + data[h].size)
    BY <1>2 DEF TiledData
  <2> QED BY <2>1, <1>1 DEF Offset
<1>3. CASE p < h
  <2>1. ~(h < p + HeaderSize + data[p].size)
    BY <1>3 DEF TiledData
  <2> QED BY <2>1, <1>1 DEF Offset
<1> QED BY <1>2, <1>3 DEF Offset

LEMMA StepMissesLiveData == Inv /\ [Next]_vars => WritesMissLiveData
<1> USE Sizes
<1> SUFFICES ASSUME Inv, [Next]_vars,
                    NEW s \in live, s \in live', NEW p \in Offset,
                    Touched(s.block, p)
             PROVE  \/ p + HeaderSize + BlockHeaderSize <= s.offset - HeaderSize
                    \/ s.offset + s.size <= p + BlockHeaderSize
  BY DEF WritesMissLiveData
<1> DEFINE b == s.block
           h == HeaderOffset(s)
           Apart == p + HeaderSize <= h \/ h + HeaderSize + s.size <= p
<1>1. /\ s \in Span /\ b \in Blocks /\ h \in Offset
      /\ chunk[b][h].sig = "Used" /\ chunk[b][h].size = s.size
      /\ s.offset \in Nat /\ s.size \in Nat
      /\ chunk[b] \in Data /\ TiledData(chunk[b])
  BY LiveSpan
<1>2. chunk \in [Blocks -> Data]
  BY DEF Inv, TypeOK, Data
<1>3. chunk'[b][p] # chunk[b][p]
  BY DEF Touched
<1>4. SUFFICES Apart
  BY <1>1 DEF HeaderOffset, Offset
<1>5. ASSUME NEW c \in Blocks, NEW n \in Nat, NEW o \in Fits(chunk[c], n),
             chunk' = [chunk EXCEPT ![c] = Carve(chunk[c], o, n)]
      PROVE  Apart
  <2>1. c = b
    BY <1>5, <1>1, <1>2, <1>3
  <2>2. Carve(chunk[b], o, n)[p] # chunk[b][p] /\ o \in Fits(chunk[b], n)
    BY <1>5, <2>1, <1>1, <1>2, <1>3
  <2> HIDE DEF h, b
  <2> QED BY <2>2, <1>1, CarveMissesOthers
<1>6. ASSUME NEW t \in Span, HeaderOffset(t) \in Offset,
             chunk[t.block][HeaderOffset(t)].sig \in {"Used", "Freed"},
             chunk' = [chunk EXCEPT ![t.block][HeaderOffset(t)].sig = "Freed"],
             s \notin Robbed(t)
      PROVE  Apart
  <2> DEFINE g == HeaderOffset(t)
  <2>0. t.block \in Blocks
    BY DEF Span
  <2>1. chunk' = [chunk EXCEPT ![t.block] = [chunk[t.block] EXCEPT ![g].sig = "Freed"]]
    BY <1>6
  <2>2. t.block = b
    BY <2>0, <2>1, <1>1, <1>2, <1>3
  <2>3. chunk'[b] = [chunk[b] EXCEPT ![g].sig = "Freed"]
    BY <2>1, <2>2, <1>1, <1>2
  <2>4. g = p
    BY <1>6, <2>3, <1>1, <1>3 DEF Data
  <2>5. g # h
    BY <2>2, <1>6 DEF Robbed
  <2>6. chunk[b][p].sig \in {"Used", "Freed"} /\ p # h
    BY <1>6, <2>2, <2>4, <2>5
  <2> HIDE DEF h, b
  <2> QED BY <2>6, <1>1, MarkMissesOthers
<1>7. ASSUME NEW n \in RequestSizes, AllocInChain(n) PROVE Apart
  <2>1. PICK c \in HeapBlocks, o \in Offset :
          /\ o \in Fits(chunk[c], n)
          /\ chunk' = [chunk EXCEPT ![c] = Carve(chunk[c], o, n)]
    BY <1>7 DEF AllocInChain, FirstFit
  <2> HIDE DEF Apart
  <2> QED BY <2>1, <1>5 DEF HeapBlocks
<1>8. CASE AllocInNewBlock
  <2>1. /\ blockCount \in Blocks /\ grow.size \in Nat
        /\ 0 \in Fits(chunk[blockCount], grow.size)
        /\ chunk' = [chunk EXCEPT ![blockCount] =
                                    Carve(chunk[blockCount], 0, grow.size)]
    <3>1. blockCount \in Blocks /\ grow.size \in Nat
      BY GrowthTypes
    <3>2. grow.step = "ready" /\ chunk[blockCount] = FreshData
      BY <1>8 DEF AllocInNewBlock, Inv, GrowthIsAtItsStep
    <3> QED BY <1>8, <3>1, <3>2 DEF AllocInNewBlock
  <2>2. PICK c \in Blocks, n \in Nat : c = blockCount /\ n = grow.size
    BY <2>1
  <2>3. PICK o \in Fits(chunk[c], n) : o = 0
    BY <2>1, <2>2
  <2>4. chunk' = [chunk EXCEPT ![c] = Carve(chunk[c], o, n)]
    BY <2>1, <2>2, <2>3
  <2> HIDE DEF Apart
  <2> QED BY <2>4, <1>5
<1>9. ASSUME NEW t \in live, Free(t) PROVE Apart
  <2>1. /\ t \in Span /\ HeaderOffset(t) \in Offset
        /\ chunk[t.block][HeaderOffset(t)].sig \in {"Used", "Freed"}
    BY LiveSpan
  <2>2. chunk' = [chunk EXCEPT ![t.block][HeaderOffset(t)].sig = "Freed"]
        /\ s \notin Robbed(t)
    BY <1>9, OwnChunk DEF Free
  <2> HIDE DEF Apart
  <2> QED BY <2>1, <2>2, <1>6
<1>10. ASSUME NEW t \in dangling, FreeAgain(t) PROVE Apart
  <2>1. /\ t \in Span /\ HeaderOffset(t) \in Offset
        /\ chunk[t.block][HeaderOffset(t)].sig \in {"Used", "Freed"}
    BY DEF Inv, TypeOK, StaleHaveHeaders
  <2>2. chunk' = [chunk EXCEPT ![t.block][HeaderOffset(t)].sig = "Freed"]
        /\ s \notin Robbed(t)
    BY <1>10 DEF FreeAgain
  <2> HIDE DEF Apart
  <2> QED BY <2>1, <2>2, <1>6
<1>11. CASE InitHeapBlock
  <2>1. grow.step = "typed" /\ chunk' = [chunk EXCEPT ![blockCount] = FreshData]
    BY <1>11 DEF InitHeapBlock
  <2>2. blockCount \in Unfinished
    BY <2>1 DEF Unfinished, Incomplete
  <2>3. b # blockCount
    BY <2>2, <1>1, NoHeaderIsChunk DEF Inv, Tiling
  <2> QED BY <2>1, <2>3, <1>1, <1>2, <1>3
<1>12. CASE \/ \E n \in RequestSizes : AllocNewBlock(n)
            \/ AllocTableBlock \/ LinkBlock \/ TypeBlock \/ AllocAborts
            \/ ReadHeader \/ FlushHeader \/ Crash \/ UNCHANGED vars
            \/ \E t \in freed : OwnerWritten(t) \/ RenameFails(t)
  <2>1. chunk' = chunk
    BY <1>12 DEF AllocNewBlock, AllocTableBlock, Expand, LinkBlock, TypeBlock,
         AllocAborts, ReadHeader, FlushHeader, Crash, vars, OwnerWritten, RenameFails
  <2> QED BY <2>1, <1>3
<1> QED BY <1>7, <1>8, <1>9, <1>10, <1>11, <1>12 DEF Next

(***************************************************************************)
(* No step ever writes into the data of a span that stays live.            *)
(***************************************************************************)
THEOREM LiveDataStaysStable == Spec => LiveDataIsStable
<1>1. Inv /\ [Next]_vars => [WritesMissLiveData]_vars
  BY StepMissesLiveData
<1> QED BY <1>1, InvIsInvariant, PTL DEF Spec, LiveDataIsStable

-----------------------------------------------------------------------------
(***************************************************************************)
(* The walk of HeapBlock::alloc.  WalkResult says without recursion what   *)
(* the walk from offset o returns in a tiled data area; it satisfies the   *)
(* equation that defines the walk, which therefore has a solution, and by  *)
(* induction from the end edge down no other.                              *)
(***************************************************************************)
FitsFrom(data, n, o) == {p \in Fits(data, n) : o <= p}

WalkResult(data, n, o) ==
  IF o \notin Offset \/ data[o].sig = "Data" THEN Corrupted
  ELSE IF FitsFrom(data, n, o) = {} THEN NoSpace
  ELSE CHOOSE p \in FitsFrom(data, n, o) : \A m \in FitsFrom(data, n, o) : p <= m

\* What HeapBlock::alloc does at offset o, when at[q] is where it gets from q.
WalkStep(data, n, at, o) ==
  IF o \notin Offset \/ data[o].sig = "Data" THEN Corrupted
  ELSE IF data[o].sig \in Available /\ data[o].size >= n + 2 * HeaderSize THEN o
  ELSE IF data[o].sig = "EndEdge" THEN NoSpace
  ELSE at[o + data[o].size + HeaderSize]

LEMMA FirstFitFrom ==
  ASSUME NEW data, NEW n, NEW o \in Offset, FitsFrom(data, n, o) # {}
  PROVE  /\ WalkResult(data, n, o) \in FitsFrom(data, n, o) \/ data[o].sig = "Data"
         /\ data[o].sig # "Data" =>
               \A m \in FitsFrom(data, n, o) : WalkResult(data, n, o) <= m
<1>1. FitsFrom(data, n, o) \subseteq Nat
  BY Sizes DEF FitsFrom, Fits, Offset
<1>2. \E p \in FitsFrom(data, n, o) : \A m \in FitsFrom(data, n, o) : p <= m
  BY <1>1, SmallestIn
<1> QED BY <1>2, Zenon DEF WalkResult

LEMMA WalkResultSteps ==
  ASSUME NEW data \in Data, TiledData(data), NEW n \in Nat,
         NEW at, \A q \in 0..(2 * DataSize) : at[q] = WalkResult(data, n, q),
         NEW o \in 0..(2 * DataSize)
  PROVE  WalkResult(data, n, o) = WalkStep(data, n, at, o)
<1> USE Sizes
<1>1. CASE o \notin Offset \/ data[o].sig = "Data"
  BY <1>1 DEF WalkResult, WalkStep
<1>2. CASE o \in Offset /\ o \in Fits(data, n)
  <2>1. o \in FitsFrom(data, n, o) /\ data[o].sig # "Data"
    BY <1>2 DEF FitsFrom, Fits, Available, Offset
  <2>2. WalkResult(data, n, o) = o
    <3>1. WalkResult(data, n, o) \in FitsFrom(data, n, o) /\ WalkResult(data, n, o) <= o
      BY <1>2, <2>1, FirstFitFrom
    <3> QED BY <3>1, <1>2 DEF FitsFrom, Fits, Offset
  <2> QED BY <1>2, <2>1, <2>2 DEF WalkStep, Fits
<1>3. CASE o \in Offset /\ data[o].sig = "EndEdge"
  <2>1. o = EdgeOffset
    BY <1>3 DEF TiledData
  <2>2. FitsFrom(data, n, o) = {}
    BY <1>3, <2>1 DEF FitsFrom, Fits, Available, Offset
  <2> QED BY <1>3, <2>2 DEF WalkResult, WalkStep, Available
<1>4. CASE o \in Offset /\ o \notin Fits(data, n) /\ data[o].sig \notin {"Data", "EndEdge"}
  <2> DEFINE q == o + HeaderSize + data[o].size
  <2>1. data[o].size \in Nat
    BY <1>4 DEF Data, Chunk
  <2>2. /\ q \in Offset /\ data[q].sig # "Data"
        /\ \A p \in Offset : o < p /\ p < q => data[p].sig = "Data"
    BY <1>4 DEF TiledData
  <2>3. q \in 0..(2 * DataSize) /\ o < q /\ q = o + data[o].size + HeaderSize
    BY <1>4, <2>1, <2>2 DEF Offset
  <2>4. FitsFrom(data, n, o) = FitsFrom(data, n, q)
    <3>1. ASSUME NEW p \in Fits(data, n), o <= p
          PROVE  q <= p
      <4>1. p \in Offset /\ data[p].sig # "Data" /\ p # o
        BY <1>4 DEF Fits, Available
      <4> QED BY <1>4, <2>2, <3>1, <4>1 DEF Offset
    <3>2. \A p \in Fits(data, n) : q <= p => o <= p
      BY <1>4, <2>3 DEF Fits, Offset
    <3> QED BY <3>1, <3>2 DEF FitsFrom
  <2> HIDE DEF q
  <2>5. WalkResult(data, n, o) = WalkResult(data, n, q)
    BY <1>4, <2>2, <2>4 DEF WalkResult
  <2>6. WalkStep(data, n, at, o) = at[q]
    BY <1>4, <2>3 DEF WalkStep, Fits
  <2> QED BY <2>3, <2>5, <2>6
<1> QED BY <1>1, <1>2, <1>3, <1>4

LEMMA WalkIsWalkResult ==
  ASSUME NEW data \in Data, TiledData(data), NEW n \in Nat
  PROVE  Walk(data, n) = WalkResult(data, n, 0)
<1> DEFINE D == 0..(2 * DataSize)
           Is(at) == at = [o \in D |-> WalkStep(data, n, at, o)]
           G == [o \in D |-> WalkResult(data, n, o)]
           A == CHOOSE at : Is(at)
<1> USE Sizes
<1>1. Is(G)
  <2>1. \A q \in D : G[q] = WalkResult(data, n, q)
    OBVIOUS
  <2> HIDE DEF G
  <2>2. \A o \in D : WalkResult(data, n, o) = WalkStep(data, n, G, o)
    BY <2>1, WalkResultSteps
  <2> QED BY <2>2 DEF G
<1>2. Is(A)
  <2> HIDE DEF Is
  <2> QED BY <1>1, Zenon
<1>3. Walk(data, n) = A[0]
  BY DEF Walk, WalkStep
<1> HIDE DEF A
<1>4. \A o \in D : A[o] = WalkStep(data, n, A, o)
  BY <1>2
<1>5. \A o \in D : G[o] = WalkStep(data, n, G, o)
  BY <1>1
<1> HIDE DEF G
<1> DEFINE S == {o \in 0..EdgeOffset : \A p \in o..EdgeOffset : A[p] = G[p]}
<1>6. EdgeOffset \in 0..EdgeOffset /\ 0..EdgeOffset \subseteq D
  OBVIOUS
<1>7. ASSUME NEW o \in Offset, \A p \in Offset : p > o => A[p] = G[p]
      PROVE  A[o] = G[o]
  <2>1. A[o] = WalkStep(data, n, A, o) /\ G[o] = WalkStep(data, n, G, o)
    BY <1>4, <1>5, <1>6 DEF Offset
  <2>2. CASE data[o].sig \in {"Data", "EndEdge"}
    BY <2>1, <2>2 DEF WalkStep, Available
  <2>3. CASE data[o].sig \notin {"Data", "EndEdge"}
    <3>1. data[o].size \in Nat /\ o + HeaderSize + data[o].size \in Offset
      BY <2>3 DEF TiledData, Data, Chunk
    <3>2. /\ o + data[o].size + HeaderSize \in Offset
          /\ o + data[o].size + HeaderSize > o
      BY <3>1 DEF Offset
    <3>3. A[o + data[o].size + HeaderSize] = G[o + data[o].size + HeaderSize]
      BY <1>7, <3>2
    <3> QED BY <2>1, <3>3 DEF WalkStep
  <2> QED BY <2>2, <2>3
<1>8. EdgeOffset \in S
  <2>1. A[EdgeOffset] = G[EdgeOffset]
    BY <1>7 DEF Offset
  <2> QED BY <2>1
<1>9. ASSUME NEW o \in 0..EdgeOffset, o \in S, o > 0 PROVE o - 1 \in S
  <2>1. A[o - 1] = G[o - 1]
    BY <1>7, <1>9 DEF Offset
  <2> QED BY <1>9, <2>1
<1>10. 0..EdgeOffset \subseteq S
  <2> HIDE DEF S
  <2> QED BY <1>8, <1>9, DownwardInduction
<1>11. A[0] = G[0]
  BY <1>10
<1> QED BY <1>3, <1>11 DEF G

LEMMA TiledWalk ==
  ASSUME NEW data \in Data, TiledData(data), NEW n \in Nat
  PROVE  IF Fits(data, n) = {} THEN Walk(data, n) = NoSpace
         ELSE FirstFit(data, n, Walk(data, n))
<1> USE Sizes
<1>1. 0 \in Offset /\ data[0].sig # "Data"
  BY DEF TiledData, Offset
<1>2. FitsFrom(data, n, 0) = Fits(data, n)
  BY DEF FitsFrom, Fits, Offset
<1>3. Walk(data, n) = WalkResult(data, n, 0)
  BY WalkIsWalkResult
<1>4. CASE Fits(data, n) = {}
  BY <1>1, <1>2, <1>3, <1>4 DEF WalkResult
<1>5. CASE Fits(data, n) # {}
  BY <1>1, <1>2, <1>3, <1>5, FirstFitFrom DEF FirstFit
<1> QED BY <1>4, <1>5

\* A data area of zeros: the walk ends at its first header with an error.
LEMMA BlankWalk ==
  ASSUME NEW data \in Data, \A o \in Offset : data[o].sig = "Data", NEW n \in Nat
  PROVE  Walk(data, n) = Corrupted
<1> DEFINE D == 0..(2 * DataSize)
           Is(at) == at = [o \in D |-> WalkStep(data, n, at, o)]
           G == [o \in D |-> Corrupted]
           A == CHOOSE at : Is(at)
<1> USE Sizes
<1>1. \A at, o : WalkStep(data, n, at, o) = Corrupted
  BY DEF WalkStep
<1>2. Is(G)
  BY <1>1
<1>3. Is(A)
  <2> HIDE DEF Is
  <2> QED BY <1>2, Zenon
<1>4. Walk(data, n) = A[0]
  BY DEF Walk, WalkStep
<1> HIDE DEF A
<1>5. A[0] = WalkStep(data, n, A, 0)
  <2>1. 0 \in D
    OBVIOUS
  <2> HIDE DEF D
  <2> QED BY <2>1, <1>3
<1> QED BY <1>1, <1>4, <1>5

-----------------------------------------------------------------------------
(***************************************************************************)
(* The links between blocks.  LinksAgree alone is not inductive: what      *)
(* allocate_block links the new block to must be a finished block of its   *)
(* kind, and that may be an old one: the header that a restart reads back  *)
(* can name a block that is not the last any more, whose next_block is     *)
(* overwritten (LastsAreFinished).  And while a block is being allocated   *)
(* only the last of its kind links to it (GrowthIsLinked).                 *)
(***************************************************************************)
LastsAreFinished ==
  /\ blockType[1] = "Table" /\ blockType[2] = "Heap"
  /\ blockType[lastTable] = "Table" /\ blockType[lastHeap] = "Heap"
  /\ blockType[fileLast.table] = "Table" /\ blockType[fileLast.heap] = "Heap"
  /\ \A b \in {1, 2, lastTable, lastHeap, fileLast.table, fileLast.heap} : b \notin torn
  /\ grow.step # "idle" =>
        blockCount \notin {1, 2, fileLast.table, fileLast.heap}

GrowthIsLinked ==
  /\ \A b \in Blocks : b > blockCount => next[b] = 0
  /\ grow.step = "expanded" => \A b \in Blocks : next[b] # blockCount
  /\ grow.step = "linked" =>
        \A b \in Blocks : next[b] = blockCount => b = Last(grow.type)
  /\ grow.step = "typed" =>
        \A b \in Blocks : next[b] = blockCount =>
           prev[blockCount] = b /\ blockType[b] = "Heap"

LinkInv == Inv /\ LinksAgree /\ LastsAreFinished /\ GrowthIsLinked

LEMMA LinkInvAtStart == Init => LinkInv
BY InitInv, Sizes DEF LinkInv, Init, LinksAgree, LastsAreFinished, GrowthIsLinked, NoGrowth

\* What is known of the blocks in any state.
LEMMA BlocksAre ==
  ASSUME LinkInv
  PROVE  /\ blockCount \in Nat /\ blockCount \in Blocks
         /\ blockType \in [Blocks -> BlockType]
         /\ next \in [Blocks -> Blocks \cup {0}] /\ prev \in [Blocks -> Blocks \cup {0}]
         /\ lastTable \in Blocks /\ lastHeap \in Blocks
         /\ fileLast.table \in Blocks /\ fileLast.heap \in Blocks
         /\ grow \in Growth
         /\ \A b \in Blocks : b > blockCount => next[b] = 0 /\ blockType[b] = "None"
         /\ \A b \in torn : b <= blockCount
         /\ \A b \in Blocks : next[b] # 0 =>
               /\ next[b] \in Blocks /\ next[b] > b /\ next[b] <= blockCount
               /\ b \notin Unfinished
               /\ next[b] \notin Unfinished =>
                     prev[next[b]] = b /\ blockType[next[b]] = blockType[b]
BY Sizes DEF LinkInv, Inv, TypeOK, OnlyHeapBlocksHaveChunks, GrowthIsAtItsStep,
             GrowthIsLinked, LinksAgree, Blocks

LEMMA ExpandLinks ==
  ASSUME LinkInv, NEW type \in {"Table", "Heap"}, NEW n \in RequestSizes \cup {0},
         Expand(type, n)
  PROVE  LinksAgree' /\ LastsAreFinished' /\ GrowthIsLinked'
<1> USE Sizes
<1> DEFINE new == blockCount + 1
<1>1. /\ new \in Blocks /\ blockCount' = new /\ grow = NoGrowth
      /\ blockType' = [blockType EXCEPT ![new] = "Free"] /\ blockType[new] = "None"
      /\ grow'.step = "expanded"
      /\ UNCHANGED <<next, prev, lastTable, lastHeap, fileLast, torn>>
  BY BlocksAre DEF Expand, Idle, Blocks
<1>2. \A b \in Blocks : b # new => blockType'[b] = blockType[b]
  BY <1>1, BlocksAre
<1>3. Unfinished = torn /\ Unfinished' = torn \cup {new}
  BY <1>1 DEF Unfinished, Incomplete, NoGrowth
<1>4. \A b \in Blocks : next[b] # 0 => next[b] # new /\ b # new
  BY <1>1, BlocksAre DEF Blocks
<1>5. LinksAgree'
  <2> SUFFICES ASSUME NEW b \in Blocks, next[b] # 0
               PROVE  /\ next[b] > b /\ next[b] <= new /\ b \notin Unfinished'
                      /\ next[b] \notin Unfinished' =>
                            /\ prev[next[b]] = b
                            /\ blockType'[next[b]] = blockType'[b]
    BY <1>1 DEF LinksAgree
  <2> QED BY <1>1, <1>2, <1>3, <1>4, BlocksAre DEF Blocks
<1>6. \A b \in {1, 2, lastTable, lastHeap, fileLast.table, fileLast.heap} :
         b \in Blocks /\ b # new
  BY <1>1, BlocksAre DEF LinkInv, LastsAreFinished
<1>7. LastsAreFinished'
  BY <1>1, <1>2, <1>6 DEF LinkInv, LastsAreFinished
<1>8. GrowthIsLinked'
  BY <1>1, <1>4, BlocksAre DEF LinkInv, GrowthIsLinked, Blocks
<1> QED BY <1>5, <1>7, <1>8

LEMMA LinkBlockLinks ==
  ASSUME LinkInv, LinkBlock PROVE LinksAgree' /\ LastsAreFinished' /\ GrowthIsLinked'
<1> USE Sizes
<1> DEFINE new == blockCount
           last == Last(grow.type)
<1>1. /\ grow.step = "expanded" /\ grow'.step = "linked" /\ grow'.type = grow.type
      /\ new \in Blocks /\ last \in Blocks /\ new \notin torn
      /\ blockType[new] = "Free" /\ blockType[last] # "Free" /\ blockType[last] # "None"
      /\ last \notin torn /\ last # new
      /\ next' = [next EXCEPT ![last] = new]
      /\ UNCHANGED <<blockCount, blockType, prev, lastTable, lastHeap, fileLast, torn>>
  BY BlocksAre DEF LinkBlock, LinkInv, Inv, GrowthIsAtItsStep, LastsAreFinished,
                   Last, Growth
<1>2. Unfinished = torn \cup {new} /\ Unfinished' = torn \cup {new}
  BY <1>1 DEF Unfinished, Incomplete
<1>3. /\ next'[last] = new /\ \A b \in Blocks : b # last => next'[b] = next[b]
  BY <1>1, BlocksAre
<1>4. last < new /\ last \notin Unfinished
  BY <1>1, <1>2, BlocksAre DEF Blocks
<1>5. LinksAgree'
  <2> SUFFICES ASSUME NEW b \in Blocks, next'[b] # 0
               PROVE  /\ next'[b] > b /\ next'[b] <= new /\ b \notin Unfinished
                      /\ next'[b] \notin Unfinished =>
                            /\ prev[next'[b]] = b
                            /\ blockType[next'[b]] = blockType[b]
    BY <1>1, <1>2 DEF LinksAgree
  <2>1. CASE b = last
    BY <2>1, <1>1, <1>2, <1>3, <1>4, BlocksAre DEF Blocks
  <2>2. CASE b # last
    BY <2>2, <1>3, BlocksAre
  <2> QED BY <2>1, <2>2
<1>6. LastsAreFinished'
  BY <1>1 DEF LinkInv, LastsAreFinished
<1>7. GrowthIsLinked'
  <2>1. \A b \in Blocks : b > new => next'[b] = 0
    BY <1>1, <1>3, <1>4, BlocksAre DEF Blocks
  <2>2. \A b \in Blocks : next'[b] = new => b = last
    BY <1>1, <1>3 DEF LinkInv, GrowthIsLinked
  <2>3. Last(grow.type)' = last
    BY <1>1 DEF Last
  <2> QED BY <1>1, <2>1, <2>2, <2>3 DEF GrowthIsLinked, Last
<1> QED BY <1>5, <1>6, <1>7

LEMMA TypeBlockLinks ==
  ASSUME LinkInv, TypeBlock PROVE LinksAgree' /\ LastsAreFinished' /\ GrowthIsLinked'
<1> USE Sizes
<1> DEFINE new == blockCount
           last == Last(grow.type)
<1>1. /\ grow.step = "linked" /\ grow.type \in {"Table", "Heap"}
      /\ new \in Blocks /\ new \notin torn /\ blockType[new] = "Free"
      /\ last \in Blocks /\ blockType[last] = grow.type
      /\ blockType' = [blockType EXCEPT ![new] = grow.type]
      /\ prev' = [prev EXCEPT ![new] = last]
      /\ UNCHANGED <<blockCount, next, fileLast, torn>>
  BY BlocksAre DEF TypeBlock, LinkInv, Inv, GrowthIsAtItsStep, LastsAreFinished, Last
<1>2. /\ blockType'[new] = grow.type /\ prev'[new] = last
      /\ \A b \in Blocks : b # new => blockType'[b] = blockType[b] /\ prev'[b] = prev[b]
  BY <1>1, BlocksAre
<1>3. Unfinished = torn \cup {new} /\ Unfinished' \subseteq Unfinished
      /\ torn \subseteq Unfinished'
  BY <1>1 DEF Unfinished, Incomplete, NoGrowth
<1>4. \A b \in Blocks : next[b] = new => b = last
  BY <1>1 DEF LinkInv, GrowthIsLinked
<1>5. LinksAgree'
  <2> SUFFICES ASSUME NEW b \in Blocks, next[b] # 0
               PROVE  /\ next[b] > b /\ next[b] <= new /\ b \notin Unfinished'
                      /\ next[b] \notin Unfinished' =>
                            /\ prev'[next[b]] = b
                            /\ blockType'[next[b]] = blockType'[b]
    BY <1>1 DEF LinksAgree
  <2>1. /\ next[b] > b /\ next[b] <= new /\ b \notin Unfinished /\ b # new
    BY <1>3, BlocksAre
  <2>2. CASE next[b] = new
    BY <2>1, <2>2, <1>1, <1>2, <1>3, <1>4
  <2>3. CASE next[b] # new
    <3>1. next[b] \notin torn =>
            prev[next[b]] = b /\ blockType[next[b]] = blockType[b]
      BY <2>3, <1>3, BlocksAre
    <3> QED BY <3>1, <2>1, <2>3, <1>2, <1>3, BlocksAre
  <2> QED BY <2>2, <2>3
<1>6. LastsAreFinished'
  <2>1. \A b \in {1, 2, fileLast.table, fileLast.heap} : b \in Blocks /\ b # new
    BY <1>1, BlocksAre DEF LinkInv, LastsAreFinished
  <2>2. lastTable # new /\ lastHeap # new
    BY <1>1 DEF LinkInv, LastsAreFinished
  <2>3. CASE grow.type = "Table"
    BY <2>1, <2>2, <2>3, <1>1, <1>2, BlocksAre
       DEF TypeBlock, LinkInv, LastsAreFinished, NoGrowth
  <2>4. CASE grow.type = "Heap"
    BY <2>1, <2>2, <2>4, <1>1, <1>2, BlocksAre DEF TypeBlock, LinkInv, LastsAreFinished
  <2> QED BY <1>1, <2>3, <2>4
<1>7. GrowthIsLinked'
  <2>1. \A b \in Blocks : b > new => next[b] = 0
    BY BlocksAre
  <2>2. CASE grow.type = "Table"
    BY <2>1, <2>2, <1>1 DEF TypeBlock, GrowthIsLinked, NoGrowth
  <2>3. CASE grow.type = "Heap"
    <3>1. grow'.step = "typed"
      BY <2>3, <1>1, BlocksAre DEF TypeBlock, Growth
    <3>2. \A b \in Blocks : next[b] = new => prev'[new] = b /\ blockType'[b] = "Heap"
      BY <2>3, <1>1, <1>2, <1>4
    <3> QED BY <2>1, <3>1, <3>2, <1>1 DEF GrowthIsLinked
  <2> QED BY <1>1, <2>2, <2>3
<1> QED BY <1>5, <1>6, <1>7

\* InitHeapBlock makes the new block a finished one that its links agree with.
LEMMA InitHeapBlockLinks ==
  ASSUME LinkInv, InitHeapBlock PROVE LinksAgree' /\ LastsAreFinished' /\ GrowthIsLinked'
<1> USE Sizes
<1> DEFINE new == blockCount
<1>1. /\ grow.step = "typed" /\ grow'.step = "ready"
      /\ blockType[new] = "Heap" /\ new \notin torn
      /\ UNCHANGED <<blockCount, blockType, next, prev, lastTable, lastHeap>>
      /\ UNCHANGED <<fileLast, torn>>
  BY BlocksAre DEF InitHeapBlock, LinkInv, Inv, GrowthIsAtItsStep, blocks, Growth
<1>2. Unfinished = torn \cup {new} /\ Unfinished' = torn
  BY <1>1 DEF Unfinished, Incomplete
<1>3. \A b \in Blocks : next[b] = new => prev[new] = b /\ blockType[b] = "Heap"
  BY <1>1 DEF LinkInv, GrowthIsLinked
<1>4. LinksAgree'
  <2> SUFFICES ASSUME NEW b \in Blocks, next[b] # 0
               PROVE  /\ next[b] > b /\ next[b] <= new /\ b \notin torn
                      /\ next[b] \notin torn =>
                            prev[next[b]] = b /\ blockType[next[b]] = blockType[b]
    BY <1>1, <1>2 DEF LinksAgree
  <2> QED BY <1>1, <1>2, <1>3, BlocksAre
<1>5. LastsAreFinished' /\ GrowthIsLinked'
  BY <1>1 DEF LinkInv, LastsAreFinished, GrowthIsLinked
<1> QED BY <1>4, <1>5

\* The steps that change no link, and leave as unfinished what was.
LEMMA HeaderStepLinks ==
  ASSUME LinkInv,
         \/ \E n \in RequestSizes : AllocInChain(n)
         \/ \E s \in live : Free(s)
         \/ \E s \in dangling : FreeAgain(s)
         \/ \E s \in freed : OwnerWritten(s) \/ RenameFails(s)
         \/ AllocInNewBlock \/ AllocAborts
         \/ ReadHeader \/ FlushHeader \/ Crash \/ UNCHANGED vars
  PROVE  LinksAgree' /\ LastsAreFinished' /\ GrowthIsLinked'
<1>1. /\ UNCHANGED <<blockCount, blockType, next, prev>>
      /\ \/ /\ UNCHANGED <<grow, torn, fileLast, lastTable, lastHeap>>
         \/ /\ grow = NoGrowth /\ UNCHANGED <<grow, torn>>
            /\ lastTable' \in {1, lastTable} /\ lastHeap' \in {2, lastHeap}
            /\ \/ fileLast' = [table |-> 1, heap |-> 2]
               \/ fileLast' = [table |-> lastTable, heap |-> lastHeap]
         \/ /\ grow.step = "ready" /\ grow' = NoGrowth
            /\ UNCHANGED <<torn, fileLast, lastTable, lastHeap>>
         \/ /\ grow' = NoGrowth /\ torn' = torn \cup Incomplete /\ fileLast' = fileLast
            /\ lastTable' = fileLast.table /\ lastHeap' = fileLast.heap
  <2>1. CASE \E n \in RequestSizes : AllocInChain(n)
    BY <2>1 DEF AllocInChain, blocks
  <2>2. CASE \/ \E s \in live : Free(s)
             \/ \E s \in dangling : FreeAgain(s)
             \/ \E s \in freed : OwnerWritten(s) \/ RenameFails(s)
    BY <2>2 DEF Free, FreeAgain, OwnerWritten, RenameFails, blocks
  <2>3. CASE AllocInNewBlock \/ AllocAborts
    BY <2>3 DEF AllocInNewBlock, AllocAborts, blocks
  <2>4. CASE ReadHeader
    BY <2>4 DEF ReadHeader, Idle
  <2>5. CASE FlushHeader
    BY <2>5 DEF FlushHeader, Idle, blocks
  <2>6. CASE Crash
    BY <2>6 DEF Crash
  <2>7. CASE UNCHANGED vars
    BY <2>7 DEF vars, blocks
  <2> QED BY <2>1, <2>2, <2>3, <2>4, <2>5, <2>6, <2>7
<1>2. Unfinished' = Unfinished
  BY <1>1 DEF Unfinished, Incomplete, NoGrowth
<1>3. LinksAgree'
  BY <1>1, <1>2 DEF LinkInv, LinksAgree
<1>4. LastsAreFinished'
  <2>1. \A b \in Incomplete : b = blockCount /\ grow.step # "idle"
    BY DEF Incomplete
  <2> QED BY <1>1, <2>1 DEF LinkInv, LastsAreFinished, NoGrowth
<1>5. GrowthIsLinked'
  BY <1>1 DEF LinkInv, GrowthIsLinked, NoGrowth, Last
<1> QED BY <1>3, <1>4, <1>5

LEMMA LinkInvStep == LinkInv /\ [Next]_vars => LinkInv'
<1>. SUFFICES ASSUME LinkInv, [Next]_vars PROVE LinkInv'
  OBVIOUS
<1>0. Inv'
  BY NextInv DEF LinkInv
<1>1. CASE AllocTableBlock \/ \E n \in RequestSizes : AllocNewBlock(n)
  BY <1>0, <1>1, ExpandLinks DEF AllocTableBlock, AllocNewBlock, LinkInv
<1>2. CASE LinkBlock
  BY <1>0, <1>2, LinkBlockLinks DEF LinkInv
<1>3. CASE TypeBlock
  BY <1>0, <1>3, TypeBlockLinks DEF LinkInv
<1>4. CASE InitHeapBlock
  BY <1>0, <1>4, InitHeapBlockLinks DEF LinkInv
<1>5. CASE \/ \E n \in RequestSizes : AllocInChain(n)
           \/ \E s \in live : Free(s)
           \/ \E s \in dangling : FreeAgain(s)
           \/ \E s \in freed : OwnerWritten(s) \/ RenameFails(s)
           \/ AllocInNewBlock \/ AllocAborts
           \/ ReadHeader \/ FlushHeader \/ Crash \/ UNCHANGED vars
  BY <1>0, <1>5, HeaderStepLinks DEF LinkInv
<1> QED BY <1>1, <1>2, <1>3, <1>4, <1>5 DEF Next

(***************************************************************************)
(* In every reachable state, between the writes of allocate_block and      *)
(* after a process ended there included: the walk of HeapBlock::alloc over *)
(* a finished heap block meets no corruption and stops at the first chunk  *)
(* with room, over an unfinished one it ends with an error at once; and    *)
(* the links from block to block go forward through blocks of one kind, up *)
(* to an unfinished block at most, so that the walk of Heap::alloc ends.   *)
(***************************************************************************)
THEOREM BlocksAreWalkable == Spec => []BlocksCanBeWalked
<1>1. Spec => []LinkInv
  BY LinkInvAtStart, LinkInvStep, PTL DEF Spec
<1>2. LinkInv => BlocksCanBeWalked
  <2>. SUFFICES ASSUME LinkInv PROVE WalkFindsFirstFit /\ LinksAgree
    BY DEF BlocksCanBeWalked
  <2>1. ASSUME NEW b \in HeapBlocks, NEW n \in RequestSizes
        PROVE  IF b \in Unfinished THEN Walk(chunk[b], n) = Corrupted
               ELSE IF Fits(chunk[b], n) = {} THEN Walk(chunk[b], n) = NoSpace
               ELSE FirstFit(chunk[b], n, Walk(chunk[b], n))
    <3>1. chunk[b] \in Data /\ n \in Nat
      BY Sizes DEF LinkInv, Inv, TypeOK, Data, HeapBlocks
    <3>2. CASE b \in Unfinished
      <4>1. \A o \in Offset : chunk[b][o].sig = "Data"
        BY <3>2, NoHeaderIsChunk DEF LinkInv, Inv, Tiling
      <4> QED BY <3>1, <3>2, <4>1, BlankWalk
    <3>3. CASE b \notin Unfinished
      <4>1. TiledData(chunk[b])
        BY <3>3 DEF LinkInv, Inv, Tiling
      <4> QED BY <3>1, <3>3, <4>1, TiledWalk
    <3> QED BY <3>2, <3>3
  <2> QED BY <2>1 DEF WalkFindsFirstFit, LinkInv
<1> QED BY <1>1, <1>2, PTL
=============================================================================
