------------------------------ MODULE EDBTable ------------------------------
(***************************************************************************)
(* The rows of one .edb table file: EDBFile::insert and EDBFile::remove    *)
(* (db/storage/edb/EDBFile.cpp), the row iterator and its references       *)
(* (db/storage/edb/EDBRelationIterator.cpp), and the loops of DELETE and   *)
(* UPDATE that drive them (db/sql/ast/Statement.cpp).                      *)
(*                                                                         *)
(* A table block is an array of row slots; the used slots are linked from  *)
(* the header's first_row_ptr.  One action is one write that reaches the   *)
(* file (but see NewBlock): a crash can fall between any two.  Blocks are  *)
(* mapped MAP_SHARED and survive the process; m_header is a copy in memory *)
(* that flush_header writes to the file in one piece.                      *)
(*                                                                         *)
(* The heap is EDBHeap's business: here a row's heap data is only live or  *)
(* freed (stale), and the heap may take a block of the file.  Loss of      *)
(* power, where mapped pages may reach the disk in any order, is not       *)
(* modelled.                                                               *)
(***************************************************************************)
EXTENDS Integers, Sequences, FiniteSets

CONSTANTS
  Rows,          \* the values a row can have
  RowsPerBlock,  \* row slots in a block: 255 in the code
  MaxBlocks,     \* bound: blocks in the file
  MaxCrashes,    \* bound: crashes in a behaviour
  CountMod,      \* row_count is kept modulo this: 2^64 in the code
  BlockCountMod, \* rows_in_block is kept modulo this: 256 in the code
  HeapGrowsIn,   \* bound: the operations that may need a new heap block
  HeapZeroes     \* slots whose is_used byte may read 0 inside a heap block

ASSUME TableAssumption ==
  /\ RowsPerBlock \in Nat \ {0}
  /\ MaxBlocks \in Nat /\ MaxBlocks >= 2
  /\ MaxCrashes \in Nat
  /\ CountMod \in Nat \ {0}
  /\ BlockCountMod \in Nat /\ BlockCountMod > RowsPerBlock
  /\ HeapGrowsIn \subseteq {"insert", "update"}
  /\ HeapZeroes \subseteq 1..RowsPerBlock
  /\ Rows # {}

Blocks == 1..MaxBlocks
Slots == Blocks \X (1..RowsPerBlock)
Null == <<0, 0>>                              \* HeapPtr::is_null
Pointers == Slots \cup {Null}
Header == [first : Pointers, last : Pointers, count : 0..(CountMod - 1)]

VARIABLES
  blockCount,   \* blocks in the file
  blockType,    \* Block::type
  rowsInBlock,  \* TableBlock::rows_in_block
  used,         \* RowSpec::is_used
  next,         \* RowSpec::next_row
  row,          \* RowSpec::row
  stale,        \* slots whose row bytes name heap data that was freed
  disk,         \* the header in the file
  hdr,          \* EDBFile::m_header
  at,           \* where the running operation is
  job,          \* the running operation
  slot,         \* the row it works on
  slotPrev,     \* EDBRowReference::m_prev_row_ptr
  cur, prev,    \* EDBRelationIteratorImpl::m_row_ptr and m_prev_row_ptr
  ref,          \* UPDATE: the reference the loop holds
  crashes

file == <<blockCount, blockType, rowsInBlock, used, next, row, stale, disk>>
rowFields == <<used, next, row, stale>>
blockFields == <<blockCount, blockType>>
iterator == <<cur, prev, ref>>
vars == <<file, hdr, at, job, slot, slotPrev, iterator, crashes>>

NoJob == [kind |-> "none"]

Init ==
  /\ blockCount = 2
  /\ blockType = [b \in Blocks |-> IF b = 1 THEN "Table"
                                   ELSE IF b = 2 THEN "Heap" ELSE "None"]
  /\ rowsInBlock = [b \in Blocks |-> 0]
  /\ used = [s \in Slots |-> FALSE]
  /\ next = [s \in Slots |-> Null]
  /\ row = [s \in Slots |-> CHOOSE r \in Rows : TRUE]
  /\ stale = {}
  /\ hdr = [first |-> Null, last |-> Null, count |-> 0]
  /\ disk = hdr
  /\ at = "idle" /\ job = NoJob
  /\ slot = Null /\ slotPrev = Null
  /\ cur = Null /\ prev = Null /\ ref = Null
  /\ crashes = 0

(***************************************************************************)
(* The slots an iterator meets from pointer p on: the n-th pointer it      *)
(* follows, whether it meets the end, and the rows before the end.         *)
(***************************************************************************)
MaxSteps == MaxBlocks * RowsPerBlock
Follow(p) ==
  LET pos[n \in 0..MaxSteps] ==
        IF n = 0 THEN p
        ELSE IF pos[n - 1] = Null THEN Null ELSE next[pos[n - 1]]
  IN pos
Steps(p) == {n \in 0..MaxSteps : Follow(p)[n] # Null}
ChainSet(p) == LET pos == Follow(p)
               IN {s \in Slots : \E n \in 0..MaxSteps : pos[n] = s}
Ends(p) == Follow(p)[MaxSteps] = Null
Chain == LET pos == Follow(hdr.first)
         IN [i \in 1..Cardinality(Steps(hdr.first)) |-> pos[i - 1]]

(***************************************************************************)
(* EDBFile::allocate_block, as far as rows are concerned: one step, for a  *)
(* table block that a crash cuts short is a block of free slots as well.   *)
(* (A heap block cut short is left out; its writes are in EDBHeap.)        *)
(***************************************************************************)
NewBlock(type) ==
  /\ blockCount < MaxBlocks
  /\ blockCount' = blockCount + 1
  /\ blockType' = [blockType EXCEPT ![blockCount + 1] = type]

HeapGrows(operation) == operation \in HeapGrowsIn /\ NewBlock("Heap")

(***************************************************************************)
(* EDBFile::insert, steps 1 and 2: the place of the new row.  The scan     *)
(* takes the slots of all blocks in file order, whatever the block's type; *)
(* zero holds the slots of heap blocks whose is_used byte happens to be 0. *)
(***************************************************************************)
Precedes(s, t) == s[1] < t[1] \/ (s[1] = t[1] /\ s[2] <= t[2])

EverySlot(zero) == {s \in Slots : s[1] <= blockCount}   \* is_used not read

LooksFree(zero) ==
  {s \in Slots : /\ s[1] <= blockCount
                 /\ ~used[s]
                 /\ blockType[s[1]] = "Table" \/ s \in zero}

PlaceBeyondFile(zero) ==                     \* scan one block too far
  \/ /\ hdr.last = Null
     /\ slot' = <<1, 1>>
     /\ UNCHANGED blockFields
  \/ /\ hdr.last # Null /\ LooksFree(zero) # {}
     /\ slot' \in LooksFree(zero)
     /\ \A s \in LooksFree(zero) : Precedes(slot', s)
     /\ UNCHANGED blockFields
  \/ /\ hdr.last # Null /\ LooksFree(zero) = {}
     /\ slot' = <<blockCount + 1, 1>>
     /\ UNCHANGED blockFields

PlaceFor(zero) ==
  \/ /\ hdr.last = Null
     /\ slot' = <<1, 1>>
     /\ UNCHANGED blockFields
  \/ /\ hdr.last # Null /\ LooksFree(zero) # {}
     /\ slot' \in LooksFree(zero)
     /\ \A s \in LooksFree(zero) : Precedes(slot', s)
     /\ UNCHANGED blockFields
  \/ /\ hdr.last # Null /\ LooksFree(zero) = {}
     /\ NewBlock("Table")
     /\ slot' = <<blockCount + 1, 1>>

StartInsert(r, zero) ==
  /\ at = "idle"
  /\ PlaceFor(zero)
  /\ job' = [kind |-> "insert", row |-> r]
  /\ at' = "write"
  /\ UNCHANGED <<rowsInBlock, rowFields, disk, hdr, slotPrev, iterator, crashes>>

\* Step 3.  Serializer::write_row allocates the row's strings first, and may
\* fail there; the whole row is then copied into its slot.
InsertKeepsNext ==                           \* next_row not reset
  /\ at = "write"
  /\ UNCHANGED blockFields \/ HeapGrows("insert")
  /\ used' = [used EXCEPT ![slot] = TRUE]
  /\ row' = [row EXCEPT ![slot] = job.row]
  /\ stale' = stale \ {slot}
  /\ at' = "link"
  /\ UNCHANGED <<rowsInBlock, next, disk, hdr, job, slot, slotPrev, iterator, crashes>>

InsertWrite ==
  /\ at = "write"
  /\ UNCHANGED blockFields \/ HeapGrows("insert")
  /\ used' = [used EXCEPT ![slot] = TRUE]
  /\ next' = [next EXCEPT ![slot] = Null]
  /\ row' = [row EXCEPT ![slot] = job.row]
  /\ stale' = stale \ {slot}
  /\ at' = "link"
  /\ UNCHANGED <<rowsInBlock, disk, hdr, job, slot, slotPrev, iterator, crashes>>

InsertFails ==
  /\ at = "write"
  /\ at' = "idle" /\ job' = NoJob /\ slot' = Null
  /\ UNCHANGED <<file, hdr, slotPrev, iterator, crashes>>

\* Step 4.
InsertLink ==
  /\ at = "link"
  /\ IF hdr.last # Null
     THEN next' = [next EXCEPT ![hdr.last] = slot] /\ hdr' = hdr
     ELSE hdr' = [hdr EXCEPT !.first = slot] /\ next' = next
  /\ at' = "count"
  /\ UNCHANGED <<blockFields, rowsInBlock, used, row, stale, disk, job, slot,
                 slotPrev, iterator, crashes>>

\* Step 5, up to flush_header.
InsertCount ==
  /\ at = "count"
  /\ hdr' = [hdr EXCEPT !.last = slot, !.count = (@ + 1) % CountMod]
  /\ rowsInBlock' = [rowsInBlock EXCEPT ![slot[1]] = (@ + 1) % BlockCountMod]
  /\ at' = "flush"
  /\ UNCHANGED <<blockFields, rowFields, disk, job, slot, slotPrev, iterator, crashes>>

(***************************************************************************)
(* EDBFile::flush_header, the last call of insert and of remove.           *)
(***************************************************************************)
FlushOnRemoveOnly ==
  /\ at = "flush"
  /\ disk' = IF job.kind = "insert" THEN disk ELSE hdr
  /\ IF job.kind = "insert"
     THEN at' = "idle" /\ job' = NoJob /\ slot' = Null
     ELSE at' = "mark" /\ UNCHANGED <<job, slot>>
  /\ UNCHANGED <<blockFields, rowsInBlock, rowFields, hdr, slotPrev, iterator, crashes>>

FlushHeader ==
  /\ at = "flush"
  /\ disk' = hdr
  /\ IF job.kind = "insert"
     THEN at' = "idle" /\ job' = NoJob /\ slot' = Null
     ELSE at' = "mark" /\ UNCHANGED <<job, slot>>
  /\ UNCHANGED <<blockFields, rowsInBlock, rowFields, hdr, slotPrev, iterator, crashes>>

(***************************************************************************)
(* DELETE: a first pass chooses the rows, a second one removes them.  The  *)
(* first only reads, so the choice is any set of rows of the table.        *)
(* UPDATE: one pass per column, rewriting every row.                       *)
(***************************************************************************)
StartPass(j) ==
  /\ at = "idle"
  /\ at' = "next" /\ job' = j
  /\ cur' = hdr.first /\ prev' = Null /\ ref' = Null
  /\ UNCHANGED <<file, hdr, slot, slotPrev, crashes>>

StartDelete ==
  \E targets \in SUBSET ChainSet(hdr.first) :
     StartPass([kind |-> "delete", targets |-> targets])

StartUpdate(r) == StartPass([kind |-> "update", row |-> r])

\* EDBRelationIteratorImpl::next_impl advances past cur; a row that is not in
\* use is an error, which next() turns into an abort ("corrupt").
Advance ==
  /\ cur # Null
  /\ prev' = cur /\ cur' = next[cur]

FetchToDelete ==
  /\ at = "next" /\ job.kind = "delete"
  /\ Advance
  /\ slot' = cur /\ slotPrev' = prev
  /\ at' = IF ~used[cur] THEN "corrupt"
           ELSE IF cur \in job.targets THEN "free" ELSE "next"
  /\ UNCHANGED <<file, hdr, job, ref, crashes>>

\* `row = next()' in the loop: the new reference is made before the destructor
\* of the old one writes its row.
FetchToUpdate ==
  /\ at = "next" /\ job.kind = "update"
  /\ \/ Advance /\ ref' = cur
     \/ cur = Null /\ ref # Null /\ ref' = Null /\ UNCHANGED <<cur, prev>>
  /\ slot' = ref
  /\ at' = IF cur # Null /\ ~used[cur] THEN "corrupt"
           ELSE IF ref # Null THEN "free" ELSE "next"
  /\ UNCHANGED <<file, hdr, job, slotPrev, crashes>>

EndPass ==
  /\ at = "next" /\ cur = Null /\ ref = Null
  /\ at' = "idle" /\ job' = NoJob /\ slot' = Null /\ slotPrev' = Null
  /\ prev' = Null
  /\ UNCHANGED <<file, hdr, cur, ref, crashes>>

\* RowSpec::free_data: the heap data goes, the row bytes stay.
FreeAndMark ==                               \* is_used written at once
  /\ at = "free"
  /\ stale' = stale \cup {slot}
  /\ used' = IF job.kind = "delete" THEN [used EXCEPT ![slot] = FALSE] ELSE used
  /\ at' = IF job.kind = "delete" THEN "unlink" ELSE "put"
  /\ UNCHANGED <<blockFields, rowsInBlock, next, row, disk, hdr, job, slot,
                 slotPrev, iterator, crashes>>

FreeData ==
  /\ at = "free"
  /\ stale' = stale \cup {slot}
  /\ at' = IF job.kind = "delete" THEN "unlink" ELSE "put"
  /\ UNCHANGED <<blockFields, rowsInBlock, used, next, row, disk, hdr, job, slot,
                 slotPrev, iterator, crashes>>

(***************************************************************************)
(* EDBFile::remove after free_data.  `current' is a copy of the row taken  *)
(* at the start and written back by its destructor, after flush_header:    *)
(* is_used = 0 reaches the file last.                                      *)
(***************************************************************************)
RemoveUnlink ==
  /\ at = "unlink"
  /\ IF slotPrev # Null
     THEN next' = [next EXCEPT ![slotPrev] = next[slot]] /\ hdr' = hdr
     ELSE hdr' = [hdr EXCEPT !.first = next[slot]] /\ next' = next
  /\ at' = "uncount"
  /\ UNCHANGED <<blockFields, rowsInBlock, used, row, stale, disk, job, slot,
                 slotPrev, iterator, crashes>>

RemoveForgetsLast ==                         \* step 6 without last_row_ptr
  /\ at = "uncount"
  /\ rowsInBlock' = [rowsInBlock EXCEPT ![slot[1]] = (@ + BlockCountMod - 1) % BlockCountMod]
  /\ hdr' = [hdr EXCEPT !.count = (@ + CountMod - 1) % CountMod]
  /\ at' = "flush"
  /\ UNCHANGED <<blockFields, rowFields, disk, job, slot, slotPrev, iterator, crashes>>

RemoveCount ==
  /\ at = "uncount"
  /\ rowsInBlock' = [rowsInBlock EXCEPT ![slot[1]] = (@ + BlockCountMod - 1) % BlockCountMod]
  /\ hdr' = [hdr EXCEPT !.last = IF next[slot] = Null THEN slotPrev ELSE @,
                        !.count = (@ + CountMod - 1) % CountMod]
  /\ at' = "flush"
  /\ UNCHANGED <<blockFields, rowFields, disk, job, slot, slotPrev, iterator, crashes>>

\* The end of remove, and EDBRowReference::remove stepping the iterator's
\* previous row back over the removed one.
MarkKeepsPrev ==
  /\ at = "mark"
  /\ used' = [used EXCEPT ![slot] = FALSE]
  /\ at' = "next"
  /\ UNCHANGED <<blockFields, rowsInBlock, next, row, stale, disk, hdr, job, slot,
                 slotPrev, cur, prev, ref, crashes>>

MarkNothing ==
  /\ at = "mark"
  /\ prev' = slotPrev
  /\ at' = "next"
  /\ UNCHANGED <<file, hdr, job, slot, slotPrev, cur, ref, crashes>>

RemoveMark ==
  /\ at = "mark"
  /\ used' = [used EXCEPT ![slot] = FALSE]
  /\ prev' = slotPrev
  /\ at' = "next"
  /\ UNCHANGED <<blockFields, rowsInBlock, next, row, stale, disk, hdr, job, slot,
                 slotPrev, cur, ref, crashes>>

(***************************************************************************)
(* ~EDBRowReference after free_data: the strings are allocated anew and    *)
(* the row bytes copied into the access that was opened before.            *)
(***************************************************************************)
UpdatePut ==
  /\ at = "put"
  /\ row' = [row EXCEPT ![slot] = job.row]
  /\ stale' = stale \ {slot}
  /\ at' = "next"
  /\ UNCHANGED <<blockFields, rowsInBlock, used, next, disk, hdr, job, slot,
                 slotPrev, iterator, crashes>>

\* The heap needs a new block: the file is mapped anew and the access still
\* points into the old mapping.  Undefined behaviour: the new mapping may be
\* at the same address, or the bytes go elsewhere or kill the process.
UpdatePutAfterRemap ==
  /\ at = "put"
  /\ HeapGrows("update")
  /\ \/ /\ row' = [row EXCEPT ![slot] = job.row] /\ stale' = stale \ {slot}
        /\ at' = "next"
     \/ at' = "lost" /\ UNCHANGED <<row, stale>>
  /\ UNCHANGED <<rowsInBlock, used, next, disk, hdr, job, slot, slotPrev,
                 iterator, crashes>>

(***************************************************************************)
(* The process dies and the file is opened again (EDBFile::open).          *)
(***************************************************************************)
Crash ==
  /\ crashes < MaxCrashes
  /\ crashes' = crashes + 1
  /\ hdr' = disk
  /\ at' = "idle" /\ job' = NoJob
  /\ slot' = Null /\ slotPrev' = Null /\ cur' = Null /\ prev' = Null /\ ref' = Null
  /\ UNCHANGED file

HeapSlots == {s \in Slots : blockType[s[1]] = "Heap" /\ s[2] \in HeapZeroes}

Next ==
  \/ \E r \in Rows, zero \in SUBSET HeapSlots : StartInsert(r, zero)
  \/ InsertWrite \/ InsertFails \/ InsertLink \/ InsertCount
  \/ FlushHeader
  \/ StartDelete
  \/ \E r \in Rows : StartUpdate(r)
  \/ FetchToDelete \/ FetchToUpdate \/ EndPass
  \/ FreeData
  \/ RemoveUnlink \/ RemoveCount \/ RemoveMark
  \/ UpdatePut \/ UpdatePutAfterRemap
  \/ Crash

Spec == Init /\ [][Next]_vars

-----------------------------------------------------------------------------
Places == {"idle", "write", "link", "count", "flush", "next", "free", "unlink",
           "uncount", "mark", "put", "lost", "corrupt"}

\* Every pointer names a slot of a block of the file, or is null.
InFile(p) == p = Null \/ (p \in Slots /\ p[1] <= blockCount)

Jobs ==
  {NoJob} \cup [kind : {"insert", "update"}, row : Rows]
          \cup [kind : {"delete"}, targets : SUBSET Slots]

PointersInFile ==
  /\ \A s \in Slots : InFile(next[s])
  /\ \A p \in {hdr.first, hdr.last, disk.first, disk.last, slot, slotPrev, cur,
               prev, ref} : InFile(p)

TypeOK ==
  /\ blockCount \in 2..MaxBlocks
  /\ blockType \in [Blocks -> {"None", "Table", "Heap"}]
  /\ rowsInBlock \in [Blocks -> 0..(BlockCountMod - 1)]
  /\ used \in [Slots -> BOOLEAN]
  /\ next \in [Slots -> Pointers]
  /\ row \in [Slots -> Rows]
  /\ stale \subseteq Slots
  /\ hdr \in Header /\ disk \in Header
  /\ at \in Places /\ job \in Jobs
  /\ crashes \in 0..MaxCrashes
  /\ PointersInFile

(***************************************************************************)
(* With no crash.                                                          *)
(*                                                                         *)
(* Between operations the header tells the truth about the list: row_count *)
(* is its length and last_row_ptr its last row (file format, "Number of    *)
(* rows", "Pointer to last row"), in memory and in the file.               *)
(***************************************************************************)
HeaderMatchesList ==
  at = "idle" =>
     /\ Ends(hdr.first)
     /\ hdr.count = Len(Chain)
     /\ hdr.last = IF Chain = <<>> THEN Null ELSE Chain[Len(Chain)]
     /\ disk = hdr

(***************************************************************************)
(* Between operations a slot is in use exactly when its row is in the list *)
(* and rows_in_block counts the used slots of the block: no slot leaks and *)
(* none is taken for free while a row lives there.                         *)
(***************************************************************************)
SlotsAccountedFor ==
  at = "idle" =>
     /\ {s \in Slots : used[s]} = ChainSet(hdr.first)
     /\ \A b \in Blocks :
           rowsInBlock[b] = Cardinality({s \in Slots : s[1] = b /\ used[s]})

(***************************************************************************)
(* Every row of the list has its heap data, but for the one row that       *)
(* remove or ~EDBRowReference is working on.                               *)
(***************************************************************************)
RowsHaveTheirData ==
  ChainSet(hdr.first) \cap stale \subseteq
     IF at \in {"unlink", "put"} THEN {slot} ELSE {}

\* The header, the slots and the strings are those of the rows of the list.
FileAccountsForRows == HeaderMatchesList /\ SlotsAccountedFor /\ RowsHaveTheirData

(***************************************************************************)
(* The file-backed table behaves as the list of rows it stands for.        *)
(***************************************************************************)
AbstractRows == [i \in DOMAIN Chain |-> row[Chain[i]]]
List == INSTANCE RowList WITH rows <- AbstractRows
RefinesRowList == List!Spec

(***************************************************************************)
(* With crashes.                                                           *)
(*                                                                         *)
(* Whatever was interrupted, every row that can be reached from the header *)
(* in memory or from the header in the file is in use: no later iteration  *)
(* meets the error "Row points to freed row".                              *)
(***************************************************************************)
OnlyUsedFrom(p) ==
  \E C \in SUBSET {s \in Slots : used[s]} :
     p \in C \cup {Null} /\ \A s \in C : next[s] \in C \cup {Null}

ReachableUsed ==
  OnlyUsedFrom(hdr.first) /\ OnlyUsedFrom(disk.first) /\ at # "corrupt"

(***************************************************************************)
(* An iteration always ends: no interrupted or repeated operation closes   *)
(* the list into a cycle.                                                  *)
(***************************************************************************)
ListsEnd == Ends(hdr.first) /\ Ends(disk.first)

(***************************************************************************)
(* first_row_ptr and last_row_ptr of the file are null together (file      *)
(* format: both "MUST be null if table is empty"), in every crash state.   *)
(***************************************************************************)
NullTogether == disk.first = Null <=> disk.last = Null

(***************************************************************************)
(* A crash changes the list of rows by at most the one row whose insert or *)
(* remove it interrupts.                                                   *)
(***************************************************************************)
CrashTouchesOneRow ==
  [][Crash =>
       LET before == ChainSet(hdr.first)
           after == ChainSet(disk.first)
       IN (before \ after) \cup (after \ before) \subseteq {slot}]_vars

(***************************************************************************)
(* An insert never writes over a row that is in the list, not even when    *)
(* the header it works from is the one a crash left behind.                *)
(***************************************************************************)
OutOfReach(s, p) ==
  \E C \in SUBSET (Slots \ {s}) :
     p \in C \cup {Null} /\ \A t \in C : next[t] \in C \cup {Null}

InsertOverwritesNoRow ==
  [][at = "write" /\ at' = "link" =>
       OutOfReach(slot, hdr.first) /\ OutOfReach(slot, disk.first)]_vars

-----------------------------------------------------------------------------
(***************************************************************************)
(* What comments and documents say that the code does not keep.            *)
(***************************************************************************)
\* EDBFile.cpp, before the strings of a row are allocated: "Note: This
\* invalidates all Accesses."  No access opened before is written back after.
NoWriteThroughStaleAccess == at # "lost"
=============================================================================
