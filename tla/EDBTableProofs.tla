-------------------------- MODULE EDBTableProofs --------------------------
(***************************************************************************)
(* Proofs about EDBTable, for every number of blocks, slots and rows, and  *)
(* any number of crashes.                                                  *)
(***************************************************************************)
EXTENDS EDBTable, Induction, FiniteSetTheorems, SequenceTheorems, TLAPS

(***************************************************************************)
(* The inductive invariant.  ReachableUsed alone is not inductive: remove  *)
(* clears is_used of one slot, and needs to know that no other row of the  *)
(* list points there.  So the invariant names a set C of slots that holds  *)
(* the list, in which no two rows have the same successor, no row points   *)
(* at the first one, and a rank r grows along next_row; and it says, for   *)
(* each place an operation can have reached, how its pointers lie in C and *)
(* what the header in the file still says.                                 *)
(***************************************************************************)
ListFrom(first, C, r) ==
  /\ \A s \in C : used[s]
  /\ first \in C \cup {Null}
  /\ \A s \in C : next[s] # Null =>
        next[s] \in C /\ next[s] # first /\ r[s] < r[next[s]]
  /\ \A s, t \in C : next[s] = next[t] /\ next[s] # Null => s = t

\* The iterator stands behind prev, or at the start of the list.
IteratorIn(C) ==
  IF prev = Null THEN cur = hdr.first
  ELSE prev \in C /\ cur = next[prev] /\ hdr.first # Null

\* DELETE before the row is unlinked, and after.
BeforeUnlink(C) ==
  /\ slot \in C /\ prev = slot /\ cur = next[slot]
  /\ IF slotPrev = Null THEN slot = hdr.first
     ELSE slotPrev \in C /\ next[slotPrev] = slot
  /\ hdr.first # Null

AfterUnlink(C, r) ==
  /\ slot \in Slots \ C /\ used[slot] /\ cur = next[slot]
  /\ next[slot] \in C \cup {Null}
  /\ next[slot] # Null => r[slot] < r[next[slot]]
  /\ IF slotPrev = Null THEN hdr.first = next[slot]
     ELSE slotPrev \in C /\ next[slotPrev] = next[slot] /\ hdr.first # Null

SameEnds == disk.first = hdr.first /\ disk.last = hdr.last
FirstNull == hdr.first = Null <=> hdr.last = Null

\* The header in the file, while the one in memory is ahead of it.
DiskLagsInsert ==
  /\ hdr.first # Null
  /\ disk.first # hdr.first =>
        disk.first = Null /\ hdr.first = slot /\ next[slot] = Null
DiskLagsRemove == disk.first = IF slotPrev = Null THEN slot ELSE hdr.first

Settled == {"idle", "write", "link", "next", "free", "put", "unlink", "mark", "lost"}

Place(C, r) ==
  /\ at \in Settled => SameEnds /\ FirstNull
  /\ at = "flush" => FirstNull
  /\ at = "write" => slot \in Slots \ C
  /\ at = "link" => slot \in Slots \ C /\ used[slot] /\ next[slot] = Null
  /\ at \in {"count", "flush"} /\ job.kind = "insert" => slot \in Slots /\ DiskLagsInsert
  /\ at = "next" => IteratorIn(C)
  /\ at \in {"free", "put"} /\ job.kind = "update" => IteratorIn(C) /\ slot \in Slots
  /\ at \in {"free", "unlink"} /\ job.kind = "delete" => BeforeUnlink(C)
  /\ at \in {"uncount", "flush"} /\ job.kind = "delete" => AfterUnlink(C, r) /\ DiskLagsRemove
  /\ at = "uncount" => hdr.last # Null
  /\ at = "mark" => AfterUnlink(C, r)

Control ==
  /\ at \in {"write", "link", "count"} => job.kind = "insert"
  /\ at = "flush" => job.kind \in {"insert", "delete"}
  /\ at \in {"unlink", "uncount", "mark"} => job.kind = "delete"
  /\ at \in {"next", "free"} => job.kind \in {"delete", "update"}
  /\ at = "put" => job.kind = "update"
  /\ at # "corrupt"

UsedInFile == \A s \in Slots : used[s] => s[1] <= blockCount

Shape ==
  \E C \in SUBSET Slots, r \in [Slots -> Int] : ListFrom(hdr.first, C, r) /\ Place(C, r)

Inv == TypeOK /\ Control /\ UsedInFile /\ NullTogether /\ Shape

-----------------------------------------------------------------------------
(***************************************************************************)
(* The slots, as far as the proofs need to know them.                      *)
(***************************************************************************)
LEMMA SlotFacts ==
  /\ Null \notin Slots
  /\ \A s \in Slots : s[1] \in Blocks /\ s[1] \in Nat
  /\ \A b \in Blocks : <<b, 1>> \in Slots /\ <<b, 1>>[1] = b
  /\ <<1, 1>> \in Slots /\ <<1, 1>>[1] = 1
  /\ Pointers = Slots \cup {Null}
  /\ MaxBlocks \in Nat /\ MaxBlocks >= 2
BY TableAssumption DEF Null, Slots, Blocks, Pointers

LEMMA InitInv == Init => Inv
<1>. SUFFICES ASSUME Init PROVE Inv
  OBVIOUS
<1>. USE DEF Init
<1>1. TypeOK
  <2>1. (CHOOSE r \in Rows : TRUE) \in Rows
    BY TableAssumption
  <2>2. hdr \in Header /\ disk \in Header
    BY TableAssumption DEF Header, Pointers
  <2>3. blockType \in [Blocks -> {"None", "Table", "Heap"}]
    BY DEF Blocks
  <2>4. PointersInFile
    BY DEF PointersInFile, InFile
  <2>. QED
    BY <2>1, <2>2, <2>3, <2>4, TableAssumption
    DEF TypeOK, Places, Jobs, NoJob, Pointers
<1>2. Control /\ UsedInFile /\ NullTogether
  BY DEF Control, UsedInFile, NullTogether, NoJob
<1>3. Shape
  <2>. DEFINE z == [s \in Slots |-> 0]
  <2>1. ListFrom(hdr.first, {}, z)
    BY DEF ListFrom
  <2>2. Place({}, z)
    BY DEF Place, SameEnds, FirstNull, Settled
  <2>3. z \in [Slots -> Int]
    OBVIOUS
  <2>. HIDE DEF z
  <2>. QED
    BY <2>1, <2>2, <2>3 DEF Shape
<1>. QED
  BY <1>1, <1>2, <1>3 DEF Inv

-----------------------------------------------------------------------------
(***************************************************************************)
(* Types and control.                                                      *)
(***************************************************************************)
LEMMA KindFacts ==
  ASSUME TypeOK
  PROVE  /\ job.kind = "insert" => job.row \in Rows
         /\ job.kind = "update" => job.row \in Rows
         /\ job.kind = "delete" => job.targets \in SUBSET Slots
         /\ job.kind \in {"none", "insert", "update", "delete"}
BY DEF TypeOK, Jobs, NoJob

LEMMA Unlinking == Inv => (at \in {"free", "put", "unlink", "uncount", "mark"} => slot \in Slots)
BY DEF Inv, Shape, Place, Control, BeforeUnlink, AfterUnlink

LEMMA CountFacts ==
  /\ \A c \in 0..(CountMod - 1) :
        /\ (c + 1) % CountMod \in 0..(CountMod - 1)
        /\ (c + CountMod - 1) % CountMod \in 0..(CountMod - 1)
  /\ \A c \in 0..(BlockCountMod - 1) :
        /\ (c + 1) % BlockCountMod \in 0..(BlockCountMod - 1)
        /\ (c + BlockCountMod - 1) % BlockCountMod \in 0..(BlockCountMod - 1)
BY TableAssumption

LEMMA NewBlockFacts ==
  ASSUME TypeOK, NEW type \in {"Table", "Heap"}, NewBlock(type)
  PROVE  /\ blockCount' \in 2..MaxBlocks
         /\ blockType' \in [Blocks -> {"None", "Table", "Heap"}]
         /\ blockCount' = blockCount + 1 /\ blockCount + 1 \in Blocks
         /\ <<blockCount + 1, 1>> \in Slots /\ <<blockCount + 1, 1>>[1] = blockCount'
         /\ \A p \in Pointers : InFile(p) => p = Null \/ (p \in Slots /\ p[1] <= blockCount')
<1>1. /\ blockCount' \in 2..MaxBlocks
      /\ blockCount' = blockCount + 1 /\ blockCount + 1 \in Blocks
  BY SlotFacts DEF TypeOK, NewBlock, Blocks
<1>2. blockType' \in [Blocks -> {"None", "Table", "Heap"}]
  BY DEF TypeOK, NewBlock
<1>3. ASSUME NEW p \in Pointers, InFile(p)
      PROVE  p = Null \/ (p \in Slots /\ p[1] <= blockCount')
  <2>1. blockCount \in Int
    BY DEF TypeOK
  <2>. QED
    BY <1>1, <1>3, <2>1, SlotFacts DEF InFile
<1>. QED
  BY <1>1, <1>2, <1>3, SlotFacts

LEMMA TypeStep == Inv /\ [Next]_vars => TypeOK'
<1>. SUFFICES ASSUME Inv, [Next]_vars PROVE TypeOK'
  OBVIOUS
<1>0. TypeOK /\ Control
  BY DEF Inv
<1>. USE <1>0, SlotFacts, KindFacts, TableAssumption DEF Control
<1>1. ASSUME NEW r \in Rows, NEW zero \in SUBSET HeapSlots, StartInsert(r, zero)
      PROVE  TypeOK'
  <2>. USE <1>1 DEF StartInsert, vars, file, rowFields, blockFields, iterator
  <2>1. CASE UNCHANGED blockFields
    BY <2>1 DEF TypeOK, PointersInFile, InFile, PlaceFor, LooksFree, Jobs, Places, NewBlock
  <2>2. CASE NewBlock("Table") /\ slot' = <<blockCount + 1, 1>>
    <3>1. PointersInFile'
      BY <2>2, NewBlockFacts DEF TypeOK, PointersInFile, InFile, Header
    <3>. QED
      BY <2>2, <3>1, NewBlockFacts DEF TypeOK, Jobs, Places
  <2>. QED
    BY <2>1, <2>2 DEF PlaceFor
<1>2. CASE InsertWrite
  <2>. USE <1>2 DEF InsertWrite, vars, file, rowFields, blockFields, iterator
  <2>1. CASE UNCHANGED blockFields
    BY <2>1 DEF TypeOK, PointersInFile, InFile, Places
  <2>2. CASE NewBlock("Heap")
    <3>1. PointersInFile'
      BY <2>2, NewBlockFacts DEF TypeOK, PointersInFile, InFile
    <3>. QED
      BY <2>2, <3>1, NewBlockFacts DEF TypeOK, Places
  <2>. QED
    BY <2>1, <2>2 DEF HeapGrows
<1>3. CASE InsertFails
  BY <1>3 DEF InsertFails, TypeOK, PointersInFile, InFile, Places, Jobs, vars, file, rowFields, blockFields, iterator
<1>4. CASE InsertLink
  BY <1>4 DEF InsertLink, TypeOK, PointersInFile, InFile, Places, Header, vars, file, rowFields, blockFields, iterator
<1>5. CASE InsertCount
  <2>1. rowsInBlock' \in [Blocks -> 0..(BlockCountMod - 1)]
    <3>1. ASSUME NEW b \in Blocks
          PROVE  rowsInBlock'[b] \in 0..(BlockCountMod - 1)
      <4>1. rowsInBlock[b] \in 0..(BlockCountMod - 1)
        BY DEF TypeOK
      <4>. QED
        BY <1>5, <4>1, CountFacts DEF InsertCount, TypeOK
    <3>. QED
      BY <1>5, <3>1 DEF InsertCount, TypeOK
  <2>2. hdr' \in Header
    <3>1. hdr.count \in 0..(CountMod - 1)
      BY DEF TypeOK, Header
    <3>2. hdr'.count \in 0..(CountMod - 1)
      BY <1>5, <3>1, CountFacts DEF InsertCount, TypeOK, Header
    <3>3. slot \in Pointers /\ slotPrev \in Pointers
      BY DEF TypeOK, PointersInFile, InFile
    <3>. QED
      BY <1>5, <3>2, <3>3 DEF InsertCount, TypeOK, Header
  <2>3. PointersInFile'
    BY <1>5 DEF InsertCount, TypeOK, PointersInFile, InFile, Header, vars, file, rowFields, blockFields, iterator
  <2>. QED
    BY <1>5, <2>1, <2>2, <2>3 DEF InsertCount, TypeOK, Places, vars, file, rowFields, blockFields, iterator
<1>6. CASE FlushHeader
  BY <1>6 DEF FlushHeader, TypeOK, PointersInFile, InFile, Places, Jobs, vars, file, rowFields, blockFields, iterator
<1>7. CASE StartDelete
  <2>. PICK targets \in SUBSET ChainSet(hdr.first) :
              StartPass([kind |-> "delete", targets |-> targets])
    BY <1>7 DEF StartDelete
  <2>1. ChainSet(hdr.first) \subseteq Slots
    BY DEF ChainSet
  <2>. QED
    BY <2>1 DEF StartPass, TypeOK, PointersInFile, InFile, Places, Jobs, vars, file, rowFields, blockFields, iterator
<1>8. ASSUME NEW r \in Rows, StartUpdate(r) PROVE TypeOK'
  BY <1>8 DEF StartUpdate, StartPass, TypeOK, PointersInFile, InFile, Places, Jobs, vars, file, rowFields, blockFields, iterator
<1>9. CASE FetchToDelete
  BY <1>9 DEF FetchToDelete, Advance, TypeOK, PointersInFile, InFile, Places, vars, file, rowFields, blockFields, iterator
<1>10. CASE FetchToUpdate
  BY <1>10 DEF FetchToUpdate, Advance, TypeOK, PointersInFile, InFile, Places, vars, file, rowFields, blockFields, iterator
<1>11. CASE EndPass
  BY <1>11 DEF EndPass, TypeOK, PointersInFile, InFile, Places, Jobs, vars, file, rowFields, blockFields, iterator
<1>12. CASE FreeData
  BY <1>12, Unlinking DEF FreeData, TypeOK, PointersInFile, InFile, Places, vars, file, rowFields, blockFields, iterator
<1>13. CASE RemoveUnlink
  BY <1>13, Unlinking DEF RemoveUnlink, TypeOK, PointersInFile, InFile, Places, Header, vars, file, rowFields, blockFields, iterator
<1>14. CASE RemoveCount
  <2>1. rowsInBlock' \in [Blocks -> 0..(BlockCountMod - 1)]
    <3>1. ASSUME NEW b \in Blocks
          PROVE  rowsInBlock'[b] \in 0..(BlockCountMod - 1)
      <4>1. rowsInBlock[b] \in 0..(BlockCountMod - 1)
        BY DEF TypeOK
      <4>. QED
        BY <1>14, <4>1, CountFacts DEF RemoveCount, TypeOK
    <3>. QED
      BY <1>14, <3>1 DEF RemoveCount, TypeOK
  <2>2. hdr' \in Header
    <3>1. hdr.count \in 0..(CountMod - 1)
      BY DEF TypeOK, Header
    <3>2. hdr'.count \in 0..(CountMod - 1)
      BY <1>14, <3>1, CountFacts DEF RemoveCount, TypeOK, Header
    <3>3. slot \in Pointers /\ slotPrev \in Pointers
      BY DEF TypeOK, PointersInFile, InFile
    <3>. QED
      BY <1>14, <3>2, <3>3 DEF RemoveCount, TypeOK, Header
  <2>3. PointersInFile'
    BY <1>14 DEF RemoveCount, TypeOK, PointersInFile, InFile, Header, vars, file, rowFields, blockFields, iterator
  <2>. QED
    BY <1>14, <2>1, <2>2, <2>3 DEF RemoveCount, TypeOK, Places, vars, file, rowFields, blockFields, iterator
<1>15. CASE RemoveMark
  BY <1>15, Unlinking DEF RemoveMark, TypeOK, PointersInFile, InFile, Places, vars, file, rowFields, blockFields, iterator
<1>16. CASE UpdatePut
  BY <1>16 DEF UpdatePut, TypeOK, PointersInFile, InFile, Places, vars, file, rowFields, blockFields, iterator
<1>17. CASE UpdatePutAfterRemap
  <2>1. NewBlock("Heap")
    BY <1>17 DEF UpdatePutAfterRemap, HeapGrows
  <2>2. PointersInFile'
    BY <1>17, <2>1, NewBlockFacts DEF UpdatePutAfterRemap, TypeOK, PointersInFile, InFile, iterator
  <2>. QED
    BY <1>17, <2>1, <2>2, NewBlockFacts DEF UpdatePutAfterRemap, TypeOK, Places, iterator
<1>18. CASE Crash
  BY <1>18 DEF Crash, TypeOK, PointersInFile, InFile, Places, Jobs, vars, file, rowFields, blockFields, iterator
<1>19. CASE UNCHANGED vars
  BY <1>19 DEF TypeOK, PointersInFile, InFile, vars, file, rowFields, blockFields, iterator
<1>. QED
  BY <1>1, <1>2, <1>3, <1>4, <1>5, <1>6, <1>7, <1>8, <1>9, <1>10, <1>11, <1>12, <1>13, <1>14, <1>15, <1>16, <1>17, <1>18, <1>19 DEF Next

(***************************************************************************)
(* An iterator that stands in the list meets a row of the list.            *)
(***************************************************************************)
LEMMA MeetsRow ==
  ASSUME TypeOK, NEW C, NEW r, ListFrom(hdr.first, C, r), IteratorIn(C), cur # Null
  PROVE  cur \in C /\ used[cur] /\ hdr.first # Null
BY DEF ListFrom, IteratorIn

LEMMA ControlStep == Inv /\ [Next]_vars => Control'
<1>. SUFFICES ASSUME Inv, [Next]_vars PROVE Control'
  OBVIOUS
<1>0. TypeOK /\ Control
  BY DEF Inv
<1>1. at = "next" /\ cur # Null => used[cur]
  BY <1>0, MeetsRow DEF Inv, Shape, Place
<1>. USE <1>0, <1>1 DEF Control
<1>2. CASE FetchToDelete
  BY <1>2 DEF FetchToDelete, Advance
<1>3. CASE FetchToUpdate
  BY <1>3 DEF FetchToUpdate, Advance
<1>4. CASE \E r \in Rows, zero \in SUBSET HeapSlots : StartInsert(r, zero)
  BY <1>4 DEF StartInsert
<1>5. CASE InsertWrite \/ InsertFails \/ InsertLink \/ InsertCount \/ FlushHeader
  BY <1>5 DEF InsertWrite, InsertFails, InsertLink, InsertCount, FlushHeader
<1>6. CASE StartDelete \/ (\E r \in Rows : StartUpdate(r)) \/ EndPass
  BY <1>6 DEF StartDelete, StartUpdate, StartPass, EndPass
<1>7. CASE FreeData \/ RemoveUnlink \/ RemoveCount \/ RemoveMark
  BY <1>7, KindFacts DEF FreeData, RemoveUnlink, RemoveCount, RemoveMark, vars, file, rowFields, blockFields, iterator
<1>8. CASE UpdatePut \/ UpdatePutAfterRemap \/ Crash \/ UNCHANGED vars
  BY <1>8 DEF UpdatePut, UpdatePutAfterRemap, Crash, vars, file, rowFields, blockFields, iterator
<1>. QED
  BY <1>2, <1>3, <1>4, <1>5, <1>6, <1>7, <1>8 DEF Next

LEMMA UsedInFileStep == Inv /\ [Next]_vars => UsedInFile'
<1>. SUFFICES ASSUME Inv, [Next]_vars PROVE UsedInFile'
  OBVIOUS
<1>0. TypeOK /\ UsedInFile
  BY DEF Inv
<1>1. blockCount' \in Nat /\ blockCount \in Nat /\ blockCount' >= blockCount
  <2>1. blockCount' = blockCount \/ blockCount' = blockCount + 1
    BY DEF Next, StartInsert, PlaceFor, NewBlock, HeapGrows, InsertWrite, InsertFails, InsertLink, InsertCount, FlushHeader, StartPass, StartDelete, StartUpdate, FetchToDelete, FetchToUpdate, EndPass, FreeData, RemoveUnlink, RemoveCount, RemoveMark, UpdatePut, UpdatePutAfterRemap, Crash, vars, file, rowFields, blockFields, iterator
  <2>. QED
    BY <2>1, <1>0 DEF TypeOK
<1>2. \A s \in Slots : used'[s] => used[s] \/ s[1] <= blockCount
  <2>1. CASE InsertWrite
    BY <2>1, <1>0, SlotFacts DEF InsertWrite, TypeOK, PointersInFile, InFile
  <2>2. CASE RemoveMark
    BY <2>2, <1>0 DEF RemoveMark, TypeOK
  <2>3. CASE used' = used
    BY <2>3
  <2>. QED
    BY <2>1, <2>2, <2>3 DEF Next, StartInsert, InsertFails, InsertLink, InsertCount,
       FlushHeader, StartPass, StartDelete, StartUpdate, FetchToDelete, FetchToUpdate,
       EndPass, FreeData, RemoveUnlink, RemoveCount, UpdatePut, UpdatePutAfterRemap,
       Crash, vars, file, rowFields, blockFields, iterator
<1>. QED
  BY <1>0, <1>1, <1>2, SlotFacts DEF UsedInFile

LEMMA NullTogetherStep == Inv /\ [Next]_vars => NullTogether'
<1>. SUFFICES ASSUME Inv, [Next]_vars PROVE NullTogether'
  OBVIOUS
<1>1. CASE FlushHeader
  BY <1>1 DEF FlushHeader, Inv, Shape, Place, FirstNull, NullTogether
<1>2. CASE disk' = disk
  BY <1>2 DEF Inv, NullTogether
<1>. QED
  BY <1>1, <1>2 DEF Next, StartInsert, InsertWrite, InsertFails, InsertLink, InsertCount, StartPass, StartDelete, StartUpdate, FetchToDelete, FetchToUpdate, EndPass, FreeData, RemoveUnlink, RemoveCount, RemoveMark, UpdatePut, UpdatePutAfterRemap, Crash, vars, file, rowFields, blockFields, iterator

-----------------------------------------------------------------------------
(***************************************************************************)
(* The list.  The list that the header in the file heads is, while the two *)
(* headers differ, the one in memory, the empty one, or the one in memory  *)
(* with the row that is being removed still in front.                      *)
(***************************************************************************)
LEMMA DiskList ==
  ASSUME Inv
  PROVE  \E C \in SUBSET Slots, r \in [Slots -> Int] : ListFrom(disk.first, C, r)
<1>0. TypeOK /\ Control
  BY DEF Inv
<1>. PICK C \in SUBSET Slots, r \in [Slots -> Int] :
            ListFrom(hdr.first, C, r) /\ Place(C, r)
  BY DEF Inv, Shape
<1>1. CASE disk.first = hdr.first
  BY <1>1
<1>2. CASE disk.first = Null
  <2>1. ListFrom(Null, C, r)
    BY DEF ListFrom
  <2>. QED
    BY <1>2, <2>1
<1>3. CASE disk.first # hdr.first /\ disk.first # Null
  <2>1. at \in {"uncount", "flush"} /\ job.kind = "delete"
    BY <1>0, <1>3 DEF Place, Settled, SameEnds, FirstNull, Control, DiskLagsInsert, TypeOK, Places
  <2>2. AfterUnlink(C, r) /\ disk.first = slot /\ slotPrev = Null
    BY <1>3, <2>1 DEF Place, DiskLagsRemove
  <2>3. /\ slot \in Slots \ C /\ used[slot] /\ next[slot] = hdr.first
        /\ next[slot] # Null => next[slot] \in C /\ r[slot] < r[next[slot]]
    BY <2>2 DEF AfterUnlink
  <2>. DEFINE D == C \cup {slot}
  <2>4. ListFrom(slot, D, r)
    <3>1. \A s \in D : used[s]
      BY <2>3 DEF ListFrom
    <3>2. \A s \in D : next[s] # Null => next[s] \in D /\ next[s] # slot /\ r[s] < r[next[s]]
      BY <2>3 DEF ListFrom
    <3>3. \A s, t \in D : next[s] = next[t] /\ next[s] # Null => s = t
      BY <2>3 DEF ListFrom
    <3>. QED
      BY <3>1, <3>2, <3>3 DEF ListFrom
  <2>. HIDE DEF D
  <2>5. D \in SUBSET Slots
    BY <2>3 DEF D
  <2>. QED
    BY <2>2, <2>4, <2>5
<1>. QED
  BY <1>1, <1>2, <1>3

(***************************************************************************)
(* The two steps that change the shape of the list.                        *)
(***************************************************************************)
LEMMA LinkShape == Inv /\ InsertLink => Shape'
<1>. SUFFICES ASSUME Inv, InsertLink PROVE Shape'
  OBVIOUS
<1>0. TypeOK /\ at = "link" /\ at' = "count" /\ job.kind = "insert" /\ job' = job
  BY DEF Inv, InsertLink, Control
<1>. PICK C \in SUBSET Slots, r \in [Slots -> Int] :
            ListFrom(hdr.first, C, r) /\ Place(C, r)
  BY DEF Inv, Shape
<1>1. /\ SameEnds /\ FirstNull
      /\ slot \in Slots \ C /\ used[slot] /\ next[slot] = Null
      /\ slot # Null
  BY <1>0, SlotFacts DEF Place, Settled
<1>2. used' = used /\ slot' = slot /\ disk' = disk
  BY DEF InsertLink
<1>3. CASE hdr.last = Null
  <2>1. hdr'.first = slot /\ next' = next
    BY <1>3, <1>0 DEF InsertLink, TypeOK, Header
  <2>a. PICK D \in SUBSET Slots : D = {slot}
    BY <1>1
  <2>2. ListFrom(hdr.first, D, r)'
    BY <1>1, <1>2, <2>1, <2>a DEF ListFrom
  <2>3. Place(D, r)'
    BY <1>0, <1>1, <1>2, <1>3, <2>1 DEF Place, Settled, SameEnds, FirstNull, DiskLagsInsert
  <2>. QED
    BY <1>1, <2>2, <2>3 DEF Shape
<1>4. CASE hdr.last # Null
  <2>1. hdr' = hdr /\ hdr.last \in Slots /\ next' = [next EXCEPT ![hdr.last] = slot]
    BY <1>4, <1>0 DEF InsertLink, TypeOK, PointersInFile, InFile
  <2>2. hdr.first # Null /\ disk.first = hdr.first
    BY <1>1, <1>4 DEF SameEnds, FirstNull
  <2>3. \A s \in Slots : next'[s] = IF s = hdr.last THEN slot ELSE next[s]
    BY <2>1, <1>0 DEF TypeOK
  <2>4. CASE hdr.last \notin C
    <3>1. ListFrom(hdr.first, C, r)'
      BY <1>2, <2>1, <2>3, <2>4 DEF ListFrom
    <3>2. Place(C, r)'
      BY <1>0, <1>1, <1>2, <2>1, <2>2 DEF Place, Settled, SameEnds, FirstNull, DiskLagsInsert
    <3>. QED
      BY <3>1, <3>2 DEF Shape
  <2>5. CASE hdr.last \in C
    <3>a. PICK D \in SUBSET Slots : D = C \cup {slot}
      BY <1>1
    <3>b. PICK q \in [Slots -> Int] : q = [r EXCEPT ![slot] = r[hdr.last] + 1]
      <4>1. r[hdr.last] + 1 \in Int
        BY <2>1
      <4>2. [r EXCEPT ![slot] = r[hdr.last] + 1] \in [Slots -> Int]
        BY <4>1
      <4>. QED
        BY <4>2
    <3>1. /\ q[slot] = r[hdr.last] + 1
          /\ \A s \in C : q[s] = r[s] /\ r[s] \in Int
      BY <3>b, <1>1, <2>5
    <3>2. ListFrom(hdr.first, D, q)'
      <4>1. \A s \in D : used'[s]
        BY <1>1, <1>2, <3>a DEF ListFrom
      <4>2. ASSUME NEW s \in D, next'[s] # Null
            PROVE  next'[s] \in D /\ next'[s] # hdr'.first /\ q[s] < q[next'[s]]
        <5>1. CASE s = hdr.last
          <6>1. next'[s] = slot /\ slot # hdr.first
            BY <5>1, <2>3, <2>5, <1>1, <2>2 DEF ListFrom
          <6>. QED
            BY <5>1, <6>1, <2>1, <2>5, <3>1, <3>a
        <5>2. CASE s # hdr.last
          <6>1. s \in C /\ next'[s] = next[s]
            BY <4>2, <5>2, <2>3, <1>1, <3>a
          <6>. QED
            BY <6>1, <4>2, <2>1, <3>1, <3>a DEF ListFrom
        <5>. QED
          BY <5>1, <5>2
      <4>3. ASSUME NEW s \in D, NEW t \in D, next'[s] = next'[t], next'[s] # Null
            PROVE  s = t
        BY <4>3, <2>3, <2>5, <1>1, <3>a DEF ListFrom
      <4>4. hdr'.first \in D \cup {Null}
        BY <2>1, <3>a DEF ListFrom
      <4>. QED
        BY <4>1, <4>2, <4>3, <4>4 DEF ListFrom
    <3>3. Place(D, q)'
      BY <1>0, <1>1, <1>2, <2>1, <2>2 DEF Place, Settled, SameEnds, FirstNull, DiskLagsInsert
    <3>. QED
      BY <3>2, <3>3 DEF Shape
  <2>. QED
    BY <2>4, <2>5
<1>. QED
  BY <1>3, <1>4

LEMMA UnlinkShape == Inv /\ RemoveUnlink => Shape'
<1>. SUFFICES ASSUME Inv, RemoveUnlink PROVE Shape'
  OBVIOUS
<1>0. TypeOK /\ at = "unlink" /\ at' = "uncount" /\ job.kind = "delete" /\ job' = job
  BY DEF Inv, RemoveUnlink, Control
<1>. PICK C \in SUBSET Slots, r \in [Slots -> Int] :
            ListFrom(hdr.first, C, r) /\ Place(C, r)
  BY DEF Inv, Shape
<1>1. SameEnds /\ FirstNull /\ BeforeUnlink(C)
  BY <1>0 DEF Place, Settled
<1>2. /\ used' = used /\ slot' = slot /\ slotPrev' = slotPrev /\ cur' = cur /\ disk' = disk
      /\ hdr'.last = hdr.last
  BY <1>0 DEF RemoveUnlink, iterator, TypeOK, Header
<1>3. \A s \in C : r[s] \in Int
  OBVIOUS
<1>4. /\ slot \in C /\ slot \in Slots /\ used[slot] /\ cur = next[slot]
      /\ hdr.first # Null /\ hdr.last # Null
      /\ next[slot] \in C \cup {Null}
      /\ next[slot] # Null => next[slot] # slot /\ next[slot] # hdr.first /\ r[slot] < r[next[slot]]
  BY <1>1, <1>3 DEF BeforeUnlink, ListFrom, FirstNull
<1>. PICK D \in SUBSET Slots : D = C \ {slot}
  OBVIOUS
<1>5. CASE slotPrev = Null
  <2>1. hdr'.first = next[slot] /\ next' = next /\ slot = hdr.first
    BY <1>0, <1>1, <1>5 DEF RemoveUnlink, TypeOK, Header, BeforeUnlink
  <2>2. ListFrom(hdr.first, D, r)'
    BY <1>2, <1>4, <2>1 DEF ListFrom
  <2>3. AfterUnlink(D, r)'
    BY <1>2, <1>4, <1>5, <2>1 DEF AfterUnlink
  <2>4. Place(D, r)'
    BY <1>0, <1>1, <1>2, <1>4, <1>5, <2>1, <2>3 DEF Place, Settled, SameEnds, FirstNull, DiskLagsRemove
  <2>. QED
    BY <2>2, <2>4 DEF Shape
<1>6. CASE slotPrev # Null
  <2>1. /\ hdr' = hdr /\ next' = [next EXCEPT ![slotPrev] = next[slot]]
        /\ slotPrev \in C /\ next[slotPrev] = slot
    BY <1>1, <1>6 DEF RemoveUnlink, BeforeUnlink
  <2>2. \A s \in Slots : next'[s] = IF s = slotPrev THEN next[slot] ELSE next[s]
    BY <2>1, <1>0 DEF TypeOK
  <2>3. /\ slot # Null /\ slot # hdr.first /\ slot # slotPrev
        /\ r[slotPrev] < r[slot]
    BY <1>3, <1>4, <2>1, SlotFacts DEF ListFrom
  <2>4. ListFrom(hdr.first, D, r)'
    <3>1. \A s \in D : used'[s]
      BY <1>2 DEF ListFrom
    <3>2. ASSUME NEW s \in D, next'[s] # Null
          PROVE  next'[s] \in D /\ next'[s] # hdr'.first /\ r[s] < r[next'[s]]
      <4>1. CASE s = slotPrev
        <5>1. next'[s] = next[slot]
          BY <4>1, <2>2
        <5>2. next[slot] \in C
          BY <5>1, <3>2, <1>4
        <5>3. r[slotPrev] < r[next[slot]]
          BY <5>1, <5>2, <3>2, <1>3, <1>4, <2>1, <2>3
        <5>. QED
          BY <4>1, <5>1, <5>2, <5>3, <3>2, <1>4, <2>1
      <4>2. CASE s # slotPrev
        <5>1. s \in C /\ next'[s] = next[s] /\ next[s] # slot
          BY <4>2, <2>1, <2>2, <2>3 DEF ListFrom
        <5>. QED
          BY <5>1, <3>2, <2>1 DEF ListFrom
      <4>. QED
        BY <4>1, <4>2
    <3>3. ASSUME NEW s \in D, NEW t \in D, next'[s] = next'[t], next'[s] # Null
          PROVE  s = t
      BY <3>3, <1>4, <2>1, <2>2 DEF ListFrom
    <3>4. hdr'.first \in D \cup {Null}
      BY <2>1, <2>3 DEF ListFrom
    <3>. QED
      BY <3>1, <3>2, <3>3, <3>4 DEF ListFrom
  <2>5. AfterUnlink(D, r)'
    <3>1. next'[slot] = next[slot] /\ next'[slotPrev] = next[slot]
      BY <1>4, <2>1, <2>2, <2>3
    <3>. QED
      BY <1>2, <1>4, <1>6, <2>1, <2>3, <3>1 DEF AfterUnlink
  <2>6. Place(D, r)'
    BY <1>0, <1>1, <1>2, <1>4, <1>6, <2>1, <2>5 DEF Place, Settled, SameEnds, FirstNull, DiskLagsRemove
  <2>. QED
    BY <2>4, <2>6 DEF Shape
<1>. QED
  BY <1>5, <1>6

(***************************************************************************)
(* The steps that leave the list as it is.                                 *)
(***************************************************************************)
LEMMA StartInsertShape ==
  ASSUME Inv, NEW v \in Rows, NEW zero \in SUBSET HeapSlots, StartInsert(v, zero)
  PROVE  Shape'
<1>0. TypeOK /\ UsedInFile
  BY DEF Inv
<1>1. /\ at = "idle" /\ at' = "write" /\ used' = used /\ next' = next
      /\ hdr' = hdr /\ disk' = disk
  BY DEF StartInsert, rowFields
<1>. PICK C \in SUBSET Slots, r \in [Slots -> Int] :
            ListFrom(hdr.first, C, r) /\ Place(C, r)
  BY DEF Inv, Shape
<1>2. SameEnds /\ FirstNull
  BY <1>1 DEF Place, Settled
<1>3. CASE hdr.last = Null
  <2>. PICK D \in SUBSET Slots : D = {}
    OBVIOUS
  <2>1. slot' = <<1, 1>>
    BY <1>3 DEF StartInsert, PlaceFor
  <2>2. ListFrom(hdr.first, D, r)'
    BY <1>1, <1>2, <1>3 DEF ListFrom, FirstNull
  <2>3. Place(D, r)'
    BY <1>1, <1>2, <2>1, SlotFacts DEF Place, Settled, SameEnds, FirstNull
  <2>. QED
    BY <2>2, <2>3 DEF Shape
<1>4. CASE hdr.last # Null
  <2>1. slot' \in Slots /\ ~used[slot']
    <3>1. CASE slot' \in LooksFree(zero)
      BY <3>1 DEF LooksFree
    <3>2. CASE NewBlock("Table") /\ slot' = <<blockCount + 1, 1>>
      <4>1. slot' \in Slots /\ slot'[1] = blockCount + 1 /\ blockCount \in Int
        BY <1>0, <3>2, NewBlockFacts DEF TypeOK
      <4>. QED
        BY <1>0, <4>1 DEF UsedInFile
    <3>. QED
      BY <1>4, <3>1, <3>2 DEF StartInsert, PlaceFor
  <2>2. ListFrom(hdr.first, C, r)'
    BY <1>1 DEF ListFrom
  <2>3. Place(C, r)'
    BY <1>1, <1>2, <2>1 DEF Place, Settled, SameEnds, FirstNull, ListFrom
  <2>. QED
    BY <2>2, <2>3 DEF Shape
<1>. QED
  BY <1>3, <1>4

LEMMA InsertShape ==
  Inv /\ (InsertWrite \/ InsertFails \/ InsertCount \/ FlushHeader) => Shape'
<1>. SUFFICES ASSUME Inv, InsertWrite \/ InsertFails \/ InsertCount \/ FlushHeader
              PROVE  Shape'
  OBVIOUS
<1>0. TypeOK /\ Control
  BY DEF Inv
<1>. PICK C \in SUBSET Slots, r \in [Slots -> Int] :
            ListFrom(hdr.first, C, r) /\ Place(C, r)
  BY DEF Inv, Shape
<1>1. CASE InsertWrite
  <2>1. /\ at = "write" /\ at' = "link" /\ slot' = slot /\ hdr' = hdr /\ disk' = disk
        /\ slot \in Slots \ C /\ SameEnds /\ FirstNull
    BY <1>1 DEF InsertWrite, Place, Settled
  <2>2. /\ used'[slot] /\ next'[slot] = Null
        /\ \A s \in C : used'[s] = used[s] /\ next'[s] = next[s]
    BY <1>0, <1>1, <2>1 DEF InsertWrite, TypeOK
  <2>3. ListFrom(hdr.first, C, r)'
    BY <2>1, <2>2 DEF ListFrom
  <2>4. Place(C, r)'
    BY <2>1, <2>2 DEF Place, Settled, SameEnds, FirstNull
  <2>. QED
    BY <2>3, <2>4 DEF Shape
<1>2. CASE InsertFails
  <2>1. ListFrom(hdr.first, C, r)'
    BY <1>2 DEF InsertFails, file, ListFrom
  <2>2. Place(C, r)'
    BY <1>2 DEF InsertFails, file, Place, Settled, SameEnds, FirstNull
  <2>. QED
    BY <2>1, <2>2 DEF Shape
<1>3. CASE InsertCount
  <2>1. /\ at = "count" /\ at' = "flush" /\ slot' = slot /\ job' = job /\ disk' = disk
        /\ hdr'.first = hdr.first /\ hdr'.last = slot /\ job.kind = "insert"
        /\ used' = used /\ next' = next
    BY <1>0, <1>3 DEF InsertCount, Control, TypeOK, Header, rowFields
  <2>2. ListFrom(hdr.first, C, r)'
    BY <2>1 DEF ListFrom
  <2>3. Place(C, r)'
    BY <2>1, SlotFacts DEF Place, Settled, SameEnds, FirstNull, DiskLagsInsert
  <2>. QED
    BY <2>2, <2>3 DEF Shape
<1>4. CASE FlushHeader
  <2>1. /\ at = "flush" /\ disk' = hdr /\ hdr' = hdr /\ used' = used /\ next' = next
        /\ FirstNull /\ cur' = cur /\ slotPrev' = slotPrev
    BY <1>4 DEF FlushHeader, rowFields, iterator, Place
  <2>2. ListFrom(hdr.first, C, r)'
    BY <2>1 DEF ListFrom
  <2>3. CASE job.kind = "insert"
    <3>1. at' = "idle"
      BY <1>4, <2>3 DEF FlushHeader
    <3>2. Place(C, r)'
      BY <2>1, <3>1 DEF Place, Settled, SameEnds, FirstNull
    <3>. QED
      BY <2>2, <3>2 DEF Shape
  <2>4. CASE job.kind = "delete"
    <3>1. at' = "mark" /\ slot' = slot /\ AfterUnlink(C, r)
      BY <1>4, <2>1, <2>4 DEF FlushHeader, Place
    <3>2. AfterUnlink(C, r)'
      BY <2>1, <3>1 DEF AfterUnlink
    <3>3. Place(C, r)'
      BY <2>1, <3>1, <3>2 DEF Place, Settled, SameEnds, FirstNull
    <3>. QED
      BY <2>2, <3>3 DEF Shape
  <2>. QED
    BY <1>0, <2>1, <2>3, <2>4 DEF Control
<1>. QED
  BY <1>1, <1>2, <1>3, <1>4

LEMMA PassShape ==
  ASSUME Inv, NEW j, StartPass(j)
  PROVE  Shape'
<1>. PICK C \in SUBSET Slots, r \in [Slots -> Int] :
            ListFrom(hdr.first, C, r) /\ Place(C, r)
  BY DEF Inv, Shape
<1>1. ListFrom(hdr.first, C, r)'
  BY DEF StartPass, file, ListFrom
<1>2. Place(C, r)'
  BY DEF StartPass, file, Place, Settled, SameEnds, FirstNull, IteratorIn
<1>. QED
  BY <1>1, <1>2 DEF Shape

LEMMA FetchShape ==
  Inv /\ (FetchToDelete \/ FetchToUpdate \/ EndPass) => Shape'
<1>. SUFFICES ASSUME Inv, FetchToDelete \/ FetchToUpdate \/ EndPass
              PROVE  Shape'
  OBVIOUS
<1>0. TypeOK /\ Control
  BY DEF Inv
<1>. PICK C \in SUBSET Slots, r \in [Slots -> Int] :
            ListFrom(hdr.first, C, r) /\ Place(C, r)
  BY DEF Inv, Shape
<1>1. /\ at = "next" /\ used' = used /\ next' = next /\ hdr' = hdr /\ disk' = disk
  BY DEF FetchToDelete, FetchToUpdate, EndPass, file
<1>2. SameEnds /\ FirstNull /\ IteratorIn(C)
  BY <1>1 DEF Place, Settled
<1>3. ListFrom(hdr.first, C, r)'
  BY <1>1 DEF ListFrom
<1>4. ASSUME Advance
      PROVE  cur \in C /\ used[cur] /\ hdr.first # Null /\ cur # Null /\ IteratorIn(C)'
  <2>1. cur \in C /\ used[cur] /\ hdr.first # Null /\ cur # Null
    BY <1>0, <1>2, <1>4, MeetsRow DEF Advance
  <2>. QED
    BY <1>1, <1>4, <2>1 DEF Advance, IteratorIn
<1>5. CASE FetchToDelete
  <2>1. /\ Advance /\ job' = job /\ job.kind = "delete"
        /\ slot' = cur /\ slotPrev' = prev
        /\ at' \in {"free", "next"}
    BY <1>4, <1>5 DEF FetchToDelete
  <2>2. BeforeUnlink(C)'
    BY <1>1, <1>2, <1>4, <2>1 DEF BeforeUnlink, Advance, IteratorIn
  <2>3. Place(C, r)'
    BY <1>1, <1>2, <1>4, <2>1, <2>2 DEF Place, Settled, SameEnds, FirstNull
  <2>. QED
    BY <1>3, <2>3 DEF Shape
<1>6. CASE FetchToUpdate
  <2>1. job' = job /\ job.kind = "update" /\ IteratorIn(C)'
    <3>1. CASE UNCHANGED <<cur, prev>>
      BY <1>1, <1>2, <1>6, <3>1 DEF FetchToUpdate, IteratorIn
    <3>2. CASE Advance
      BY <1>4, <1>6, <3>2 DEF FetchToUpdate
    <3>. QED
      BY <1>6, <3>1, <3>2 DEF FetchToUpdate
  <2>2. at' = "next" \/ (at' = "free" /\ slot' \in Slots)
    <3>1. ref = Null \/ ref \in Slots
      BY <1>0 DEF TypeOK, PointersInFile, InFile
    <3>2. cur # Null => used[cur]
      BY <1>4, <1>6 DEF FetchToUpdate, Advance
    <3>. QED
      BY <1>6, <3>1, <3>2 DEF FetchToUpdate
  <2>3. Place(C, r)'
    BY <1>1, <1>2, <2>1, <2>2 DEF Place, Settled, SameEnds, FirstNull
  <2>. QED
    BY <1>3, <2>3 DEF Shape
<1>7. CASE EndPass
  <2>1. Place(C, r)'
    BY <1>1, <1>2, <1>7 DEF EndPass, Place, Settled, SameEnds, FirstNull
  <2>. QED
    BY <1>3, <2>1 DEF Shape
<1>. QED
  BY <1>5, <1>6, <1>7

LEMMA RowShape ==
  Inv /\ (FreeData \/ RemoveCount \/ RemoveMark \/ UpdatePut \/ UpdatePutAfterRemap)
    => Shape'
<1>. SUFFICES ASSUME Inv,
                     FreeData \/ RemoveCount \/ RemoveMark \/ UpdatePut \/ UpdatePutAfterRemap
              PROVE  Shape'
  OBVIOUS
<1>0. TypeOK /\ Control
  BY DEF Inv
<1>. PICK C \in SUBSET Slots, r \in [Slots -> Int] :
            ListFrom(hdr.first, C, r) /\ Place(C, r)
  BY DEF Inv, Shape
<1>1. CASE FreeData
  <2>1. /\ at = "free" /\ used' = used /\ next' = next /\ hdr' = hdr /\ disk' = disk
        /\ job' = job /\ slot' = slot /\ slotPrev' = slotPrev /\ cur' = cur /\ prev' = prev
        /\ SameEnds /\ FirstNull
    BY <1>1 DEF FreeData, iterator, Place, Settled
  <2>2. ListFrom(hdr.first, C, r)'
    BY <2>1 DEF ListFrom
  <2>3. CASE job.kind = "delete"
    <3>1. at' = "unlink" /\ BeforeUnlink(C)
      BY <1>1, <2>1, <2>3 DEF FreeData, Place
    <3>2. Place(C, r)'
      BY <2>1, <2>3, <3>1 DEF Place, Settled, SameEnds, FirstNull, BeforeUnlink
    <3>. QED
      BY <2>2, <3>2 DEF Shape
  <2>4. CASE job.kind = "update"
    <3>1. at' = "put" /\ IteratorIn(C) /\ slot \in Slots
      BY <1>1, <2>1, <2>4 DEF FreeData, Place
    <3>2. Place(C, r)'
      BY <2>1, <2>4, <3>1 DEF Place, Settled, SameEnds, FirstNull, IteratorIn
    <3>. QED
      BY <2>2, <3>2 DEF Shape
  <2>. QED
    BY <1>0, <2>1, <2>3, <2>4 DEF Control
<1>2. CASE RemoveCount
  <2>1. /\ at = "uncount" /\ at' = "flush" /\ job.kind = "delete" /\ job' = job
        /\ used' = used /\ next' = next /\ disk' = disk
        /\ slot' = slot /\ slotPrev' = slotPrev /\ cur' = cur
        /\ hdr'.first = hdr.first
        /\ hdr'.last = IF next[slot] = Null THEN slotPrev ELSE hdr.last
    BY <1>0, <1>2 DEF RemoveCount, Control, TypeOK, Header, rowFields, iterator
  <2>2. AfterUnlink(C, r) /\ DiskLagsRemove /\ hdr.last # Null
    BY <2>1 DEF Place
  <2>3. ListFrom(hdr.first, C, r)'
    BY <2>1 DEF ListFrom
  <2>4. AfterUnlink(C, r)' /\ DiskLagsRemove'
    BY <2>1, <2>2 DEF AfterUnlink, DiskLagsRemove
  <2>5. FirstNull'
    BY <2>1, <2>2 DEF AfterUnlink, FirstNull
  <2>6. Place(C, r)'
    BY <2>1, <2>4, <2>5 DEF Place, Settled
  <2>. QED
    BY <2>3, <2>6 DEF Shape
<1>3. CASE RemoveMark
  <2>1. /\ at = "mark" /\ at' = "next" /\ next' = next /\ hdr' = hdr /\ disk' = disk
        /\ cur' = cur /\ prev' = slotPrev
        /\ SameEnds /\ FirstNull /\ AfterUnlink(C, r)
    BY <1>3 DEF RemoveMark, Place, Settled
  <2>2. \A s \in C : used'[s] = used[s]
    BY <1>0, <1>3, <2>1 DEF RemoveMark, AfterUnlink, TypeOK
  <2>3. ListFrom(hdr.first, C, r)'
    BY <2>1, <2>2 DEF ListFrom
  <2>4. IteratorIn(C)'
    BY <2>1 DEF AfterUnlink, IteratorIn
  <2>5. Place(C, r)'
    BY <2>1, <2>4 DEF Place, Settled, SameEnds, FirstNull
  <2>. QED
    BY <2>3, <2>5 DEF Shape
<1>4. CASE UpdatePut \/ UpdatePutAfterRemap
  <2>1. /\ at = "put" /\ at' \in {"next", "lost"} /\ used' = used /\ next' = next
        /\ hdr' = hdr /\ disk' = disk /\ cur' = cur /\ prev' = prev
        /\ SameEnds /\ FirstNull
    BY <1>4 DEF UpdatePut, UpdatePutAfterRemap, iterator, Place, Settled
  <2>2. IteratorIn(C)
    BY <1>0, <2>1 DEF Place, Control
  <2>3. ListFrom(hdr.first, C, r)'
    BY <2>1 DEF ListFrom
  <2>4. Place(C, r)'
    BY <2>1, <2>2 DEF Place, Settled, SameEnds, FirstNull, IteratorIn
  <2>. QED
    BY <2>3, <2>4 DEF Shape
<1>. QED
  BY <1>1, <1>2, <1>3, <1>4

LEMMA CrashShape == Inv /\ Crash => Shape'
<1>. SUFFICES ASSUME Inv, Crash PROVE Shape'
  OBVIOUS
<1>. PICK C \in SUBSET Slots, r \in [Slots -> Int] : ListFrom(disk.first, C, r)
  BY DiskList
<1>1. /\ hdr' = disk /\ disk' = disk /\ used' = used /\ next' = next /\ at' = "idle"
      /\ NullTogether
  BY DEF Crash, file, Inv
<1>2. ListFrom(hdr.first, C, r)'
  BY <1>1 DEF ListFrom
<1>3. Place(C, r)'
  BY <1>1 DEF Place, Settled, SameEnds, FirstNull, NullTogether
<1>. QED
  BY <1>2, <1>3 DEF Shape

LEMMA ShapeStep == Inv /\ [Next]_vars => Shape'
<1>. SUFFICES ASSUME Inv, [Next]_vars PROVE Shape'
  OBVIOUS
<1>1. ASSUME NEW v \in Rows, NEW zero \in SUBSET HeapSlots, StartInsert(v, zero)
      PROVE  Shape'
  BY <1>1, StartInsertShape
<1>2. CASE InsertWrite \/ InsertFails \/ InsertCount \/ FlushHeader
  BY <1>2, InsertShape
<1>3. CASE InsertLink
  BY <1>3, LinkShape
<1>4. CASE StartDelete
  BY <1>4, PassShape DEF StartDelete
<1>5. ASSUME NEW v \in Rows, StartUpdate(v)
      PROVE  Shape'
  BY <1>5, PassShape DEF StartUpdate
<1>6. CASE FetchToDelete \/ FetchToUpdate \/ EndPass
  BY <1>6, FetchShape
<1>7. CASE FreeData \/ RemoveCount \/ RemoveMark \/ UpdatePut \/ UpdatePutAfterRemap
  BY <1>7, RowShape
<1>8. CASE RemoveUnlink
  BY <1>8, UnlinkShape
<1>9. CASE Crash
  BY <1>9, CrashShape
<1>10. CASE UNCHANGED vars
  <2>. PICK C \in SUBSET Slots, r \in [Slots -> Int] :
              ListFrom(hdr.first, C, r) /\ Place(C, r)
    BY DEF Inv, Shape
  <2>1. ListFrom(hdr.first, C, r)'
    BY <1>10 DEF vars, file, rowFields, blockFields, iterator, ListFrom
  <2>2. Place(C, r)'
    BY <1>10 DEF vars, file, rowFields, blockFields, iterator, Place, Settled, SameEnds, FirstNull, DiskLagsInsert,
       DiskLagsRemove, IteratorIn, BeforeUnlink, AfterUnlink
  <2>. QED
    BY <2>1, <2>2 DEF Shape
<1>. QED
  BY <1>1, <1>2, <1>3, <1>4, <1>5, <1>6, <1>7, <1>8, <1>9, <1>10 DEF Next

LEMMA InvIsInvariant == Spec => []Inv
<1>1. Inv /\ [Next]_vars => Inv'
  BY TypeStep, ControlStep, UsedInFileStep, NullTogetherStep, ShapeStep DEF Inv
<1>. QED
  BY InitInv, <1>1, PTL DEF Spec

-----------------------------------------------------------------------------
(***************************************************************************)
(* Every variable keeps its type, and every row pointer - in memory, in    *)
(* the file, in a row, held by an iterator - names a slot of a block that  *)
(* the file has, through any interleaving of operations and crashes.       *)
(***************************************************************************)
THEOREM TypeCorrect == Spec => []TypeOK
<1>1. Inv => TypeOK
  BY DEF Inv
<1>. QED
  BY InvIsInvariant, <1>1, PTL

(***************************************************************************)
(* Wherever a crash falls in insert or remove, the rows that the header in *)
(* the file reaches are all in use, and so are those that the header in    *)
(* memory reaches: EDBRelationIteratorImpl never stops at a freed row.     *)
(***************************************************************************)
THEOREM RowsReachedAreUsed == Spec => []ReachableUsed
<1>1. Inv => ReachableUsed
  <2>. SUFFICES ASSUME Inv PROVE ReachableUsed
    OBVIOUS
  <2>1. ASSUME NEW p, NEW C \in SUBSET Slots, NEW r, ListFrom(p, C, r)
        PROVE  OnlyUsedFrom(p)
    <3>1. /\ C \in SUBSET {s \in Slots : used[s]}
          /\ p \in C \cup {Null}
          /\ \A s \in C : next[s] \in C \cup {Null}
      BY <2>1 DEF ListFrom
    <3>. QED
      BY <3>1 DEF OnlyUsedFrom
  <2>2. OnlyUsedFrom(disk.first)
    BY <2>1, DiskList
  <2>3. OnlyUsedFrom(hdr.first) /\ at # "corrupt"
    BY <2>1 DEF Inv, Shape, Control
  <2>. QED
    BY <2>2, <2>3 DEF ReachableUsed
<1>. QED
  BY InvIsInvariant, <1>1, PTL

(***************************************************************************)
(* A table whose file says it has a first row says it has a last row, and  *)
(* the other way round, in every state a crash can leave.                  *)
(***************************************************************************)
THEOREM HeaderPointersNullTogether == Spec => []NullTogether
<1>1. Inv => NullTogether
  BY DEF Inv
<1>. QED
  BY InvIsInvariant, <1>1, PTL

(***************************************************************************)
(* EDBFile::insert never writes a row over one that can be reached, not    *)
(* even when it works from a header that a crash left behind.              *)
(***************************************************************************)
THEOREM InsertsOverwriteNothing == Spec => InsertOverwritesNoRow
<1>1. Inv /\ [Next]_vars =>
        [at = "write" /\ at' = "link" =>
           OutOfReach(slot, hdr.first) /\ OutOfReach(slot, disk.first)]_vars
  <2>. SUFFICES ASSUME Inv, at = "write"
                PROVE  OutOfReach(slot, hdr.first) /\ OutOfReach(slot, disk.first)
    OBVIOUS
  <2>. PICK C \in SUBSET Slots, r \in [Slots -> Int] :
              ListFrom(hdr.first, C, r) /\ Place(C, r)
    BY DEF Inv, Shape
  <2>1. slot \notin C /\ disk.first = hdr.first
    BY DEF Place, Settled, SameEnds, FirstNull
  <2>2. /\ C \in SUBSET (Slots \ {slot})
        /\ hdr.first \in C \cup {Null}
        /\ \A t \in C : next[t] \in C \cup {Null}
    BY <2>1 DEF ListFrom
  <2>. QED
    BY <2>1, <2>2 DEF OutOfReach
<1>. QED
  BY InvIsInvariant, <1>1, PTL DEF Spec, InsertOverwritesNoRow

-----------------------------------------------------------------------------
(***************************************************************************)
(* The lists of rows that the pointers make: what the recursive function   *)
(* Follow computes, and that it meets the end.                             *)
(***************************************************************************)
LEMMA StepsBound ==
  /\ MaxSteps \in Nat /\ MaxSteps > 0
  /\ IsFiniteSet(Slots) /\ Cardinality(Slots) = MaxSteps
<1>1. IsFiniteSet(Blocks) /\ Cardinality(Blocks) = MaxBlocks
  BY FS_Interval, TableAssumption DEF Blocks
<1>2. IsFiniteSet(1..RowsPerBlock) /\ Cardinality(1..RowsPerBlock) = RowsPerBlock
  BY FS_Interval, TableAssumption
<1>3. IsFiniteSet(Slots) /\ Cardinality(Slots) = MaxBlocks * RowsPerBlock
  BY <1>1, <1>2, FS_Product DEF Slots
<1>4. Cardinality(Slots) \in Nat
  BY <1>3, FS_CardinalityType
<1>5. Cardinality(Slots) # 0
  BY <1>3, FS_EmptySet, SlotFacts
<1> QED BY <1>3, <1>4, <1>5 DEF MaxSteps

(***************************************************************************)
(* Follow, for any successors: nx is next_row before a step, or after it.  *)
(***************************************************************************)
PathFrom(nx, p) ==
  LET pos[n \in 0..MaxSteps] ==
        IF n = 0 THEN p
        ELSE IF pos[n - 1] = Null THEN Null ELSE nx[pos[n - 1]]
  IN pos

LEMMA FollowIsPath ==
  ASSUME NEW p
  PROVE  Follow(p) = PathFrom(next, p) /\ Follow(p)' = PathFrom(next', p)
BY DEF Follow, PathFrom

(***************************************************************************)
(* A path goes along next_row from p, and stays at Null once it has met    *)
(* the end.                                                                *)
(***************************************************************************)
LEMMA PathSteps ==
  ASSUME NEW p \in Pointers, NEW nx \in [Slots -> Pointers]
  PROVE  /\ PathFrom(nx, p) \in [0..MaxSteps -> Pointers]
         /\ PathFrom(nx, p)[0] = p
         /\ \A n \in 1..MaxSteps :
               PathFrom(nx, p)[n] = IF PathFrom(nx, p)[n - 1] = Null THEN Null
                              ELSE nx[PathFrom(nx, p)[n - 1]]
<1> DEFINE step == [q \in Pointers |-> IF q = Null THEN Null ELSE nx[q]]
           At(pos, n) == IF n = 0 THEN p
                         ELSE IF pos[n - 1] = Null THEN Null
                         ELSE nx[pos[n - 1]]
           Is(pos) == pos = [n \in 0..MaxSteps |-> At(pos, n)]
           F == PathFrom(nx, p)
<1>0. MaxSteps \in Nat
  BY StepsBound
<1>1. step \in [Pointers -> Pointers]
  BY SlotFacts
<1>2. PICK f \in [0..MaxSteps -> Pointers] : Iterates(f, step, p, MaxSteps)
  <2> HIDE DEF step
  <2> QED BY <1>0, <1>1, Iteration
<1>3. \A n \in 1..MaxSteps :
         f[n] = (IF f[n - 1] = Null THEN Null ELSE nx[f[n - 1]])
  <2>1. ASSUME NEW n \in 1..MaxSteps
        PROVE  f[n] = IF f[n - 1] = Null THEN Null ELSE nx[f[n - 1]]
    <3>1. n - 1 \in 0..MaxSteps
      BY <1>0
    <3>2. f[n] = step[f[n - 1]] /\ f[n - 1] \in Pointers
      BY <3>1, <1>2 DEF Iterates
    <3> QED BY <3>2
  <2> QED BY <2>1
<1>4. Is(f)
  <2>1. \A n \in 0..MaxSteps : f[n] = At(f, n)
    BY <1>0, <1>2, <1>3 DEF Iterates
  <2> HIDE DEF At
  <2> QED BY <2>1
<1>5. Is(F)
  <2>1. F = CHOOSE pos : Is(pos)
    BY DEF PathFrom
  <2> HIDE DEF Is, F
  <2> QED BY <1>4, <2>1, Zenon
<1>6. \A n \in 0..MaxSteps : F[n] = At(F, n)
  <2> HIDE DEF At, F
  <2> QED BY <1>5
<1>7. F = f
  <2> DEFINE S == {n \in 0..MaxSteps : F[n] = f[n]}
  <2> HIDE DEF F
  <2>1. 0 \in S
    BY <1>0, <1>6, <1>2 DEF Iterates
  <2>2. ASSUME NEW n \in 0..MaxSteps, n \in S, n + 1 <= MaxSteps
        PROVE  n + 1 \in S
    <3>1. n + 1 \in 1..MaxSteps /\ n + 1 \in 0..MaxSteps /\ (n + 1) - 1 = n
      BY <1>0, <2>2
    <3>2. F[n + 1] = At(F, n + 1) /\ f[n + 1] = At(f, n + 1)
      BY <3>1, <1>6, <1>3
    <3> QED BY <3>1, <3>2, <2>2
  <2>3. 0..MaxSteps \subseteq S
    <3> HIDE DEF S
    <3> QED BY <1>0, <2>1, <2>2, BoundedInduction
  <2>4. F = [n \in 0..MaxSteps |-> F[n]]
    <3> HIDE DEF At
    <3> QED BY <1>5
  <2>5. f = [n \in 0..MaxSteps |-> f[n]]
    OBVIOUS
  <2> QED BY <2>3, <2>4, <2>5
<1>8. f[0] = p
  BY <1>2 DEF Iterates
<1> HIDE DEF F
<1> QED BY <1>3, <1>7, <1>8 DEF F

(***************************************************************************)
(* A list that stays in a set of slots and grows a rank.                   *)
(***************************************************************************)
Ranked(nx, p, C, r) ==
  /\ p \in C \cup {Null}
  /\ \A s \in C : nx[s] # Null => nx[s] \in C /\ r[s] < r[nx[s]]

LEMMA PathStays ==
  ASSUME NEW C \in SUBSET Slots, NEW r \in [Slots -> Int], NEW p,
         NEW nx \in [Slots -> Pointers], Ranked(nx, p, C, r)
  PROVE  /\ \A n \in 0..MaxSteps : PathFrom(nx, p)[n] \in C \cup {Null}
         /\ \A n \in 1..MaxSteps : PathFrom(nx, p)[n] # Null => PathFrom(nx, p)[n - 1] # Null
         /\ \A n \in 1..MaxSteps : PathFrom(nx, p)[n] # Null =>
               r[PathFrom(nx, p)[n - 1]] < r[PathFrom(nx, p)[n]]
<1> DEFINE F == PathFrom(nx, p)
<1>0. MaxSteps \in Nat /\ p \in Pointers
  BY StepsBound, SlotFacts DEF Ranked
<1>1. /\ F[0] = p
      /\ \A n \in 1..MaxSteps :
            F[n] = IF F[n - 1] = Null THEN Null ELSE nx[F[n - 1]]
  BY <1>0, PathSteps
<1> HIDE DEF F
<1>2. \A n \in 0..MaxSteps : F[n] \in C \cup {Null}
  <2> DEFINE S == {n \in 0..MaxSteps : F[n] \in C \cup {Null}}
  <2>1. 0 \in S
    BY <1>0, <1>1 DEF Ranked
  <2>2. ASSUME NEW n \in 0..MaxSteps, n \in S, n + 1 <= MaxSteps
        PROVE  n + 1 \in S
    <3>1. n + 1 \in 1..MaxSteps /\ n + 1 \in 0..MaxSteps /\ (n + 1) - 1 = n
      BY <1>0, <2>2
    <3>2. F[n + 1] = IF F[n] = Null THEN Null ELSE nx[F[n]]
      BY <1>1, <3>1
    <3> QED BY <3>1, <3>2, <2>2 DEF Ranked
  <2>3. 0..MaxSteps \subseteq S
    <3> HIDE DEF S
    <3> QED BY <1>0, <2>1, <2>2, BoundedInduction
  <2> QED BY <2>3
<1>3. ASSUME NEW n \in 1..MaxSteps, F[n] # Null
      PROVE  F[n - 1] # Null /\ r[F[n - 1]] < r[F[n]]
  <2>1. n - 1 \in 0..MaxSteps
    BY <1>0
  <2> QED BY <2>1, <1>1, <1>2, <1>3 DEF Ranked
<1> QED BY <1>2, <1>3 DEF F

LEMMA RankGrows ==
  ASSUME NEW C \in SUBSET Slots, NEW r \in [Slots -> Int], NEW p,
         NEW nx \in [Slots -> Pointers], Ranked(nx, p, C, r)
  PROVE  \A j \in 0..MaxSteps : PathFrom(nx, p)[j] # Null =>
            \A i \in 0..(j - 1) :
               PathFrom(nx, p)[i] # Null /\ r[PathFrom(nx, p)[i]] < r[PathFrom(nx, p)[j]]
<1> DEFINE F == PathFrom(nx, p)
           S == {j \in 0..MaxSteps : F[j] # Null =>
                   \A i \in 0..(j - 1) : F[i] # Null /\ r[F[i]] < r[F[j]]}
<1>0. MaxSteps \in Nat
  BY StepsBound
<1>1. /\ \A n \in 0..MaxSteps : F[n] \in C \cup {Null}
      /\ \A n \in 1..MaxSteps : F[n] # Null => F[n - 1] # Null
      /\ \A n \in 1..MaxSteps : F[n] # Null => r[F[n - 1]] < r[F[n]]
  BY PathStays
<1> HIDE DEF F
<1>2. 0 \in S
  BY <1>0
<1>3. ASSUME NEW n \in 0..MaxSteps, n \in S, n + 1 <= MaxSteps
      PROVE  n + 1 \in S
  <2>1. n + 1 \in 1..MaxSteps /\ n + 1 \in 0..MaxSteps /\ (n + 1) - 1 = n
    BY <1>0, <1>3
  <2>2. ASSUME F[n + 1] # Null, NEW i \in 0..n
        PROVE  F[i] # Null /\ r[F[i]] < r[F[n + 1]]
    <3>1. F[n] # Null /\ r[F[n]] < r[F[n + 1]]
      BY <1>1, <2>1, <2>2
    <3>2. F[n] \in Slots /\ F[n + 1] \in Slots
      BY <1>1, <2>1, <2>2, <3>1
    <3>3. CASE i = n
      BY <3>1, <3>3
    <3>4. CASE i # n
      <4>1. i \in 0..(n - 1) /\ i \in 0..MaxSteps
        BY <3>4, <1>0
      <4>2. F[i] # Null /\ r[F[i]] < r[F[n]]
        BY <4>1, <3>1, <1>3
      <4>3. F[i] \in Slots
        BY <4>1, <4>2, <1>1
      <4>4. r[F[i]] \in Int /\ r[F[n]] \in Int /\ r[F[n + 1]] \in Int
        BY <4>3, <3>2
      <4> QED BY <4>2, <4>4, <3>1
    <3> QED BY <3>3, <3>4
  <2> QED BY <2>1, <2>2
<1>4. 0..MaxSteps \subseteq S
  <2> HIDE DEF S
  <2> QED BY <1>0, <1>2, <1>3, BoundedInduction
<1> QED BY <1>4 DEF F

(***************************************************************************)
(* Such a list meets the end: MaxSteps + 1 rows of it would be one more    *)
(* than there are slots, and they would all have different ranks.          *)
(***************************************************************************)
LEMMA RankedListEnds ==
  ASSUME NEW C \in SUBSET Slots, NEW r \in [Slots -> Int], NEW p,
         NEW nx \in [Slots -> Pointers], Ranked(nx, p, C, r)
  PROVE  PathFrom(nx, p)[MaxSteps] = Null
<1> DEFINE F == PathFrom(nx, p)
<1>0. MaxSteps \in Nat
  BY StepsBound
<1>1. SUFFICES ASSUME F[MaxSteps] # Null PROVE FALSE
  OBVIOUS
<1>2. \A n \in 0..MaxSteps : F[n] \in C \cup {Null}
  BY PathStays
<1>3. \A j \in 0..MaxSteps : F[j] # Null =>
         \A i \in 0..(j - 1) : F[i] # Null /\ r[F[i]] < r[F[j]]
  BY RankGrows
<1>4. F \in [0..MaxSteps -> Pointers]
  BY PathSteps, SlotFacts DEF Ranked
<1> HIDE DEF F
<1>5. \A n \in 0..MaxSteps : F[n] \in Slots
  <2>1. ASSUME NEW n \in 0..MaxSteps PROVE F[n] # Null
    BY <1>0, <1>1, <1>3
  <2> QED BY <2>1, <1>2
<1>6. F \in [0..MaxSteps -> Slots]
  BY <1>4, <1>5
<1>7. PICK i, j \in 0..MaxSteps : i # j /\ F[i] = F[j]
  <2>1. IsFiniteSet(0..MaxSteps) /\ Cardinality(0..MaxSteps) = MaxSteps + 1
    BY <1>0, FS_Interval
  <2>2. IsFiniteSet(Slots) /\ Cardinality(Slots) < Cardinality(0..MaxSteps)
    BY <1>0, <2>1, StepsBound
  <2> QED BY <1>6, <2>1, <2>2, FS_PigeonHole
<1>8. r[F[i]] \in Int /\ F[i] # Null /\ F[j] # Null
  BY <1>5, <1>7, SlotFacts
<1>9. CASE i < j
  <2>1. r[F[i]] < r[F[j]]
    BY <1>0, <1>3, <1>8, <1>9
  <2> QED BY <2>1, <1>7, <1>8
<1>10. CASE j < i
  <2>1. r[F[j]] < r[F[i]]
    BY <1>0, <1>3, <1>8, <1>10
  <2> QED BY <2>1, <1>7, <1>8
<1> QED BY <1>7, <1>9, <1>10

(***************************************************************************)
(* The rows that a path meets, as a sequence; and what it is for a         *)
(* sequence to be them.                                                    *)
(***************************************************************************)
RowsFrom(nx, p) ==
  [i \in 1..Cardinality({n \in 0..MaxSteps : PathFrom(nx, p)[n] # Null}) |->
     PathFrom(nx, p)[i - 1]]

RowsOf(L) == {s \in Slots : \E i \in 1..Len(L) : L[i] = s}

IsList(nx, p, L) ==
  /\ p = IF Len(L) = 0 THEN Null ELSE L[1]
  /\ \A i \in 1..Len(L) : nx[L[i]] = IF i = Len(L) THEN Null ELSE L[i + 1]
  /\ \A i, j \in 1..Len(L) : L[i] = L[j] => i = j

(***************************************************************************)
(* Only one sequence is.                                                   *)
(***************************************************************************)
LEMMA PathOfList ==
  ASSUME NEW nx \in [Slots -> Pointers], NEW p, NEW L \in Seq(Slots),
         IsList(nx, p, L)
  PROVE  /\ Len(L) \in Nat /\ Len(L) <= MaxSteps
         /\ \A n \in 0..MaxSteps :
               PathFrom(nx, p)[n] = IF n < Len(L) THEN L[n + 1] ELSE Null
<1> DEFINE F == PathFrom(nx, p)
           S == {n \in 0..MaxSteps : F[n] = IF n < Len(L) THEN L[n + 1] ELSE Null}
<1>0. MaxSteps \in Nat /\ Len(L) \in Nat /\ L \in [1..Len(L) -> Slots]
  BY StepsBound
<1>1. Len(L) <= MaxSteps
  <2>1. IsFiniteSet(1..Len(L)) /\ Cardinality(1..Len(L)) = Len(L)
    BY <1>0, FS_Interval
  <2>2. SUFFICES ASSUME Len(L) > MaxSteps PROVE FALSE
    BY <1>0
  <2>3. \E i, j \in 1..Len(L) : i # j /\ L[i] = L[j]
    BY <1>0, <2>1, <2>2, StepsBound, FS_PigeonHole
  <2> QED BY <2>3 DEF IsList
<1>2. p \in Pointers /\ p = IF 0 < Len(L) THEN L[0 + 1] ELSE Null
  <2>1. p = IF Len(L) = 0 THEN Null ELSE L[1]
    BY DEF IsList
  <2>2. Len(L) # 0 => L[1] \in Slots
    BY <1>0
  <2> QED BY <1>0, <2>1, <2>2, SlotFacts
<1>3. /\ F[0] = p
      /\ \A n \in 1..MaxSteps :
            F[n] = IF F[n - 1] = Null THEN Null ELSE nx[F[n - 1]]
  BY <1>2, PathSteps
<1> HIDE DEF F
<1>4. 0 \in S
  BY <1>0, <1>2, <1>3
<1>5. ASSUME NEW n \in 0..MaxSteps, n \in S, n + 1 <= MaxSteps
      PROVE  n + 1 \in S
  <2>1. n + 1 \in 1..MaxSteps /\ n + 1 \in 0..MaxSteps /\ (n + 1) - 1 = n
    BY <1>0, <1>5
  <2>2. F[n + 1] = IF F[n] = Null THEN Null ELSE nx[F[n]]
    BY <1>3, <2>1
  <2>3. CASE n < Len(L)
    <3>1. n + 1 \in 1..Len(L) /\ F[n] = L[n + 1] /\ L[n + 1] \in Slots
      BY <1>0, <1>5, <2>3
    <3>2. nx[L[n + 1]] = IF n + 1 = Len(L) THEN Null ELSE L[(n + 1) + 1]
      BY <3>1 DEF IsList
    <3>3. F[n + 1] = nx[L[n + 1]]
      BY <2>2, <3>1, SlotFacts
    <3> QED BY <1>0, <2>1, <2>3, <3>2, <3>3
  <2>4. CASE ~(n < Len(L))
    BY <1>0, <1>5, <2>1, <2>2, <2>4
  <2> QED BY <2>3, <2>4
<1>6. 0..MaxSteps \subseteq S
  <2> HIDE DEF S
  <2> QED BY <1>0, <1>4, <1>5, BoundedInduction
<1> QED BY <1>0, <1>1, <1>6 DEF F

LEMMA ListIsUnique ==
  ASSUME NEW nx \in [Slots -> Pointers], NEW p, NEW L \in Seq(Slots),
         IsList(nx, p, L)
  PROVE  RowsFrom(nx, p) = L
<1> DEFINE F == PathFrom(nx, p)
           n == Len(L)
<1>1. /\ MaxSteps \in Nat /\ n \in Nat /\ n <= MaxSteps
      /\ L \in [1..n -> Slots]
      /\ \A k \in 0..MaxSteps : F[k] = IF k < n THEN L[k + 1] ELSE Null
  BY StepsBound, PathOfList
<1> HIDE DEF F, n
<1>2. {k \in 0..MaxSteps : F[k] # Null} = 0..(n - 1)
  <2>1. ASSUME NEW k \in 0..MaxSteps PROVE F[k] # Null <=> k < n
    <3>1. k < n => L[k + 1] \in Slots
      BY <1>1
    <3> QED BY <1>1, <3>1, SlotFacts
  <2> QED BY <1>1, <2>1
<1>3. Cardinality(0..(n - 1)) = n
  BY <1>1, FS_Interval
<1>4. RowsFrom(nx, p) = [i \in 1..n |-> F[i - 1]]
  BY <1>2, <1>3 DEF RowsFrom, F
<1>5. \A i \in 1..n : F[i - 1] = L[i]
  BY <1>1
<1> QED BY <1>1, <1>4, <1>5

(***************************************************************************)
(* The rows of a ranked list are such a sequence.                          *)
(***************************************************************************)
LEMMA RankedListRows ==
  ASSUME NEW C \in SUBSET Slots, NEW r \in [Slots -> Int], NEW p,
         NEW nx \in [Slots -> Pointers], Ranked(nx, p, C, r)
  PROVE  /\ RowsFrom(nx, p) \in Seq(Slots)
         /\ IsList(nx, p, RowsFrom(nx, p))
         /\ RowsOf(RowsFrom(nx, p)) \subseteq C
<1> DEFINE F == PathFrom(nx, p)
           T == {k \in 0..MaxSteps : F[k] = Null}
<1>0. MaxSteps \in Nat /\ p \in Pointers
  BY StepsBound, SlotFacts DEF Ranked
<1>1. /\ F \in [0..MaxSteps -> Pointers] /\ F[0] = p
      /\ \A k \in 1..MaxSteps :
            F[k] = IF F[k - 1] = Null THEN Null ELSE nx[F[k - 1]]
      /\ \A k \in 0..MaxSteps : F[k] \in C \cup {Null}
      /\ F[MaxSteps] = Null
  <2>1. /\ F \in [0..MaxSteps -> Pointers] /\ F[0] = p
        /\ \A k \in 1..MaxSteps :
              F[k] = IF F[k - 1] = Null THEN Null ELSE nx[F[k - 1]]
    BY <1>0, PathSteps
  <2>2. \A k \in 0..MaxSteps : F[k] \in C \cup {Null}
    BY PathStays
  <2>3. F[MaxSteps] = Null
    BY RankedListEnds
  <2> HIDE DEF F
  <2> QED BY <2>1, <2>2, <2>3
<1>2. \A j \in 0..MaxSteps : F[j] # Null =>
         \A i \in 0..(j - 1) : F[i] # Null /\ r[F[i]] < r[F[j]]
  BY RankGrows
<1> HIDE DEF F
<1>3. PICK n \in T : \A k \in T : n <= k
  <2>1. MaxSteps \in T /\ T \subseteq Nat
    BY <1>0, <1>1
  <2> HIDE DEF T
  <2> QED BY <2>1, SmallestIn
<1> DEFINE L == [i \in 1..n |-> F[i - 1]]
<1>4. \A k \in 0..(n - 1) : k \in 0..MaxSteps /\ F[k] # Null /\ F[k] \in C
  BY <1>0, <1>1, <1>3
<1>5. L \in Seq(Slots) /\ Len(L) = n /\ n \in Nat /\ n <= MaxSteps
  <2>1. n \in Nat /\ n <= MaxSteps
    BY <1>0, <1>3
  <2>2. \A i \in 1..n : F[i - 1] \in Slots
    BY <1>4, <2>1
  <2> QED BY <2>1, <2>2
<1>6. \A i \in 1..n : L[i] = F[i - 1] /\ L[i] \in C
  BY <1>4, <1>5
<1> HIDE DEF L
<1>7. IsList(nx, p, L)
  <2>1. p = IF n = 0 THEN Null ELSE L[1]
    BY <1>1, <1>3, <1>5, <1>6
  <2>2. ASSUME NEW i \in 1..n
        PROVE  nx[L[i]] = IF i = n THEN Null ELSE L[i + 1]
    <3>1. i \in 1..MaxSteps /\ i - 1 \in 0..(n - 1)
      BY <1>0, <1>5
    <3>2. F[i] = nx[F[i - 1]]
      BY <1>1, <1>4, <3>1
    <3>3. F[n] = Null
      BY <1>3
    <3>4. i # n => i + 1 \in 1..n /\ L[i + 1] = F[i]
      BY <1>5, <1>6
    <3> QED BY <1>6, <3>2, <3>3, <3>4
  <2>3. ASSUME NEW i \in 1..n, NEW j \in 1..n, L[i] = L[j], i < j PROVE FALSE
    <3>1. j - 1 \in 0..MaxSteps /\ i - 1 \in 0..((j - 1) - 1) /\ i - 1 \in 0..MaxSteps
      BY <1>0, <1>5, <2>3
    <3>2. F[j - 1] # Null /\ F[i - 1] = F[j - 1] /\ F[j - 1] \in Slots
      BY <1>4, <1>5, <1>6, <2>3, <3>1
    <3>3. r[F[i - 1]] < r[F[j - 1]] /\ r[F[j - 1]] \in Int
      BY <1>2, <3>1, <3>2
    <3> QED BY <3>2, <3>3
  <2>4. ASSUME NEW i \in 1..n, NEW j \in 1..n, L[i] = L[j] PROVE i = j
    <3>1. ~(i < j) /\ ~(j < i)
      BY <2>3, <2>4
    <3> QED BY <3>1, <1>5
  <2> QED BY <1>5, <2>1, <2>2, <2>4 DEF IsList
<1>8. RowsFrom(nx, p) = L
  BY <1>5, <1>7, ListIsUnique
<1>9. RowsOf(L) \subseteq C
  BY <1>5, <1>6 DEF RowsOf
<1> QED BY <1>5, <1>7, <1>8, <1>9

LEMMA ListIsRanked ==
  ASSUME NEW p, NEW C, NEW r, ListFrom(p, C, r) PROVE Ranked(next, p, C, r)
BY DEF ListFrom, Ranked

\* Both headers reach a ranked list.
LEMMA InvListsEnd == Inv => ListsEnd
<1> SUFFICES ASSUME Inv PROVE ListsEnd
  OBVIOUS
<1>1. next \in [Slots -> Pointers]
  BY DEF Inv, TypeOK
<1>2. Ends(hdr.first)
  BY <1>1, RankedListEnds, ListIsRanked, FollowIsPath DEF Inv, Shape, Ends
<1>3. Ends(disk.first)
  BY <1>1, RankedListEnds, ListIsRanked, DiskList, FollowIsPath DEF Ends
<1> QED BY <1>2, <1>3 DEF ListsEnd

(***************************************************************************)
(* An iteration always ends, from the header in memory and from the header *)
(* in the file, whatever was interrupted and however often.                *)
(***************************************************************************)
THEOREM IterationsEnd == Spec => []ListsEnd
<1> QED BY InvIsInvariant, InvListsEnd, PTL
LEMMA ChainSetIsRows ==
  ASSUME NEW p, NEW L \in Seq(Slots), next \in [Slots -> Pointers],
         IsList(next, p, L)
  PROVE  ChainSet(p) = RowsOf(L)
<1>1. /\ MaxSteps \in Nat /\ Len(L) \in Nat /\ Len(L) <= MaxSteps
      /\ \A n \in 0..MaxSteps :
            Follow(p)[n] = IF n < Len(L) THEN L[n + 1] ELSE Null
  BY PathOfList, StepsBound, FollowIsPath
<1>2. ChainSet(p) = {s \in Slots : \E n \in 0..MaxSteps : Follow(p)[n] = s}
  BY DEF ChainSet
<1>3. ASSUME NEW s \in Slots, NEW n \in 0..MaxSteps, Follow(p)[n] = s
      PROVE  \E i \in 1..Len(L) : L[i] = s
  <2>1. n < Len(L)
    BY <1>1, <1>3, SlotFacts
  <2>2. n + 1 \in 1..Len(L) /\ L[n + 1] = s
    BY <1>1, <1>3, <2>1
  <2> QED BY <2>2
<1>4. ASSUME NEW s \in Slots, NEW i \in 1..Len(L), L[i] = s
      PROVE  \E n \in 0..MaxSteps : Follow(p)[n] = s
  <2>1. i - 1 \in 0..MaxSteps /\ i - 1 < Len(L) /\ (i - 1) + 1 = i
    BY <1>1
  <2> QED BY <1>1, <1>4, <2>1
<1> QED BY <1>2, <1>3, <1>4 DEF RowsOf

(***************************************************************************)
(* A row in front of a list.                                               *)
(***************************************************************************)
LEMMA ListWithNewFirst ==
  ASSUME NEW nx \in [Slots -> Pointers], NEW p, NEW L \in Seq(Slots),
         IsList(nx, p, L), NEW s \in Slots \ RowsOf(L), nx[s] = p
  PROVE  \E M \in Seq(Slots) : IsList(nx, s, M) /\ RowsOf(M) = RowsOf(L) \cup {s}
<1> DEFINE n == Len(L)
           M == [i \in 1..(n + 1) |-> IF i = 1 THEN s ELSE L[i - 1]]
<1>1. n \in Nat /\ L \in [1..n -> Slots]
  OBVIOUS
<1>2. /\ p = IF n = 0 THEN Null ELSE L[1]
      /\ \A i \in 1..n : nx[L[i]] = IF i = n THEN Null ELSE L[i + 1]
      /\ \A i, j \in 1..n : L[i] = L[j] => i = j
      /\ \A i \in 1..n : L[i] # s
  BY DEF IsList, RowsOf
<1> HIDE DEF n
<1>3. M \in Seq(Slots) /\ Len(M) = n + 1
  BY <1>1
<1>4. /\ M[1] = s
      /\ \A i \in 2..(n + 1) : M[i] = L[i - 1] /\ i - 1 \in 1..n
      /\ \A i \in 1..(n + 1) : i = 1 \/ i \in 2..(n + 1)
  BY <1>1
<1>5. \A i \in 1..n : M[i + 1] = L[i] /\ i + 1 \in 2..(n + 1)
  BY <1>1
<1> HIDE DEF M
<1>6. IsList(nx, s, M)
  <2>1. ASSUME NEW i \in 1..(n + 1)
        PROVE  nx[M[i]] = IF i = n + 1 THEN Null ELSE M[i + 1]
    <3>1. CASE i = 1
      BY <1>1, <1>2, <1>4, <1>5, <3>1
    <3>2. CASE i \in 2..(n + 1)
      <4>1. M[i] = L[i - 1] /\ i - 1 \in 1..n
        BY <1>4, <3>2
      <4>2. i # n + 1 => M[i + 1] = L[i] /\ (i - 1) + 1 = i
        BY <1>1, <1>5, <3>2
      <4> QED BY <1>1, <1>2, <4>1, <4>2
    <3> QED BY <1>4, <3>1, <3>2
  <2>2. ASSUME NEW i \in 1..(n + 1), NEW j \in 1..(n + 1), M[i] = M[j]
        PROVE  i = j
    BY <1>1, <1>2, <1>4, <2>2
  <2>3. s = IF n + 1 = 0 THEN Null ELSE M[1]
    BY <1>1, <1>4
  <2> QED BY <1>3, <2>1, <2>2, <2>3 DEF IsList
<1>7. RowsOf(M) = RowsOf(L) \cup {s}
  <2>1. ASSUME NEW t \in Slots
        PROVE  (\E i \in 1..(n + 1) : M[i] = t) <=> (t = s \/ \E i \in 1..n : L[i] = t)
    <3>1. ASSUME NEW i \in 1..(n + 1), M[i] = t
          PROVE  t = s \/ \E k \in 1..n : L[k] = t
      BY <1>4, <3>1
    <3>2. ASSUME NEW i \in 1..n, L[i] = t
          PROVE  \E k \in 1..(n + 1) : M[k] = t
      BY <1>1, <1>5, <3>2
    <3>3. 1 \in 1..(n + 1) /\ M[1] = s
      BY <1>1, <1>4
    <3> QED BY <3>1, <3>2, <3>3
  <2> QED BY <2>1, <1>3 DEF RowsOf, n
<1> QED BY <1>3, <1>6, <1>7

(***************************************************************************)
(* In any state the list in the file differs from the one in memory by at  *)
(* most the row that insert or remove is working on; a crash puts the one  *)
(* in the place of the other.                                              *)
(***************************************************************************)
LEMMA ListsDifferByOneRow ==
  ASSUME Inv
  PROVE  /\ ChainSet(hdr.first) \subseteq ChainSet(disk.first) \cup {slot}
         /\ ChainSet(disk.first) \subseteq ChainSet(hdr.first) \cup {slot}
<1>0. TypeOK /\ Control /\ next \in [Slots -> Pointers]
  BY DEF Inv, TypeOK
<1>. PICK C \in SUBSET Slots, r \in [Slots -> Int] :
            ListFrom(hdr.first, C, r) /\ Place(C, r)
  BY DEF Inv, Shape
<1>1. PICK L \in Seq(Slots) : IsList(next, hdr.first, L) /\ RowsOf(L) \subseteq C
  BY <1>0, ListIsRanked, RankedListRows
<1>2. ChainSet(hdr.first) = RowsOf(L)
  BY <1>0, <1>1, ChainSetIsRows
<1>3. CASE disk.first = hdr.first
  BY <1>3
<1>4. CASE disk.first # hdr.first /\ job.kind = "insert"
  <2>1. disk.first = Null /\ hdr.first = slot /\ next[slot] = Null /\ slot \in Slots
    BY <1>0, <1>4 DEF Place, Settled, SameEnds, Control, DiskLagsInsert, TypeOK, Places
  <2>2. <<>> \in Seq(Slots) /\ IsList(next, Null, <<>>) /\ RowsOf(<<>>) = {}
    BY DEF IsList, RowsOf
  <2>3. ChainSet(disk.first) = {}
    BY <1>0, <2>1, <2>2, ChainSetIsRows
  <2>4. <<slot>> \in Seq(Slots) /\ IsList(next, slot, <<slot>>) /\ RowsOf(<<slot>>) = {slot}
    BY <2>1 DEF IsList, RowsOf
  <2>5. ChainSet(hdr.first) = {slot}
    BY <1>0, <2>1, <2>4, ChainSetIsRows
  <2> QED BY <2>3, <2>5
<1>5. CASE disk.first # hdr.first /\ job.kind # "insert"
  <2>1. at \in {"uncount", "flush"} /\ job.kind = "delete"
    BY <1>0, <1>5 DEF Place, Settled, SameEnds, Control, TypeOK, Places
  <2>2. AfterUnlink(C, r) /\ disk.first = slot /\ slotPrev = Null
    BY <1>5, <2>1 DEF Place, DiskLagsRemove
  <2>3. slot \in Slots \ RowsOf(L) /\ next[slot] = hdr.first
    BY <1>1, <2>2 DEF AfterUnlink
  <2>4. PICK M \in Seq(Slots) :
           IsList(next, slot, M) /\ RowsOf(M) = RowsOf(L) \cup {slot}
    BY <1>0, <1>1, <2>3, ListWithNewFirst
  <2>5. ChainSet(disk.first) = RowsOf(L) \cup {slot}
    BY <1>0, <2>2, <2>4, ChainSetIsRows
  <2> QED BY <1>2, <2>5
<1> QED BY <1>3, <1>4, <1>5

(***************************************************************************)
(* A crash anywhere in insert, remove or an iteration changes the list of  *)
(* rows by at most the one row whose insert or remove it interrupts.       *)
(***************************************************************************)
THEOREM CrashesTouchOneRow == Spec => CrashTouchesOneRow
<1>1. Inv /\ [Next]_vars =>
        [Crash =>
           LET before == ChainSet(hdr.first)
               after == ChainSet(disk.first)
           IN (before \ after) \cup (after \ before) \subseteq {slot}]_vars
  BY ListsDifferByOneRow
<1> QED BY <1>1, InvIsInvariant, PTL DEF Spec, CrashTouchesOneRow

-----------------------------------------------------------------------------
(***************************************************************************)
(* Without crashes.  The set C of Inv may hold more than the list.  While  *)
(* nothing was interrupted the slots in use are the rows of the list and   *)
(* at most the row that insert has not linked yet or remove has unlinked   *)
(* already; last_row_ptr is the last row but while a row is counted; and   *)
(* the counters lag behind by that row.                                    *)
(***************************************************************************)
LastOf(L) == IF Len(L) = 0 THEN Null ELSE L[Len(L)]

Removing == at = "mark" \/ (at = "flush" /\ job.kind = "delete")
Unlisted == IF at \in {"link", "uncount"} \/ Removing THEN {slot} ELSE {}
Uncounted == IF at \in {"link", "count"} \/ Removing THEN {slot} ELSE {}

HeaderBook ==
  /\ at \notin {"count", "flush", "uncount"} => disk = hdr
  /\ at \notin {"count", "uncount"} => hdr.last = LastOf(Chain)
  /\ at = "count" => LastOf(Chain) = slot
  /\ at = "uncount" => LastOf(Chain) = IF next[slot] = Null THEN slotPrev ELSE hdr.last

CountBook ==
  hdr.count = IF at = "count" THEN Len(Chain) - 1
              ELSE IF at = "uncount" THEN Len(Chain) + 1
              ELSE Len(Chain)

UsedBook ==
  /\ {s \in Slots : used[s]} = RowsOf(Chain) \cup Unlisted
  /\ at = "write" => ~used[slot]

CountedIn(b) == {s \in Slots : used[s] /\ s[1] = b /\ s \notin Uncounted}
BlockBook == \A b \in Blocks : rowsInBlock[b] = Cardinality(CountedIn(b))

DataBook ==
  /\ at = "link" => slot \notin stale
  /\ RowsOf(Chain) \cap stale \subseteq IF at \in {"unlink", "put", "lost"} THEN {slot} ELSE {}

-----------------------------------------------------------------------------
(***************************************************************************)
(* The list before a step and after it.                                    *)
(***************************************************************************)
LEMMA ChainIsList ==
  ASSUME Inv
  PROVE  /\ Chain \in Seq(Slots) /\ Len(Chain) \in Nat /\ Len(Chain) <= MaxSteps
         /\ Chain \in [1..Len(Chain) -> Slots]
         /\ IsList(next, hdr.first, Chain)
         /\ ChainSet(hdr.first) = RowsOf(Chain)
         /\ \E C \in SUBSET Slots, r \in [Slots -> Int] :
               ListFrom(hdr.first, C, r) /\ Place(C, r) /\ RowsOf(Chain) \subseteq C
<1>1. next \in [Slots -> Pointers]
  BY DEF Inv, TypeOK
<1>. PICK C \in SUBSET Slots, r \in [Slots -> Int] :
            ListFrom(hdr.first, C, r) /\ Place(C, r)
  BY DEF Inv, Shape
<1>2. Chain = RowsFrom(next, hdr.first)
  BY DEF Chain, RowsFrom, Steps, Follow, PathFrom
<1>3. Ranked(next, hdr.first, C, r)
  BY ListIsRanked
<1>4. /\ Chain \in Seq(Slots) /\ IsList(next, hdr.first, Chain)
      /\ RowsOf(Chain) \subseteq C
  BY <1>1, <1>2, <1>3, RankedListRows
<1>5. Len(Chain) \in Nat /\ Len(Chain) <= MaxSteps
  BY <1>1, <1>4, PathOfList
<1>6. ChainSet(hdr.first) = RowsOf(Chain)
  BY <1>1, <1>4, ChainSetIsRows
<1> QED BY <1>4, <1>5, <1>6

LEMMA ChainAfter ==
  ASSUME next' \in [Slots -> Pointers], NEW L \in Seq(Slots),
         IsList(next', hdr'.first, L)
  PROVE  Chain' = L
<1>1. Chain' = RowsFrom(next', hdr'.first)
  BY DEF Chain, RowsFrom, Steps, Follow, PathFrom
<1> QED BY <1>1, ListIsUnique

LEMMA ChainKept ==
  ASSUME Inv, next' \in [Slots -> Pointers], hdr'.first = hdr.first,
         \A s \in RowsOf(Chain) : next'[s] = next[s]
  PROVE  Chain' = Chain
<1>1. /\ Chain \in Seq(Slots) /\ IsList(next, hdr.first, Chain)
      /\ Chain \in [1..Len(Chain) -> Slots]
  BY ChainIsList
<1>2. \A i \in 1..Len(Chain) : Chain[i] \in RowsOf(Chain)
  BY <1>1 DEF RowsOf
<1>3. IsList(next', hdr'.first, Chain)
  BY <1>1, <1>2 DEF IsList
<1> QED BY <1>1, <1>3, ChainAfter

\* The steps that change the list: InsertLink, RemoveUnlink and Crash.
LEMMA OtherStepsKeepChain ==
  ASSUME Inv, [Next]_vars, ~InsertLink, ~RemoveUnlink, ~Crash
  PROVE  Chain' = Chain
<1>1. next' \in [Slots -> Pointers]
  BY TypeStep DEF TypeOK
<1>2. CASE InsertWrite
  <2>1. slot \notin RowsOf(Chain)
    BY <1>2, ChainIsList DEF InsertWrite, Place
  <2>2. \A s \in RowsOf(Chain) : next'[s] = next[s]
    BY <1>2, <2>1 DEF InsertWrite, Inv, TypeOK, RowsOf
  <2> QED BY <1>1, <1>2, <2>2, ChainKept DEF InsertWrite
<1>3. CASE next' = next /\ hdr'.first = hdr.first
  BY <1>1, <1>3, ChainKept
<1>4. CASE InsertCount \/ RemoveCount
  BY <1>3, <1>4 DEF InsertCount, RemoveCount, rowFields, Inv, TypeOK, Header
<1> QED
  BY <1>2, <1>3, <1>4 DEF Next, StartInsert, InsertFails, FlushHeader, StartDelete,
     StartUpdate, StartPass, FetchToDelete, FetchToUpdate, EndPass, FreeData,
     RemoveMark, UpdatePut, UpdatePutAfterRemap, vars, file, rowFields

(***************************************************************************)
(* InsertLink puts the new row behind the last one.                        *)
(***************************************************************************)
LEMMA RowsOfAppend ==
  ASSUME NEW L \in Seq(Slots), NEW s \in Slots
  PROVE  /\ Append(L, s) \in Seq(Slots) /\ Len(Append(L, s)) = Len(L) + 1
         /\ Len(L) \in Nat
         /\ \A i \in 1..Len(L) : Append(L, s)[i] = L[i]
         /\ Append(L, s)[Len(L) + 1] = s
         /\ RowsOf(Append(L, s)) = RowsOf(L) \cup {s}
         /\ LastOf(Append(L, s)) = s
<1>1. /\ Append(L, s) \in Seq(Slots) /\ Len(Append(L, s)) = Len(L) + 1
      /\ Len(L) \in Nat
      /\ \A i \in 1..Len(L) : Append(L, s)[i] = L[i]
      /\ Append(L, s)[Len(L) + 1] = s
  OBVIOUS
<1>2. ASSUME NEW t \in Slots
      PROVE  (\E i \in 1..(Len(L) + 1) : Append(L, s)[i] = t)
                <=> (t = s \/ \E i \in 1..Len(L) : L[i] = t)
  <2>1. \A i \in 1..(Len(L) + 1) : i \in 1..Len(L) \/ i = Len(L) + 1
    BY <1>1
  <2>2. Len(L) + 1 \in 1..(Len(L) + 1) /\ \A i \in 1..Len(L) : i \in 1..(Len(L) + 1)
    BY <1>1
  <2> QED BY <1>1, <2>1, <2>2
<1>3. LastOf(Append(L, s)) = s
  BY <1>1 DEF LastOf
<1> QED BY <1>1, <1>2, <1>3 DEF RowsOf

LEMMA LinkAppends ==
  ASSUME Inv, HeaderBook, InsertLink
  PROVE  /\ Chain' = Append(Chain, slot)
         /\ slot \in Slots \ RowsOf(Chain)
<1> DEFINE n == Len(Chain)
           M == Append(Chain, slot)
<1>1. /\ Chain \in Seq(Slots) /\ n \in Nat /\ Chain \in [1..n -> Slots]
      /\ IsList(next, hdr.first, Chain)
      /\ next \in [Slots -> Pointers] /\ hdr \in Header
  BY ChainIsList DEF Inv, TypeOK
<1>2. at = "link" /\ slot \in Slots \ RowsOf(Chain) /\ next[slot] = Null
  BY ChainIsList DEF InsertLink, Place
<1>3. /\ M \in Seq(Slots) /\ Len(M) = n + 1
      /\ \A i \in 1..n : M[i] = Chain[i]
      /\ M[n + 1] = slot
  BY <1>1, <1>2, RowsOfAppend
<1>4. hdr.last = IF n = 0 THEN Null ELSE Chain[n]
  BY <1>2 DEF HeaderBook, LastOf
<1>5. next' \in [Slots -> Pointers]
  BY TypeStep DEF TypeOK, Next
<1>6. /\ hdr.first = IF n = 0 THEN Null ELSE Chain[1]
      /\ \A i \in 1..n : next[Chain[i]] = IF i = n THEN Null ELSE Chain[i + 1]
      /\ \A i, j \in 1..n : Chain[i] = Chain[j] => i = j
      /\ \A i \in 1..n : Chain[i] # slot
  BY <1>1, <1>2 DEF IsList, RowsOf
<1> HIDE DEF n, M
<1>7. IsList(next', hdr'.first, M)
  <2>1. CASE n = 0
    <3>1. hdr'.first = slot /\ next' = next
      BY <1>1, <1>4, <2>1 DEF InsertLink, Header
    <3> QED BY <1>2, <1>3, <2>1, <3>1 DEF IsList
  <2>2. CASE n # 0
    <3>1. Chain[n] \in Slots /\ hdr.last = Chain[n] /\ hdr.last # Null
      BY <1>1, <1>4, <2>2, SlotFacts
    <3>2. hdr' = hdr /\ next' = [next EXCEPT ![Chain[n]] = slot]
      BY <3>1 DEF InsertLink
    <3>3. ASSUME NEW i \in 1..(n + 1)
          PROVE  next'[M[i]] = IF i = n + 1 THEN Null ELSE M[i + 1]
      <4>1. CASE i = n + 1
        BY <1>1, <1>2, <1>3, <1>6, <2>2, <3>2, <4>1
      <4>2. CASE i = n
        BY <1>1, <1>3, <2>2, <3>1, <3>2, <4>2
      <4>3. CASE i \in 1..n /\ i # n
        <5>1. i + 1 \in 1..n /\ n \in 1..n /\ Chain[i] # Chain[n] /\ Chain[i] \in Slots
          BY <1>1, <1>6, <4>3
        <5> QED BY <1>1, <1>3, <1>6, <3>2, <4>3, <5>1
      <4> QED BY <1>1, <4>1, <4>2, <4>3
    <3>4. ASSUME NEW i \in 1..(n + 1), NEW j \in 1..(n + 1), M[i] = M[j]
          PROVE  i = j
      BY <1>1, <1>3, <1>6, <3>4
    <3>5. hdr'.first = IF n + 1 = 0 THEN Null ELSE M[1]
      BY <1>1, <1>3, <1>6, <2>2, <3>2
    <3> QED BY <1>3, <3>3, <3>4, <3>5 DEF IsList
  <2> QED BY <2>1, <2>2
<1>8. Chain' = M
  BY <1>3, <1>5, <1>7, ChainAfter
<1> QED BY <1>2, <1>8 DEF M

(***************************************************************************)
(* RemoveUnlink takes one row out of the list.                             *)
(***************************************************************************)
Without(L, k) == [i \in 1..(Len(L) - 1) |-> IF i < k THEN L[i] ELSE L[i + 1]]

LEMMA WithoutRow ==
  ASSUME NEW L \in Seq(Slots), NEW k \in 1..Len(L),
         \A i, j \in 1..Len(L) : L[i] = L[j] => i = j
  PROVE  /\ Without(L, k) \in Seq(Slots) /\ Len(L) \in Nat
         /\ Len(Without(L, k)) = Len(L) - 1
         /\ \A i \in 1..(Len(L) - 1) :
               Without(L, k)[i] = IF i < k THEN L[i] ELSE L[i + 1]
         /\ RowsOf(Without(L, k)) = RowsOf(L) \ {L[k]}
         /\ LastOf(Without(L, k)) =
               IF k < Len(L) THEN LastOf(L) ELSE IF k = 1 THEN Null ELSE L[k - 1]
<1> DEFINE n == Len(L)
           W == Without(L, k)
<1>1. n \in Nat /\ L \in [1..n -> Slots]
  OBVIOUS
<1>2. \A i \in 1..(n - 1) : L[i] \in Slots /\ L[i + 1] \in Slots
  <2> HIDE DEF n
  <2> QED BY <1>1
<1>3. /\ W \in [1..(n - 1) -> Slots] /\ n - 1 \in Nat
      /\ \A i \in 1..(n - 1) : W[i] = IF i < k THEN L[i] ELSE L[i + 1]
  BY <1>1, <1>2 DEF Without
<1> HIDE DEF W
<1>4. W \in Seq(Slots) /\ Len(W) = n - 1
  <2> HIDE DEF n
  <2> QED BY <1>3
<1> HIDE DEF n
<1>5. \A i, j \in 1..n : L[i] = L[j] => i = j
  BY DEF n
<1>6. k \in 1..n
  BY DEF n
<1>7. ASSUME NEW t \in Slots
      PROVE  (\E i \in 1..(n - 1) : W[i] = t) <=> (t # L[k] /\ \E i \in 1..n : L[i] = t)
  <2>1. ASSUME NEW i \in 1..(n - 1), W[i] = t
        PROVE  t # L[k] /\ \E j \in 1..n : L[j] = t
    <3>1. i \in 1..n /\ i + 1 \in 1..n
      BY <1>1
    <3>2. CASE i < k
      BY <1>3, <1>5, <1>6, <2>1, <3>1, <3>2
    <3>3. CASE ~(i < k)
      <4>1. W[i] = L[i + 1] /\ i + 1 # k
        BY <1>3, <1>6, <3>3
      <4> QED BY <1>5, <1>6, <2>1, <3>1, <4>1
    <3> QED BY <3>2, <3>3
  <2>2. ASSUME NEW j \in 1..n, L[j] = t, t # L[k]
        PROVE  \E i \in 1..(n - 1) : W[i] = t
    <3>1. CASE j < k
      <4>1. j \in 1..(n - 1)
        BY <1>1, <1>6, <3>1
      <4> QED BY <1>3, <2>2, <3>1, <4>1
    <3>2. CASE j > k
      <4>1. j - 1 \in 1..(n - 1) /\ ~(j - 1 < k) /\ (j - 1) + 1 = j
        BY <1>1, <1>6, <3>2
      <4>2. W[j - 1] = L[j]
        BY <1>3, <4>1
      <4> QED BY <2>2, <4>1, <4>2
    <3> QED BY <1>6, <2>2, <3>1, <3>2
  <2> QED BY <2>1, <2>2
<1>8. RowsOf(W) = RowsOf(L) \ {L[k]}
  BY <1>4, <1>7 DEF RowsOf, n
<1>9. LastOf(W) = IF k < n THEN LastOf(L) ELSE IF k = 1 THEN Null ELSE L[k - 1]
  <2>1. LastOf(W) = IF n - 1 = 0 THEN Null ELSE W[n - 1]
    BY <1>4 DEF LastOf
  <2>2. LastOf(L) = IF n = 0 THEN Null ELSE L[n]
    BY DEF LastOf, n
  <2>3. CASE k < n
    <3>1. n - 1 \in 1..(n - 1) /\ ~(n - 1 < k) /\ (n - 1) + 1 = n
      BY <1>1, <1>6, <2>3
    <3> QED BY <1>1, <1>3, <2>1, <2>2, <2>3, <3>1
  <2>4. CASE k = n
    <3>1. CASE k = 1
      BY <2>1, <2>4, <3>1
    <3>2. CASE k # 1
      <4>1. n - 1 \in 1..(n - 1) /\ n - 1 < k /\ n - 1 # 0
        BY <1>1, <1>6, <2>4, <3>2
      <4> QED BY <1>3, <2>1, <2>4, <3>2, <4>1
    <3> QED BY <3>1, <3>2
  <2> QED BY <1>1, <1>6, <2>3, <2>4
<1> QED BY <1>1, <1>3, <1>4, <1>8, <1>9 DEF W, n

LEMMA UnlinkRemoves ==
  ASSUME Inv, UsedBook, RemoveUnlink
  PROVE  \E k \in 1..Len(Chain) :
            /\ Chain[k] = slot
            /\ slotPrev = IF k = 1 THEN Null ELSE Chain[k - 1]
            /\ Chain' = Without(Chain, k)
            /\ next'[slot] = next[slot]
            /\ next[slot] = IF k = Len(Chain) THEN Null ELSE Chain[k + 1]
<1> DEFINE n == Len(Chain)
<1>1. /\ Chain \in Seq(Slots) /\ n \in Nat /\ Chain \in [1..n -> Slots]
      /\ IsList(next, hdr.first, Chain)
      /\ next \in [Slots -> Pointers] /\ hdr \in Header
  BY ChainIsList DEF Inv, TypeOK
<1>2. PICK C \in SUBSET Slots, r \in [Slots -> Int] :
             ListFrom(hdr.first, C, r) /\ Place(C, r)
  BY DEF Inv, Shape
<1>3. at = "unlink" /\ job.kind = "delete" /\ BeforeUnlink(C)
  BY <1>2 DEF RemoveUnlink, Inv, Control, Place
<1>4. \A s \in C : \E i \in 1..n : Chain[i] = s
  BY <1>2, <1>3 DEF UsedBook, Unlisted, Removing, ListFrom, RowsOf
<1>5. /\ hdr.first = IF n = 0 THEN Null ELSE Chain[1]
      /\ \A i \in 1..n : next[Chain[i]] = IF i = n THEN Null ELSE Chain[i + 1]
      /\ \A i, j \in 1..n : Chain[i] = Chain[j] => i = j
  BY <1>1 DEF IsList
<1> HIDE DEF n
<1>6. PICK k \in 1..n : Chain[k] = slot
  BY <1>3, <1>4 DEF BeforeUnlink
<1>7. slotPrev = IF k = 1 THEN Null ELSE Chain[k - 1]
  <2>1. CASE slotPrev = Null
    <3>1. n # 0 /\ Chain[1] = slot
      BY <1>3, <1>5, <2>1 DEF BeforeUnlink
    <3>2. 1 \in 1..n
      BY <1>1, <3>1
    <3> QED BY <1>5, <1>6, <2>1, <3>1, <3>2
  <2>2. CASE slotPrev # Null
    <3>1. slotPrev \in C /\ next[slotPrev] = slot
      BY <1>3, <2>2 DEF BeforeUnlink
    <3>2. PICK m \in 1..n : Chain[m] = slotPrev
      BY <1>4, <3>1
    <3>3. m # n /\ Chain[m + 1] = slot
      BY <1>3, <1>5, <3>1, <3>2, SlotFacts DEF BeforeUnlink
    <3>4. m + 1 \in 1..n /\ (m + 1) - 1 = m /\ m + 1 # 1
      BY <1>1, <3>2, <3>3
    <3>5. k = m + 1
      BY <1>5, <1>6, <3>3, <3>4
    <3> QED BY <3>2, <3>4, <3>5
  <2> QED BY <2>1, <2>2
<1>8. next[slot] = IF k = n THEN Null ELSE Chain[k + 1]
  BY <1>5, <1>6
<1> DEFINE W == Without(Chain, k)
<1>9. /\ W \in Seq(Slots) /\ Len(W) = n - 1
      /\ \A i \in 1..(n - 1) : W[i] = IF i < k THEN Chain[i] ELSE Chain[i + 1]
  BY <1>1, <1>5, <1>6, WithoutRow DEF n
<1>10. next' \in [Slots -> Pointers]
  BY TypeStep DEF TypeOK, Next
<1>11. /\ \A i \in 1..n : Chain[i] \in Slots
       /\ slot \in Slots
  BY <1>1, <1>6
<1> HIDE DEF W
<1>12. /\ hdr'.first = IF k = 1 THEN next[slot] ELSE hdr.first
       /\ \A i \in 1..n : next'[Chain[i]] = IF i = k - 1 THEN next[slot] ELSE next[Chain[i]]
  <2>1. CASE k = 1
    <3>1. hdr'.first = next[slot] /\ next' = next
      BY <1>1, <1>7, <2>1 DEF RemoveUnlink, Header
    <3> QED BY <2>1, <3>1
  <2>2. CASE k # 1
    <3>1. k - 1 \in 1..n /\ slotPrev = Chain[k - 1] /\ slotPrev # Null
      BY <1>1, <1>6, <1>7, <1>11, <2>2, SlotFacts
    <3>2. hdr' = hdr /\ next' = [next EXCEPT ![Chain[k - 1]] = next[slot]]
      BY <3>1 DEF RemoveUnlink
    <3>3. ASSUME NEW i \in 1..n
          PROVE  next'[Chain[i]] = IF i = k - 1 THEN next[slot] ELSE next[Chain[i]]
      BY <1>1, <1>5, <1>11, <3>1, <3>2
    <3> QED BY <2>2, <3>2, <3>3
  <2> QED BY <2>1, <2>2
<1>13. IsList(next', hdr'.first, W)
  <2>1. ASSUME NEW i \in 1..(n - 1)
        PROVE  next'[W[i]] = IF i = n - 1 THEN Null ELSE W[i + 1]
    <3>1. i \in 1..n /\ i + 1 \in 1..n /\ (i # n - 1 => i + 1 \in 1..(n - 1) /\ i + 2 \in 1..n /\ (i + 1) + 1 = i + 2)
      BY <1>1
    <3>2. CASE i < k - 1
      <4>1. W[i] = Chain[i] /\ i # k - 1 /\ i # n /\ i # n - 1 /\ i + 1 < k
        BY <1>1, <1>6, <1>9, <3>2
      <4>2. W[i + 1] = Chain[i + 1]
        BY <1>9, <3>1, <4>1
      <4> QED BY <1>5, <1>12, <3>1, <4>1, <4>2
    <3>3. CASE i = k - 1
      <4>1. W[i] = Chain[i] /\ next'[Chain[i]] = next[slot] /\ i + 1 = k
        BY <1>1, <1>6, <1>9, <1>12, <3>1, <3>3
      <4>2. i # n - 1 => W[i + 1] = Chain[k + 1]
        BY <1>1, <1>6, <1>9, <3>1, <4>1
      <4>3. i = n - 1 <=> k = n
        BY <1>1, <1>6, <4>1
      <4> QED BY <1>8, <4>1, <4>2, <4>3
    <3>4. CASE i >= k
      <4>1. W[i] = Chain[i + 1] /\ i + 1 # k - 1
        BY <1>1, <1>6, <1>9, <3>4
      <4>2. next'[Chain[i + 1]] = IF i + 1 = n THEN Null ELSE Chain[(i + 1) + 1]
        BY <1>5, <1>12, <3>1, <4>1
      <4>3. i # n - 1 => W[i + 1] = Chain[(i + 1) + 1]
        BY <1>1, <1>6, <1>9, <3>1, <3>4
      <4>4. i = n - 1 <=> i + 1 = n
        BY <1>1
      <4> QED BY <4>1, <4>2, <4>3, <4>4
    <3>5. i < k - 1 \/ i = k - 1 \/ i >= k
      BY <1>1, <1>6
    <3> QED BY <3>2, <3>3, <3>4, <3>5
  <2>2. ASSUME NEW i \in 1..(n - 1), NEW j \in 1..(n - 1), W[i] = W[j]
        PROVE  i = j
    <3>1. i \in 1..n /\ i + 1 \in 1..n /\ j \in 1..n /\ j + 1 \in 1..n
      BY <1>1
    <3>2. CASE i < k /\ j < k
      <4>1. Chain[i] = Chain[j]
        BY <1>9, <2>2, <3>2
      <4> QED BY <1>5, <3>1, <4>1
    <3>3. CASE i < k /\ ~(j < k)
      <4>1. Chain[i] = Chain[j + 1]
        BY <1>9, <2>2, <3>3
      <4> QED BY <1>5, <1>6, <3>1, <3>3, <4>1
    <3>4. CASE ~(i < k) /\ j < k
      <4>1. Chain[i + 1] = Chain[j]
        BY <1>9, <2>2, <3>4
      <4> QED BY <1>5, <1>6, <3>1, <3>4, <4>1
    <3>5. CASE ~(i < k) /\ ~(j < k)
      <4>1. Chain[i + 1] = Chain[j + 1]
        BY <1>9, <2>2, <3>5
      <4>2. i + 1 = j + 1
        BY <1>5, <3>1, <4>1
      <4> QED BY <4>2
    <3> QED BY <3>2, <3>3, <3>4, <3>5
  <2>3. hdr'.first = IF n - 1 = 0 THEN Null ELSE W[1]
    BY <1>1, <1>5, <1>6, <1>8, <1>9, <1>12
  <2> QED BY <1>9, <2>1, <2>2, <2>3 DEF IsList
<1>14. Chain' = W
  BY <1>9, <1>10, <1>13, ChainAfter
<1>15. next'[slot] = next[slot]
  BY <1>1, <1>6, <1>12
<1> QED BY <1>6, <1>7, <1>8, <1>14, <1>15 DEF n, W

-----------------------------------------------------------------------------
(***************************************************************************)
(* The books are kept by every step but a crash.                           *)
(***************************************************************************)
LEMMA HeaderBookStep ==
  ASSUME Inv, HeaderBook, UsedBook, [Next]_vars, ~Crash
  PROVE  HeaderBook'
<1>0. TypeOK /\ Control
  BY DEF Inv
<1>1. CASE InsertLink
  <2>1. Chain' = Append(Chain, slot) /\ slot \in Slots
    BY <1>1, LinkAppends
  <2>2. Chain \in Seq(Slots)
    BY ChainIsList
  <2>3. LastOf(Append(Chain, slot)) = slot
    BY <2>1, <2>2, RowsOfAppend
  <2>4. LastOf(Chain)' = slot
    BY <2>1, <2>3
  <2> QED BY <1>1, <2>4 DEF InsertLink, HeaderBook
<1>2. CASE RemoveUnlink
  <2>1. PICK k \in 1..Len(Chain) :
            /\ Chain[k] = slot
            /\ slotPrev = IF k = 1 THEN Null ELSE Chain[k - 1]
            /\ Chain' = Without(Chain, k)
            /\ next'[slot] = next[slot]
            /\ next[slot] = IF k = Len(Chain) THEN Null ELSE Chain[k + 1]
    BY <1>2, UnlinkRemoves
  <2>2. LastOf(Chain)' = IF k < Len(Chain) THEN LastOf(Chain) ELSE slotPrev
    BY <2>1, ChainIsList, WithoutRow DEF IsList
  <2>3. next[slot] = Null <=> ~(k < Len(Chain))
    <3>1. k < Len(Chain) => k + 1 \in 1..Len(Chain) /\ k # Len(Chain)
      <4>1. Len(Chain) \in Nat
        BY ChainIsList
      <4> QED BY <4>1
    <3>2. k < Len(Chain) => Chain[k + 1] \in Slots
      BY <3>1, ChainIsList
    <3> QED BY <2>1, <3>1, <3>2, ChainIsList, SlotFacts
  <2>4. hdr'.last = hdr.last /\ LastOf(Chain) = hdr.last
    BY <1>0, <1>2 DEF RemoveUnlink, HeaderBook, TypeOK, Header
  <2> QED BY <1>2, <2>1, <2>2, <2>3, <2>4 DEF RemoveUnlink, HeaderBook
<1>3. CASE ~InsertLink /\ ~RemoveUnlink
  <2>1. LastOf(Chain)' = LastOf(Chain)
    BY <1>3, OtherStepsKeepChain
  <2>2. CASE InsertCount \/ RemoveCount
    <3>1. hdr'.last = LastOf(Chain) /\ at' = "flush"
      <4>1. hdr \in Header
        BY <1>0 DEF TypeOK
      <4>2. CASE InsertCount
        <5>1. LastOf(Chain) = slot
          BY <4>2 DEF InsertCount, HeaderBook
        <5> QED BY <4>1, <4>2, <5>1 DEF InsertCount, Header
      <4>3. CASE RemoveCount
        <5>1. LastOf(Chain) = IF next[slot] = Null THEN slotPrev ELSE hdr.last
          BY <4>3 DEF RemoveCount, HeaderBook
        <5> QED BY <4>1, <4>3, <5>1 DEF RemoveCount, Header
      <4> QED BY <2>2, <4>2, <4>3
    <3> QED BY <2>1, <3>1 DEF HeaderBook
  <2>3. CASE FlushHeader
    BY <2>1, <2>3 DEF FlushHeader, HeaderBook
  <2>4. CASE UNCHANGED vars
    BY <2>1, <2>4 DEF vars, file, HeaderBook
  <2>5. CASE /\ hdr' = hdr /\ disk' = disk
             /\ at \notin {"count", "flush", "uncount"}
             /\ at' \notin {"count", "flush", "uncount"}
    BY <2>1, <2>5 DEF HeaderBook
  <2> QED
    BY <1>3, <2>2, <2>3, <2>4, <2>5 DEF Next, StartInsert, InsertWrite,
       InsertFails, StartDelete, StartUpdate, StartPass, FetchToDelete,
       FetchToUpdate, EndPass, FreeData, RemoveMark, UpdatePut,
       UpdatePutAfterRemap, file
<1> QED BY <1>1, <1>2, <1>3

\* The place of a new row is free: not even an empty header hides a row there.
LEMMA PlaceIsFree ==
  ASSUME Inv, UsedBook, NEW r \in Rows, NEW zero \in SUBSET HeapSlots,
         StartInsert(r, zero)
  PROVE  ~used'[slot']
<1>1. CASE hdr.last = Null
  <2>1. hdr.first = Null /\ Unlisted = {}
    BY <1>1 DEF StartInsert, Inv, Shape, Place, FirstNull, Settled, Unlisted, Removing
  <2>2. RowsOf(Chain) = {}
    <3>1. Len(Chain) = 0 \/ Chain[1] = Null
      BY <2>1, ChainIsList DEF IsList
    <3>2. Len(Chain) # 0 => Chain[1] \in Slots
      BY ChainIsList
    <3>3. Len(Chain) = 0
      BY <3>1, <3>2, SlotFacts
    <3> QED BY <3>3 DEF RowsOf
  <2> QED BY <1>1, <2>1, <2>2, SlotFacts DEF UsedBook, StartInsert, PlaceFor, rowFields
<1>2. CASE hdr.last # Null /\ LooksFree(zero) # {}
  BY <1>2 DEF StartInsert, PlaceFor, LooksFree, rowFields
<1>3. CASE NewBlock("Table") /\ slot' = <<blockCount + 1, 1>>
  BY <1>3, NewBlockFacts DEF StartInsert, rowFields, Inv, UsedInFile, TypeOK
<1> QED BY <1>1, <1>2, <1>3 DEF StartInsert, PlaceFor

LEMMA UsedBookStep ==
  ASSUME Inv, HeaderBook, UsedBook, [Next]_vars, ~Crash
  PROVE  UsedBook'
<1>0. TypeOK /\ Control
  BY DEF Inv
<1>1. CASE InsertLink
  <2>1. RowsOf(Chain)' = RowsOf(Chain) \cup {slot}
    BY <1>1, LinkAppends, ChainIsList, RowsOfAppend
  <2> QED BY <1>1, <2>1 DEF InsertLink, UsedBook, Unlisted, Removing
<1>2. CASE RemoveUnlink
  <2>1. PICK k \in 1..Len(Chain) : Chain[k] = slot /\ Chain' = Without(Chain, k)
    BY <1>2, UnlinkRemoves
  <2>2. RowsOf(Chain)' = RowsOf(Chain) \ {slot} /\ slot \in RowsOf(Chain)
    <3>1. RowsOf(Chain)' = RowsOf(Chain) \ {slot}
      BY <2>1, ChainIsList, WithoutRow DEF IsList
    <3>2. slot \in Slots
      BY <2>1, ChainIsList
    <3> QED BY <2>1, <3>1, <3>2 DEF RowsOf
  <2> QED BY <1>2, <2>2 DEF RemoveUnlink, UsedBook, Unlisted, Removing
<1>3. CASE ~InsertLink /\ ~RemoveUnlink
  <2>1. RowsOf(Chain)' = RowsOf(Chain)
    BY <1>3, OtherStepsKeepChain
  <2>2. ASSUME NEW r \in Rows, NEW zero \in SUBSET HeapSlots, StartInsert(r, zero)
        PROVE  UsedBook'
    <3>1. ~used'[slot']
      BY <2>2, PlaceIsFree
    <3> QED BY <2>1, <2>2, <3>1 DEF StartInsert, UsedBook, Unlisted, Removing, rowFields
  <2>3. CASE InsertWrite
    <3>1. \A s \in Slots : used'[s] <=> (used[s] \/ s = slot)
      BY <1>0, <2>3 DEF InsertWrite, TypeOK
    <3>2. slot \in Slots
      BY <2>3 DEF InsertWrite, Inv, Shape, Place
    <3> QED BY <2>1, <2>3, <3>1, <3>2 DEF InsertWrite, UsedBook, Unlisted, Removing
  <2>4. CASE RemoveMark
    <3>1. \A s \in Slots : used'[s] <=> (used[s] /\ s # slot)
      BY <1>0, <2>4 DEF RemoveMark, TypeOK
    <3>2. slot \notin RowsOf(Chain)
      BY <2>4, ChainIsList DEF RemoveMark, Place, AfterUnlink
    <3> QED BY <2>1, <2>4, <3>1, <3>2 DEF RemoveMark, UsedBook, Unlisted, Removing
  <2>5. CASE /\ used' = used /\ at' # "write"
             /\ Unlisted' = Unlisted
    BY <2>1, <2>5 DEF UsedBook
  <2>6. CASE InsertCount \/ RemoveCount \/ FlushHeader
    BY <1>0, <2>5, <2>6 DEF InsertCount, RemoveCount, FlushHeader, rowFields,
       Control, Unlisted, Removing, NoJob
  <2>7. CASE UNCHANGED vars
    BY <2>1, <2>7 DEF vars, file, UsedBook, Unlisted, Removing
  <2>8. CASE /\ used' = used
             /\ at \in {"idle", "write", "next", "free", "put"}
             /\ at' \in {"idle", "next", "free", "unlink", "put", "lost", "corrupt"}
    BY <2>1, <2>8 DEF UsedBook, Unlisted, Removing
  <2> QED
    BY <1>3, <2>2, <2>3, <2>4, <2>6, <2>7, <2>8 DEF Next,
       InsertFails, StartDelete, StartUpdate, StartPass, FetchToDelete,
       FetchToUpdate, EndPass, FreeData, UpdatePut, UpdatePutAfterRemap, file
<1> QED BY <1>1, <1>2, <1>3

\* The counters do not wrap: a row fits into the file, and into a block.
LEMMA CountersFit ==
  ASSUME NEW M \in Nat, NEW n \in Nat, n < M
  PROVE  /\ n % M = n
         /\ (n + M) % M = n
OBVIOUS

LEMMA CountBookStep ==
  ASSUME Inv, HeaderBook, UsedBook, CountBook, [Next]_vars, ~Crash,
         CountMod > MaxSteps
  PROVE  CountBook'
<1>0. /\ TypeOK /\ Control /\ hdr \in Header /\ CountMod \in Nat
      /\ Len(Chain) \in Nat /\ Len(Chain) <= MaxSteps /\ MaxSteps \in Nat
  BY ChainIsList, TableAssumption, StepsBound DEF Inv, TypeOK
<1>1. CASE InsertLink
  <2>1. Len(Chain)' = Len(Chain) + 1
    BY <1>1, LinkAppends, ChainIsList, RowsOfAppend
  <2>2. hdr'.count = hdr.count
    BY <1>0, <1>1 DEF InsertLink, Header
  <2> QED BY <1>0, <1>1, <2>1, <2>2 DEF InsertLink, CountBook
<1>2. CASE RemoveUnlink
  <2>1. PICK k \in 1..Len(Chain) : Chain' = Without(Chain, k)
    BY <1>2, UnlinkRemoves
  <2>2. Len(Chain)' = Len(Chain) - 1
    BY <2>1, ChainIsList, WithoutRow DEF IsList
  <2>3. hdr'.count = hdr.count
    BY <1>0, <1>2 DEF RemoveUnlink, Header
  <2> QED BY <1>0, <1>2, <2>2, <2>3 DEF RemoveUnlink, CountBook
<1>3. CASE ~InsertLink /\ ~RemoveUnlink
  <2>1. Len(Chain)' = Len(Chain)
    BY <1>3, OtherStepsKeepChain
  <2>2. CASE InsertCount
    <3>1. hdr.count + 1 = Len(Chain)
      BY <1>0, <2>2 DEF InsertCount, CountBook
    <3>2. hdr'.count = (hdr.count + 1) % CountMod
      BY <1>0, <2>2 DEF InsertCount, Header
    <3>3. hdr'.count = Len(Chain)
      BY <1>0, <3>1, <3>2, CountersFit
    <3> QED BY <2>1, <2>2, <3>3 DEF InsertCount, CountBook
  <2>3. CASE RemoveCount
    <3>1. hdr.count = Len(Chain) + 1
      BY <1>0, <2>3 DEF RemoveCount, CountBook
    <3>2. hdr'.count = (hdr.count + CountMod - 1) % CountMod
      BY <1>0, <2>3 DEF RemoveCount, Header
    <3>3. hdr.count + CountMod - 1 = Len(Chain) + CountMod
      BY <1>0, <3>1
    <3>4. hdr'.count = Len(Chain)
      BY <1>0, <3>2, <3>3, CountersFit
    <3> QED BY <2>1, <2>3, <3>4 DEF RemoveCount, CountBook
  <2>4. CASE UNCHANGED vars
    BY <2>1, <2>4 DEF vars, CountBook
  <2>5. CASE hdr' = hdr /\ at \notin {"count", "uncount"} /\ at' \notin {"count", "uncount"}
    BY <2>1, <2>5 DEF CountBook
  <2> QED
    BY <1>3, <2>2, <2>3, <2>4, <2>5 DEF Next, StartInsert, InsertWrite,
       InsertFails, FlushHeader, StartDelete, StartUpdate, StartPass,
       FetchToDelete, FetchToUpdate, EndPass, FreeData, RemoveMark, UpdatePut,
       UpdatePutAfterRemap, file
<1> QED BY <1>1, <1>2, <1>3

LEMMA BlockHolds ==
  ASSUME NEW b \in Blocks, NEW T \in SUBSET {s \in Slots : s[1] = b}
  PROVE  /\ IsFiniteSet(T) /\ Cardinality(T) \in Nat
         /\ Cardinality(T) <= RowsPerBlock
<1>1. IsFiniteSet(1..RowsPerBlock) /\ Cardinality(1..RowsPerBlock) = RowsPerBlock
  BY FS_Interval, TableAssumption
<1>2. IsFiniteSet({b}) /\ Cardinality({b}) = 1
  BY FS_Singleton
<1>3. IsFiniteSet({b} \X (1..RowsPerBlock))
      /\ Cardinality({b} \X (1..RowsPerBlock))
           = Cardinality({b}) * Cardinality(1..RowsPerBlock)
  BY <1>1, <1>2, FS_Product
<1>4. T \subseteq {b} \X (1..RowsPerBlock)
  BY DEF Slots
<1>5. RowsPerBlock \in Nat
  BY TableAssumption
<1>6. Cardinality({b} \X (1..RowsPerBlock)) = RowsPerBlock
  BY <1>1, <1>2, <1>3, <1>5
<1>7. IsFiniteSet(T) /\ Cardinality(T) <= Cardinality({b} \X (1..RowsPerBlock))
  BY <1>3, <1>4, FS_Subset
<1> QED BY <1>6, <1>7, FS_CardinalityType

\* One row of a block more, or one less.
LEMMA OneRowMore ==
  ASSUME NEW b \in Blocks, NEW S \in SUBSET {s \in Slots : s[1] = b},
         NEW t \in Slots \ S, t[1] = b
  PROVE  /\ (Cardinality(S) + 1) % BlockCountMod = Cardinality(S \cup {t})
         /\ (Cardinality(S \cup {t}) + BlockCountMod - 1) % BlockCountMod = Cardinality(S)
<1>1. S \cup {t} \in SUBSET {s \in Slots : s[1] = b}
  OBVIOUS
<1>2. /\ IsFiniteSet(S) /\ Cardinality(S) \in Nat
      /\ Cardinality(S) <= RowsPerBlock
  BY BlockHolds
<1>3. /\ Cardinality(S \cup {t}) \in Nat
      /\ Cardinality(S \cup {t}) <= RowsPerBlock
  BY <1>1, BlockHolds
<1>4. Cardinality(S \cup {t}) = Cardinality(S) + 1
  BY <1>2, FS_AddElement
<1>5. BlockCountMod \in Nat /\ RowsPerBlock \in Nat /\ BlockCountMod > RowsPerBlock
  BY TableAssumption
<1> DEFINE c == Cardinality(S)
           d == Cardinality(S \cup {t})
<1>6. c \in Nat /\ d \in Nat /\ d = c + 1 /\ c < BlockCountMod /\ d < BlockCountMod
  BY <1>2, <1>3, <1>4, <1>5
<1> HIDE DEF c, d
<1>7. (c + 1) % BlockCountMod = d
  BY <1>5, <1>6, CountersFit
<1>8. d + BlockCountMod - 1 = c + BlockCountMod
  BY <1>5, <1>6
<1>9. (c + BlockCountMod) % BlockCountMod = c
  BY <1>5, <1>6, CountersFit
<1>10. (d + BlockCountMod - 1) % BlockCountMod = c
  BY <1>8, <1>9
<1> QED BY <1>7, <1>10 DEF c, d

LEMMA BlockBookStep ==
  ASSUME Inv, HeaderBook, UsedBook, BlockBook, [Next]_vars, ~Crash
  PROVE  BlockBook'
<1>0. TypeOK /\ Control
  BY DEF Inv
<1>1. CASE InsertCount
  <2>1. slot \in Slots /\ used[slot] /\ slot[1] \in Blocks
    <3>1. LastOf(Chain) = slot /\ slot \in Slots
      BY <1>0, <1>1 DEF InsertCount, HeaderBook, Place, Inv, Shape, Control
    <3>2. Len(Chain) \in 1..Len(Chain) /\ Chain[Len(Chain)] = slot
      <4>1. Len(Chain) # 0 /\ Chain[Len(Chain)] = slot
        BY <3>1, SlotFacts DEF LastOf
      <4>2. Len(Chain) \in Nat
        BY ChainIsList
      <4> QED BY <4>1, <4>2
    <3>3. slot \in RowsOf(Chain)
      BY <3>1, <3>2 DEF RowsOf
    <3> QED BY <3>1, <3>3, SlotFacts DEF UsedBook
  <2>2. Uncounted = {slot} /\ Uncounted' = {} /\ used' = used
    BY <1>0, <1>1 DEF InsertCount, rowFields, Control, Uncounted, Removing
  <2>3. ASSUME NEW b \in Blocks
        PROVE  rowsInBlock'[b] = Cardinality(CountedIn(b))'
    <3>1. CountedIn(b)' = IF slot[1] = b THEN CountedIn(b) \cup {slot} ELSE CountedIn(b)
      BY <2>1, <2>2 DEF CountedIn
    <3>2. rowsInBlock'[b] = IF slot[1] = b THEN (rowsInBlock[b] + 1) % BlockCountMod
                            ELSE rowsInBlock[b]
      BY <1>0, <1>1, <2>1 DEF InsertCount, TypeOK
    <3>3. slot[1] = b => (Cardinality(CountedIn(b)) + 1) % BlockCountMod
                           = Cardinality(CountedIn(b) \cup {slot})
      <4>1. /\ CountedIn(b) \in SUBSET {s \in Slots : s[1] = b}
            /\ slot \in Slots \ CountedIn(b)
        BY <2>1, <2>2 DEF CountedIn
      <4> QED BY <4>1, OneRowMore
    <3> QED BY <3>1, <3>2, <3>3 DEF BlockBook
  <2> QED BY <2>3 DEF BlockBook
<1>2. CASE RemoveCount
  <2>1. slot \in Slots /\ used[slot] /\ slot[1] \in Blocks
    BY <1>0, <1>2, SlotFacts DEF RemoveCount, Place, AfterUnlink, Inv, Shape, Control
  <2>2. Uncounted = {} /\ Uncounted' = {slot} /\ used' = used
    BY <1>0, <1>2 DEF RemoveCount, rowFields, Control, Uncounted, Removing
  <2>3. ASSUME NEW b \in Blocks
        PROVE  rowsInBlock'[b] = Cardinality(CountedIn(b))'
    <3>1. CountedIn(b) = IF slot[1] = b THEN CountedIn(b)' \cup {slot} ELSE CountedIn(b)'
      BY <2>1, <2>2 DEF CountedIn
    <3>2. rowsInBlock'[b] = IF slot[1] = b THEN (rowsInBlock[b] + BlockCountMod - 1) % BlockCountMod
                            ELSE rowsInBlock[b]
      BY <1>0, <1>2, <2>1 DEF RemoveCount, TypeOK
    <3>3. slot[1] = b => (Cardinality(CountedIn(b)' \cup {slot}) + BlockCountMod - 1) % BlockCountMod
                           = Cardinality(CountedIn(b)')
      <4>1. /\ CountedIn(b)' \in SUBSET {s \in Slots : s[1] = b}
            /\ slot \in Slots \ CountedIn(b)'
        BY <2>1, <2>2 DEF CountedIn
      <4> QED BY <4>1, OneRowMore
    <3> QED BY <3>1, <3>2, <3>3 DEF BlockBook
  <2> QED BY <2>3 DEF BlockBook
<1>3. CASE rowsInBlock' = rowsInBlock /\ \A s \in Slots :
              (used'[s] /\ s \notin Uncounted') <=> (used[s] /\ s \notin Uncounted)
  <2>1. \A b \in Blocks : CountedIn(b)' = CountedIn(b)
    BY <1>3 DEF CountedIn
  <2> QED BY <1>3, <2>1 DEF BlockBook
<1>4. CASE InsertWrite
  <2>1. slot \in Slots /\ ~used[slot]
    BY <1>4 DEF InsertWrite, Inv, Shape, Place, UsedBook
  <2> QED BY <1>0, <1>3, <1>4, <2>1 DEF InsertWrite, Uncounted, Removing, TypeOK
<1>5. CASE InsertLink \/ RemoveUnlink \/ FlushHeader
  BY <1>0, <1>3, <1>5 DEF InsertLink, RemoveUnlink, FlushHeader, rowFields,
     Control, Uncounted, Removing, NoJob
<1>6. CASE RemoveMark
  BY <1>0, <1>3, <1>6 DEF RemoveMark, Uncounted, Removing, TypeOK
<1>7. CASE UNCHANGED vars
  BY <1>3, <1>7 DEF vars, file, Uncounted, Removing
<1>8. CASE /\ rowsInBlock' = rowsInBlock /\ used' = used
           /\ at \in {"idle", "write", "next", "free", "put"}
           /\ at' \in {"idle", "write", "next", "free", "unlink", "put", "lost", "corrupt"}
  BY <1>3, <1>8 DEF Uncounted, Removing
<1> QED
  BY <1>1, <1>2, <1>4, <1>5, <1>6, <1>7, <1>8 DEF Next, StartInsert, InsertFails,
     StartDelete, StartUpdate, StartPass, FetchToDelete, FetchToUpdate, EndPass,
     FreeData, UpdatePut, UpdatePutAfterRemap, file, rowFields

LEMMA DataBookStep ==
  ASSUME Inv, HeaderBook, UsedBook, DataBook, [Next]_vars, ~Crash
  PROVE  DataBook'
<1>0. TypeOK /\ Control
  BY DEF Inv
<1>1. CASE InsertLink
  <2>1. RowsOf(Chain)' = RowsOf(Chain) \cup {slot}
    BY <1>1, LinkAppends, ChainIsList, RowsOfAppend
  <2> QED BY <1>1, <2>1 DEF InsertLink, DataBook
<1>2. CASE RemoveUnlink
  <2>1. PICK k \in 1..Len(Chain) : Chain[k] = slot /\ Chain' = Without(Chain, k)
    BY <1>2, UnlinkRemoves
  <2>2. RowsOf(Chain)' = RowsOf(Chain) \ {slot}
    BY <2>1, ChainIsList, WithoutRow DEF IsList
  <2> QED BY <1>2, <2>2 DEF RemoveUnlink, DataBook
<1>3. CASE ~InsertLink /\ ~RemoveUnlink
  <2>1. RowsOf(Chain)' = RowsOf(Chain)
    BY <1>3, OtherStepsKeepChain
  <2>2. CASE InsertWrite
    BY <2>1, <2>2 DEF InsertWrite, DataBook
  <2>3. CASE FreeData
    BY <1>0, <2>1, <2>3 DEF FreeData, DataBook, Control
  <2>4. CASE UpdatePut
    BY <2>1, <2>4 DEF UpdatePut, DataBook
  <2>5. CASE UpdatePutAfterRemap
    BY <2>1, <2>5 DEF UpdatePutAfterRemap, DataBook
  <2>6. CASE UNCHANGED vars
    BY <2>1, <2>6 DEF vars, file, DataBook
  <2>7. CASE /\ stale' = stale /\ at \notin {"unlink", "put", "lost"}
             /\ at' \notin {"unlink", "put", "lost", "link"}
    BY <2>1, <2>7 DEF DataBook
  <2> QED
    BY <1>0, <1>3, <2>2, <2>3, <2>4, <2>5, <2>6, <2>7 DEF Next, StartInsert,
       InsertFails, InsertCount, FlushHeader, RemoveCount, RemoveMark,
       StartDelete, StartUpdate, StartPass, FetchToDelete, FetchToUpdate,
       EndPass, file, rowFields
<1> QED BY <1>1, <1>2, <1>3

Books == HeaderBook /\ UsedBook /\ BlockBook /\ DataBook

LEMMA BooksAtStart == Init => Books /\ CountBook /\ Chain = <<>>
<1>. SUFFICES ASSUME Init PROVE Books /\ CountBook /\ Chain = <<>>
  OBVIOUS
<1>1. Chain = <<>>
  <2>1. next \in [Slots -> Pointers]
    BY InitInv DEF Inv, TypeOK
  <2>2. <<>> \in Seq(Slots) /\ IsList(next, hdr.first, <<>>)
    BY DEF Init, IsList
  <2>3. Chain = RowsFrom(next, hdr.first)
    BY DEF Chain, RowsFrom, Steps, Follow, PathFrom
  <2> QED BY <2>1, <2>2, <2>3, ListIsUnique
<1>2. Len(Chain) = 0 /\ LastOf(Chain) = Null /\ RowsOf(Chain) = {}
  BY <1>1 DEF LastOf, RowsOf
<1>3. BlockBook
  <2>1. ASSUME NEW b \in Blocks
        PROVE  rowsInBlock[b] = Cardinality(CountedIn(b))
    <3>1. CountedIn(b) = {}
      BY DEF CountedIn, Init
    <3> QED BY <3>1, FS_EmptySet DEF Init
  <2> QED BY <2>1 DEF BlockBook
<1>4. HeaderBook /\ UsedBook /\ DataBook /\ CountBook
  BY <1>2 DEF Init, HeaderBook, UsedBook, DataBook, CountBook, Unlisted, Removing
<1> QED BY <1>1, <1>3, <1>4 DEF Books

(***************************************************************************)
(* While no crash has happened, and no write went into a mapping that is   *)
(* gone (UpdatePutAfterRemap): between operations row_count, first_row_ptr *)
(* and last_row_ptr, in memory and in the file, are those of the list; a   *)
(* slot is in use exactly when its row is in the list, rows_in_block       *)
(* counts the used slots of each block; and every row has its strings.     *)
(* That row_count does not wrap is an assumption: 2^64 is more than the    *)
(* slots of a file whose block numbers have 32 bits.                       *)
(***************************************************************************)
THEOREM FileIsConsistent ==
  ASSUME CountMod > MaxSteps
  PROVE  Spec => [](crashes = 0 /\ at # "lost" => FileAccountsForRows)
<1> DEFINE Kept == crashes = 0 => Books /\ CountBook
<1>1. Init => Kept
  BY BooksAtStart
<1>2. Inv /\ Kept /\ [Next]_vars => Kept'
  <2>. SUFFICES ASSUME Inv, Kept, [Next]_vars, crashes' = 0 PROVE (Books /\ CountBook)'
    OBVIOUS
  <2>1. crashes \in Nat /\ MaxCrashes \in Nat
    BY TableAssumption DEF Inv, TypeOK
  <2>2. ~Crash
    BY <2>1 DEF Crash
  <2>3. crashes' = crashes
    BY <2>2 DEF Next, StartInsert, InsertWrite, InsertFails, InsertLink, InsertCount,
       FlushHeader, StartDelete, StartUpdate, StartPass, FetchToDelete, FetchToUpdate,
       EndPass, FreeData, RemoveUnlink, RemoveCount, RemoveMark, UpdatePut,
       UpdatePutAfterRemap, vars
  <2>4. Books /\ CountBook
    BY <2>3
  <2> QED
    BY <2>2, <2>4, HeaderBookStep, UsedBookStep, CountBookStep, BlockBookStep,
       DataBookStep DEF Books
<1>3. Inv /\ Kept => (crashes = 0 /\ at # "lost" => FileAccountsForRows)
  <2>. SUFFICES ASSUME Inv, Books, CountBook, at # "lost" PROVE FileAccountsForRows
    OBVIOUS
  <2>1. HeaderMatchesList
    <3>. SUFFICES ASSUME at = "idle"
                  PROVE  /\ Ends(hdr.first) /\ hdr.count = Len(Chain) /\ disk = hdr
                         /\ hdr.last = IF Chain = <<>> THEN Null ELSE Chain[Len(Chain)]
      BY DEF HeaderMatchesList
    <3>1. Ends(hdr.first)
      BY InvListsEnd DEF ListsEnd
    <3>2. hdr.count = Len(Chain) /\ disk = hdr /\ hdr.last = LastOf(Chain)
      BY DEF Books, HeaderBook, CountBook
    <3>3. Chain = <<>> <=> Len(Chain) = 0
      BY ChainIsList
    <3> QED BY <3>1, <3>2, <3>3 DEF LastOf
  <2>2. SlotsAccountedFor
    <3>. SUFFICES ASSUME at = "idle"
                  PROVE  /\ {s \in Slots : used[s]} = ChainSet(hdr.first)
                         /\ \A b \in Blocks : rowsInBlock[b] =
                               Cardinality({s \in Slots : s[1] = b /\ used[s]})
      BY DEF SlotsAccountedFor
    <3>1. {s \in Slots : used[s]} = ChainSet(hdr.first)
      BY ChainIsList DEF Books, UsedBook, Unlisted, Removing
    <3>2. ASSUME NEW b \in Blocks
          PROVE  CountedIn(b) = {s \in Slots : s[1] = b /\ used[s]}
      BY DEF CountedIn, Uncounted, Removing
    <3> QED BY <3>1, <3>2 DEF Books, BlockBook
  <2>3. RowsHaveTheirData
    BY ChainIsList DEF Books, DataBook, RowsHaveTheirData
  <2> QED BY <2>1, <2>2, <2>3 DEF FileAccountsForRows
<1> QED BY <1>1, <1>2, <1>3, InvIsInvariant, PTL DEF Spec

-----------------------------------------------------------------------------
(***************************************************************************)
(* The refinement of RowList.                                              *)
(***************************************************************************)
ValuesAt(C, values) == [i \in DOMAIN C |-> values[C[i]]]

LEMMA ValuesFacts ==
  ASSUME NEW C \in Seq(Slots), NEW values \in [Slots -> Rows]
  PROVE  /\ ValuesAt(C, values) \in Seq(Rows)
         /\ Len(ValuesAt(C, values)) = Len(C) /\ Len(C) \in Nat
         /\ DOMAIN ValuesAt(C, values) = 1..Len(C)
         /\ \A i \in 1..Len(C) : /\ ValuesAt(C, values)[i] = values[C[i]]
                                  /\ C[i] \in Slots /\ values[C[i]] \in Rows
<1> DEFINE n == Len(C)
<1>1. n \in Nat /\ C \in [1..n -> Slots] /\ DOMAIN C = 1..n
  OBVIOUS
<1>2. ValuesAt(C, values) = [i \in 1..n |-> values[C[i]]]
  BY <1>1 DEF ValuesAt
<1> HIDE DEF n
<1>3. \A i \in 1..n : C[i] \in Slots /\ values[C[i]] \in Rows
  BY <1>1
<1>4. ValuesAt(C, values) \in Seq(Rows) /\ Len(ValuesAt(C, values)) = n
  BY <1>1, <1>2, <1>3
<1> QED BY <1>1, <1>2, <1>3, <1>4 DEF n

LEMMA RowsBeforeAndAfter ==
  ASSUME Inv, [Next]_vars
  PROVE  /\ AbstractRows = ValuesAt(Chain, row) /\ AbstractRows' = ValuesAt(Chain', row')
         /\ Chain \in Seq(Slots) /\ row \in [Slots -> Rows] /\ row' \in [Slots -> Rows]
<1>1. Chain \in Seq(Slots) /\ row \in [Slots -> Rows]
  BY ChainIsList DEF Inv, TypeOK
<1>2. row' \in [Slots -> Rows]
  BY TypeStep DEF TypeOK
<1> QED BY <1>1, <1>2 DEF AbstractRows, ValuesAt

LEMMA LinkRefines ==
  ASSUME Inv, HeaderBook, InsertLink
  PROVE  List!Next
<1> DEFINE A == ValuesAt(Chain, row)
           B == ValuesAt(Append(Chain, slot), row)
           n == Len(Chain)
           r == row[slot]
<1>1. slot \in Slots /\ r \in Rows /\ row' = row /\ Chain' = Append(Chain, slot)
  BY LinkAppends DEF InsertLink, Inv, TypeOK
<1>2. /\ AbstractRows = A /\ AbstractRows' = B
      /\ Chain \in Seq(Slots) /\ row \in [Slots -> Rows]
  BY <1>1, RowsBeforeAndAfter DEF Next
<1>3. /\ n \in Nat /\ A \in Seq(Rows) /\ Len(A) = n
      /\ \A i \in 1..n : A[i] = row[Chain[i]]
  BY <1>2, ValuesFacts
<1>4. /\ Append(Chain, slot) \in Seq(Slots) /\ Len(Append(Chain, slot)) = n + 1
      /\ \A i \in 1..n : Append(Chain, slot)[i] = Chain[i]
      /\ Append(Chain, slot)[n + 1] = slot
  BY <1>1, <1>2, RowsOfAppend
<1>5. /\ B \in Seq(Rows) /\ Len(B) = n + 1
      /\ \A i \in 1..(n + 1) : B[i] = row[Append(Chain, slot)[i]]
  BY <1>2, <1>4, ValuesFacts
<1> HIDE DEF A, B, n, r
<1>6. B = Append(A, r)
  <2>1. Append(A, r) \in Seq(Rows) /\ Len(Append(A, r)) = n + 1
    BY <1>1, <1>3
  <2>2. ASSUME NEW i \in 1..(n + 1)
        PROVE  B[i] = Append(A, r)[i]
    <3>1. CASE i = n + 1
      BY <1>3, <1>4, <1>5, <3>1 DEF r
    <3>2. CASE i \in 1..n
      BY <1>3, <1>4, <1>5, <3>2
    <3> QED BY <1>3, <3>1, <3>2
  <2> QED BY <1>5, <2>1, <2>2, SeqEqual
<1> QED BY <1>1, <1>2, <1>6 DEF List!Next, List!Append1

LEMMA UnlinkRefines ==
  ASSUME Inv, UsedBook, RemoveUnlink
  PROVE  List!Next
<1>1. PICK k \in 1..Len(Chain) : Chain' = Without(Chain, k)
  BY UnlinkRemoves
<1> DEFINE W == Without(Chain, k)
           A == ValuesAt(Chain, row)
           B == ValuesAt(W, row)
           n == Len(Chain)
           L == SubSeq(A, 1, k - 1)
           R == SubSeq(A, k + 1, n)
<1>2. /\ AbstractRows = A /\ AbstractRows' = B
      /\ Chain \in Seq(Slots) /\ row \in [Slots -> Rows]
  BY <1>1, RowsBeforeAndAfter DEF Next, RemoveUnlink
<1>3. /\ n \in Nat /\ A \in Seq(Rows) /\ Len(A) = n /\ DOMAIN A = 1..n
      /\ \A i \in 1..n : A[i] = row[Chain[i]] /\ A[i] \in Rows
  BY <1>2, ValuesFacts
<1>4. /\ W \in Seq(Slots) /\ Len(W) = n - 1
      /\ \A i \in 1..(n - 1) : W[i] = IF i < k THEN Chain[i] ELSE Chain[i + 1]
  BY ChainIsList, WithoutRow DEF IsList
<1> HIDE DEF W
<1>5. /\ B \in Seq(Rows) /\ Len(B) = n - 1
      /\ \A i \in 1..(n - 1) : B[i] = row[W[i]]
  <2>1. /\ B \in Seq(Rows) /\ Len(B) = Len(W)
        /\ \A i \in 1..Len(W) : B[i] = row[W[i]]
    <3> HIDE DEF n
    <3> QED BY <1>2, <1>4, ValuesFacts
  <2> QED BY <1>4, <2>1
<1>6. k \in 1..n
  OBVIOUS
<1> HIDE DEF A, B, n
<1>7. /\ L \in Seq(Rows) /\ Len(L) = k - 1
      /\ \A i \in 1..(k - 1) : L[i] = A[i]
  BY <1>3, <1>6
<1>8. /\ R \in Seq(Rows) /\ Len(R) = n - k
      /\ \A i \in 1..(n - k) : R[i] = A[k + i]
  BY <1>3, <1>6
<1> HIDE DEF L, R
<1>9. /\ L \o R \in Seq(Rows) /\ Len(L \o R) = n - 1
      /\ \A i \in 1..(n - 1) : (L \o R)[i] = IF i <= k - 1 THEN L[i] ELSE R[i - (k - 1)]
  BY <1>3, <1>6, <1>7, <1>8, ConcatProperties
<1>10. B = L \o R
  <2>1. ASSUME NEW i \in 1..(n - 1)
        PROVE  B[i] = (L \o R)[i]
    <3>1. CASE i < k
      <4>1. i <= k - 1 /\ i \in 1..(k - 1) /\ i \in 1..n
        BY <1>3, <1>6, <3>1
      <4>2. B[i] = row[Chain[i]]
        BY <1>4, <1>5, <3>1
      <4>3. (L \o R)[i] = A[i]
        BY <1>7, <1>9, <4>1
      <4> QED BY <1>3, <4>1, <4>2, <4>3
    <3>2. CASE ~(i < k)
      <4>1. ~(i <= k - 1) /\ i - (k - 1) \in 1..(n - k) /\ i + 1 \in 1..n
            /\ k + (i - (k - 1)) = i + 1
        BY <1>3, <1>6, <3>2
      <4>2. (L \o R)[i] = A[i + 1]
        BY <1>8, <1>9, <4>1
      <4>3. B[i] = row[Chain[i + 1]]
        BY <1>4, <1>5, <3>2
      <4> QED BY <1>3, <4>1, <4>2, <4>3
    <3> QED BY <3>1, <3>2
  <2> QED BY <1>5, <1>9, <2>1, SeqEqual
<1>11. List!Remove(k)
  BY <1>2, <1>3, <1>10 DEF List!Remove, L, R
<1> QED BY <1>2, <1>3, <1>6, <1>11 DEF List!Next

\* One slot rewritten: the row that stands there, or none of the list.
LEMMA PutRefines ==
  ASSUME Inv, UpdatePut \/ UpdatePutAfterRemap
  PROVE  [List!Next]_AbstractRows
<1>0. [Next]_vars /\ Chain' = Chain
  BY OtherStepsKeepChain DEF Next, UpdatePut, UpdatePutAfterRemap, InsertLink, RemoveUnlink, Crash
<1>1. /\ AbstractRows = ValuesAt(Chain, row) /\ AbstractRows' = ValuesAt(Chain, row')
      /\ Chain \in Seq(Slots) /\ row \in [Slots -> Rows] /\ row' \in [Slots -> Rows]
  BY <1>0, RowsBeforeAndAfter
<1>2. CASE row' = row
  BY <1>1, <1>2
<1>3. CASE row' = [row EXCEPT ![slot] = job.row]
  <2> DEFINE A == ValuesAt(Chain, row)
             B == ValuesAt(Chain, row')
             n == Len(Chain)
  <2>1. job.row \in Rows /\ slot \in Slots
    BY KindFacts, Unlinking DEF Inv, Control, UpdatePut, UpdatePutAfterRemap
  <2>2. /\ n \in Nat /\ A \in Seq(Rows) /\ Len(A) = n /\ DOMAIN A = 1..n
        /\ \A i \in 1..n : A[i] = row[Chain[i]] /\ Chain[i] \in Slots
    BY <1>1, ValuesFacts
  <2>3. /\ B \in Seq(Rows) /\ Len(B) = n
        /\ \A i \in 1..n : B[i] = row'[Chain[i]]
    BY <1>1, ValuesFacts
  <2>4. \A i, j \in 1..n : Chain[i] = Chain[j] => i = j
    BY ChainIsList DEF IsList
  <2> HIDE DEF A, B, n
  <2>5. \A i \in 1..n : B[i] = IF Chain[i] = slot THEN job.row ELSE A[i]
    BY <1>1, <1>3, <2>1, <2>2, <2>3
  <2>6. CASE \E k \in 1..n : Chain[k] = slot
    <3>1. PICK k \in 1..n : Chain[k] = slot
      BY <2>6
    <3>2. \A i \in 1..n : Chain[i] = slot <=> i = k
      BY <2>4, <3>1
    <3>3. /\ [A EXCEPT ![k] = job.row] \in Seq(Rows)
          /\ Len([A EXCEPT ![k] = job.row]) = n
          /\ \A i \in 1..n : [A EXCEPT ![k] = job.row][i] = IF i = k THEN job.row ELSE A[i]
      BY <2>1, <2>2, ExceptSeq
    <3>4. B = [A EXCEPT ![k] = job.row]
      <4>1. \A i \in 1..Len(B) : B[i] = [A EXCEPT ![k] = job.row][i]
        BY <2>3, <2>5, <3>2, <3>3
      <4> QED BY <2>3, <3>3, <4>1, SeqEqual
    <3>5. List!Write(k, job.row)
      BY <1>1, <3>4 DEF List!Write, A, B
    <3> QED BY <1>1, <2>1, <2>2, <3>1, <3>5 DEF List!Next, A
  <2>7. CASE ~\E k \in 1..n : Chain[k] = slot
    <3>1. B = A
      BY <2>2, <2>3, <2>5, <2>7, SeqEqual
    <3> QED BY <1>1, <3>1 DEF A, B
  <2> QED BY <2>6, <2>7
<1> QED BY <1>2, <1>3 DEF UpdatePut, UpdatePutAfterRemap

(***************************************************************************)
(* The file-backed table implements RowList while nothing interrupts it:   *)
(* linking a new row is the append, unlinking one is its removal, writing  *)
(* the rewritten bytes back is the write, and every other step, the ones   *)
(* of an insert or a remove that has only got half way included, leaves    *)
(* the list of rows as it is.                                              *)
(***************************************************************************)
THEOREM ImplementsRowList ==
  ASSUME MaxCrashes = 0
  PROVE  Spec => RefinesRowList
<1> DEFINE K == HeaderBook /\ UsedBook
<1>1. Init => List!Init /\ K
  <2>. SUFFICES ASSUME Init PROVE List!Init /\ K
    OBVIOUS
  <2>1. Chain = <<>> /\ K
    BY BooksAtStart DEF Books
  <2>2. Inv
    BY InitInv
  <2>3. AbstractRows \in Seq(Rows) /\ Len(AbstractRows) = 0
    <3>1. AbstractRows = ValuesAt(Chain, row) /\ Chain \in Seq(Slots) /\ row \in [Slots -> Rows]
      BY <2>2, ChainIsList DEF AbstractRows, ValuesAt, Inv, TypeOK
    <3> QED BY <2>1, <3>1, ValuesFacts
  <2> QED BY <2>1, <2>3, EmptySeq DEF List!Init
<1>2. Inv /\ [Next]_vars => ~Crash
  BY DEF Inv, TypeOK, Crash
<1>3. Inv /\ K /\ [Next]_vars => K'
  BY <1>2, HeaderBookStep, UsedBookStep
<1>4. Inv /\ K /\ [Next]_vars => [List!Next]_AbstractRows
  <2>. SUFFICES ASSUME Inv, K, [Next]_vars PROVE [List!Next]_AbstractRows
    OBVIOUS
  <2>1. CASE InsertLink
    BY <2>1, LinkRefines
  <2>2. CASE RemoveUnlink
    BY <2>2, UnlinkRefines
  <2>3. CASE UpdatePut \/ UpdatePutAfterRemap
    BY <2>3, PutRefines
  <2>4. CASE InsertWrite
    <3>1. Chain' = Chain /\ slot \notin RowsOf(Chain)
      BY <1>2, <2>4, OtherStepsKeepChain, ChainIsList
      DEF InsertWrite, InsertLink, RemoveUnlink, Place
    <3>2. /\ AbstractRows = ValuesAt(Chain, row) /\ AbstractRows' = ValuesAt(Chain, row')
          /\ Chain \in Seq(Slots) /\ row \in [Slots -> Rows] /\ row' \in [Slots -> Rows]
      BY <3>1, RowsBeforeAndAfter
    <3>3. \A i \in 1..Len(Chain) : Chain[i] \in Slots /\ Chain[i] # slot
      BY <3>1, <3>2, ValuesFacts DEF RowsOf
    <3>4. \A i \in 1..Len(Chain) : ValuesAt(Chain, row)[i] = ValuesAt(Chain, row')[i]
      <4>1. /\ \A i \in 1..Len(Chain) : ValuesAt(Chain, row)[i] = row[Chain[i]]
            /\ \A i \in 1..Len(Chain) : ValuesAt(Chain, row')[i] = row'[Chain[i]]
        BY <3>2, ValuesFacts
      <4>2. \A s \in Slots : s # slot => row'[s] = row[s]
        BY <2>4, <3>2 DEF InsertWrite
      <4> QED BY <3>3, <4>1, <4>2
    <3>5. ValuesAt(Chain, row) = ValuesAt(Chain, row')
      BY <3>2, <3>4, ValuesFacts, SeqEqual
    <3> QED BY <3>2, <3>5
  <2>5. CASE row' = row /\ ~InsertLink /\ ~RemoveUnlink
    BY <1>2, <2>5, OtherStepsKeepChain, RowsBeforeAndAfter
  <2> QED
    BY <1>2, <2>1, <2>2, <2>3, <2>4, <2>5 DEF Next, StartInsert, InsertFails,
       InsertCount, FlushHeader, StartDelete, StartUpdate, StartPass, FetchToDelete,
       FetchToUpdate, EndPass, FreeData, RemoveCount, RemoveMark, vars, file, rowFields
<1> QED BY <1>1, <1>3, <1>4, InvIsInvariant, PTL DEF Spec, RefinesRowList, List!Spec
=============================================================================
