------------------------------ MODULE RowList ------------------------------
(***************************************************************************)
(* What a table promises to its callers: a sequence of rows.  This is the  *)
(* std::list<Tuple> that MemoryBackedTable keeps (db/core/Table.hpp,       *)
(* db/core/Table.cpp); a table stored in an .edb file must behave alike.   *)
(* Rows are appended, and a row handed out by an iterator can be rewritten *)
(* in place or removed; the others keep their order and their values.      *)
(***************************************************************************)
EXTENDS Naturals, Sequences

CONSTANT Rows
VARIABLE rows

TypeOK == rows \in Seq(Rows)

Init == rows = <<>>

\* MemoryBackedTable::insert_unchecked
Append1(r) == rows' = Append(rows, r)

\* RowReference::write
Write(i, r) == rows' = [rows EXCEPT ![i] = r]

\* RowReference::remove
Remove(i) == rows' = SubSeq(rows, 1, i - 1) \o SubSeq(rows, i + 1, Len(rows))

Next ==
  \/ \E r \in Rows : Append1(r)
  \/ \E i \in DOMAIN rows, r \in Rows : Write(i, r)
  \/ \E i \in DOMAIN rows : Remove(i)

Spec == Init /\ [][Next]_rows
=============================================================================
