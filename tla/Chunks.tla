------------------------------- MODULE Chunks -------------------------------
(***************************************************************************)
(* Rows on their way between pages and operators: the cells of a Vector,   *)
(* the Chunk that operators hand to each other, the column images of a     *)
(* data page (BuildFromColumns, FillChunkFromPage, FetchRow, VarcharCodec) *)
(* and the keys that rows are compared by.                                 *)
(*                                                                         *)
(* A number stands for an int32 or a double that is a whole number; a      *)
(* string is a sequence of bytes.  Compression and the byte layout of the  *)
(* header are left out: a page holds as many rows as PageRows.             *)
(***************************************************************************)
EXTENDS Integers, Sequences, FiniteSets, SequencesExt

CONSTANT PageRows     \* rows that fit one page (PAGE_SIZE)

ASSUME PageRowsAssumption == PageRows \in Nat \ {0}

-----------------------------------------------------------------------------
(* Cells and chunks.                                                       *)

Number(n) == [ok |-> TRUE, num |-> n, str |-> <<>>]
Text(s) == [ok |-> TRUE, num |-> 0, str |-> s]

\* The slot of a null is zeroed, or the empty string.
Null == [ok |-> FALSE, num |-> 0, str |-> <<>>]

IsVarlen(type) == type = "VARCHAR"

\* The value of a cell shown without its validity, as sort and join copy it.
Valid(cell) == [cell EXCEPT !.ok = TRUE]

Chunk(ids, types, rows) == [ids |-> ids, types |-> types, rows |-> rows]

Ids(schema) == [c \in DOMAIN schema |-> schema[c].id]
Types(schema) == [c \in DOMAIN schema |-> schema[c].type]

\* BuildColMap: of columns with one id the last wins.
HasCol(c, id) == \E i \in DOMAIN c.ids : c.ids[i] = id
ColAt(c, id) == CHOOSE i \in DOMAIN c.ids :
                  c.ids[i] = id /\ \A j \in DOMAIN c.ids : c.ids[j] = id => j <= i

\* CopyRowProjected.
CopyRowProjected(row, cols) == [i \in DOMAIN cols |-> row[cols[i]]]

\* Mutant of RowKey: the bytes alone.
RowKeyBytes(row, cols) ==
  [i \in DOMAIN CopyRowProjected(row, cols) |-> Valid(CopyRowProjected(row, cols)[i])]

\* RowKey: validity and bytes of the columns, all columns if none is named.
RowKey(row, cols) == IF cols = <<>> THEN row ELSE CopyRowProjected(row, cols)

Concat(seqs) == FoldLeft(LAMBDA a, s : a \o s, <<>>, seqs)

\* The rows of all chunks, one after the other.
AllRows(chunks) == Concat([i \in DOMAIN chunks |-> chunks[i].rows])

-----------------------------------------------------------------------------
(* VarcharCodec: offsets that start at zero, and the bytes.                *)

\* Mutant of SerializeVarlenColumn: every slice starts at the first row.
SerializeVarlenColumnFirst(strs, from, cnt) ==
  LET slice == SubSeq(strs, 1, cnt)
  IN  [offsets |-> [i \in 1 .. cnt + 1 |-> Len(Concat(SubSeq(slice, 1, i - 1)))],
       bytes |-> Concat(slice)]

SerializeVarlenColumn(strs, from, cnt) ==
  LET slice == SubSeq(strs, from + 1, from + cnt)
  IN  [offsets |-> [i \in 1 .. cnt + 1 |-> Len(Concat(SubSeq(slice, 1, i - 1)))],
       bytes |-> Concat(slice)]

DeserializeVarlenColumn(raw) ==
  [i \in 1 .. Len(raw.offsets) - 1 |->
     SubSeq(raw.bytes, raw.offsets[i] + 1, raw.offsets[i + 1])]

-----------------------------------------------------------------------------
(* Data pages.                                                             *)

\* A page that is not a data page: fresh from NewPage, or a node of an index.
BlankPage == [magic |-> FALSE, n |-> 0, cols |-> <<>>]

IsDataPage(page) == page.magic

\* A ColumnInput: fixed-width values, or the codec's image of strings.
ColumnInput(col, cells, from, cnt) ==
  [id |-> col.id,
   nums |-> IF IsVarlen(col.type) THEN <<>> ELSE [i \in 1 .. cnt |-> cells[from + i].num],
   raw |-> SerializeVarlenColumn(
             IF IsVarlen(col.type) THEN [i \in DOMAIN cells |-> cells[i].str] ELSE <<>>,
             from, IF IsVarlen(col.type) THEN cnt ELSE 0),
   valid |-> [i \in 1 .. cnt |-> cells[from + i].ok]]

\* Mutant of Fits: one row too many is taken.
FitsOneMore(cnt) == cnt <= PageRows + 1

\* BuildFromColumns refuses what is larger than the page.
Fits(cnt) == cnt <= PageRows
BuildFromColumns(cols, cnt) == [magic |-> TRUE, n |-> cnt, cols |-> cols]

\* Column c of a page, decoded.
PageColumn(page, schema, c) ==
  LET col == page.cols[c]
      strs == DeserializeVarlenColumn(col.raw)
  IN  [i \in 1 .. page.n |->
         [ok |-> col.valid[i],
          num |-> IF IsVarlen(schema[c].type) THEN 0 ELSE col.nums[i],
          str |-> IF IsVarlen(schema[c].type) THEN strs[i] ELSE <<>>]]

FillChunkFromPage(page, schema) ==
  LET cols == [c \in DOMAIN schema |-> PageColumn(page, schema, c)]
  IN  Chunk(Ids(schema), Types(schema),
            [i \in 1 .. page.n |-> [c \in DOMAIN schema |-> cols[c][i]]])

\* TableHeap::FetchRow, the row of a RID <<page number, row>>, if it is there.
HasRow(pages, rid) == /\ rid[1] < Len(pages) /\ IsDataPage(pages[rid[1] + 1])
                      /\ rid[2] < pages[rid[1] + 1].n
FetchRow(pages, schema, rid) ==
  FillChunkFromPage(pages[rid[1] + 1], schema).rows[rid[2] + 1]

-----------------------------------------------------------------------------
(* ExecuteInsert: the pages that a batch of rows is split into.            *)

\* Halve until the slice fits.
RECURSIVE SliceSize(_)
SliceSize(cnt) == IF Fits(cnt) THEN cnt ELSE SliceSize(cnt \div 2)

RECURSIVE BuildPages(_, _, _)
BuildPages(schema, rows, start) ==
  IF start >= Len(rows) THEN <<>>
  ELSE LET cnt == SliceSize(Len(rows) - start)
           cells(c) == [i \in DOMAIN rows |-> rows[i][c]]
           cols == [c \in DOMAIN schema |-> ColumnInput(schema[c], cells(c), start, cnt)]
       IN  <<BuildFromColumns(cols, cnt)>> \o BuildPages(schema, rows, start + cnt)
=============================================================================
