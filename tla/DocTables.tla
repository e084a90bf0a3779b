----------------------------- MODULE DocTables -----------------------------
(***************************************************************************)
(* How internal/docs_tool/src/lib.rs finds the tables of a page of         *)
(* extracted text: extract_tables groups neighbouring lines, and           *)
(* normalize_rows makes the rows of a group equally wide.                  *)
(*                                                                         *)
(* A line is the sequence of its cells (split_columns), a cell a sequence  *)
(* of words, the empty cell the empty sequence.  The words are "n", a      *)
(* decimal number; "d", a reference designator such as R12; "w", a word of *)
(* letters; and "x", a single letter.                                      *)
(***************************************************************************)
EXTENDS Integers, Sequences, SequencesExt, FiniteSetsExt

CONSTANTS
  Lines,     \* the lines a page may have
  Ahead,     \* how many lines below a gap a table may go on
  MaxLines   \* bound: the lines of a page

VARIABLE lines  \* the lines of the page

tableVars == <<lines>>

-----------------------------------------------------------------------------

\* The characters of a word; cells are two blanks apart.
Letters(word) == CASE word = "d" -> 2 [] word = "w" -> 4 [] OTHER -> 1

Characters(line) ==
  FoldLeft(LAMBDA total, cell :
             total + 2 + FoldLeft(LAMBDA sum, word : sum + Letters(word), 0, cell),
           -2, line)

\* A table row has two columns, five characters, and a cell with a digit or
\* two letters in it.
is_table_row(line) ==
  /\ Len(line) >= 2
  /\ Characters(line) >= 5
  /\ \E i \in 1 .. Len(line) : \E k \in 1 .. Len(line[i]) : line[i][k] # "x"

\* The most frequent number of cells of the rows of three or more, the one
\* met first among equals; or the largest number of cells of all rows.
Wide(rows) ==
  LET Times(n) == Cardinality({i \in 1 .. Len(rows) : Len(rows[i]) = n})
      wide == {i \in 1 .. Len(rows) : Len(rows[i]) >= 3}
      first == CHOOSE i \in wide :
                 \A j \in wide : \/ Times(Len(rows[j])) < Times(Len(rows[i]))
                                 \/ /\ Times(Len(rows[j])) = Times(Len(rows[i]))
                                    /\ i <= j
  IN IF wide = {} THEN Max({Len(rows[i]) : i \in 1 .. Len(rows)} \cup {0})
     ELSE Len(rows[first])

Joined(cells) == FlattenSeq(cells)

\* Row is given its place after the rows so far: a missing third column is
\* put in, a short row continues the row before, a long one is cut.
PlaceCutting(rows, row, width) ==
  IF Len(row) > width THEN Append(rows, SubSeq(row, 1, width))
  ELSE Append(rows, row \o [i \in 1 .. width - Len(row) |-> <<>>])

Place(rows, row, width) ==
  LET number(cell) == cell = <<"n">>
      filled == IF /\ Len(row) = width - 1 /\ Len(row) >= 2
                   /\ number(row[1]) /\ number(row[2])
                THEN InsertAt(row, 3, <<>>) ELSE row
      column == IF Len(filled) = 1 /\ filled[1][1] = "d" /\ width >= 3
                THEN 3 ELSE width
  IN IF Len(filled) < width /\ rows # <<>>
     THEN [rows EXCEPT ![Len(rows)][column] = @ \o Joined(filled)]
     ELSE IF Len(filled) > width
     THEN Append(rows, Append(SubSeq(filled, 1, width - 1),
                              Joined(SubSeq(filled, width, Len(filled)))))
     ELSE Append(rows, filled \o [i \in 1 .. width - Len(filled) |-> <<>>])

normalize_rows(rows) ==
  LET width == Wide(rows)
  IN FoldLeft(LAMBDA placed, row : Place(placed, row, width), <<>>, rows)

\* The line after the table that starts at line start: the first that is
\* neither a row nor has a row among the Ahead lines below it.
TableEnd(page, start) ==
  LET Row(i) == is_table_row(page[i])
      Goes(i) == Row(i) \/ \E j \in i + 1 .. Min({i + Ahead, Len(page)}) : Row(j)
  IN Min({i \in start .. Len(page) : ~Goes(i)} \cup {Len(page) + 1})

\* The rows of that table: its lines that are not blank.
Gathered(page, start) ==
  SelectSeq(SubSeq(page, start, TableEnd(page, start) - 1), LAMBDA l : l # <<>>)

\* The tables of the page, each with its first line; a table of one row is
\* not one.
extract_tables(page) ==
  LET From[i \in 1 .. Len(page) + 1] ==
        IF i > Len(page) THEN <<>>
        ELSE IF ~is_table_row(page[i]) THEN From[i + 1]
        ELSE LET rest == From[TableEnd(page, i)]
             IN IF Len(Gathered(page, i)) >= 2
                THEN <<[start |-> i,
                        rows |-> normalize_rows(Gathered(page, i))]>> \o rest
                ELSE rest
  IN From[1]

-----------------------------------------------------------------------------
\* The pages: one more line at a time.
TableInit == lines = <<>>

Line ==
  /\ Len(lines) < MaxLines
  /\ \E line \in Lines : lines' = Append(lines, line)

TableNext == Line

TableSpec == TableInit /\ [][TableNext]_tableVars

-----------------------------------------------------------------------------
WordsOfRows(rows) == FlattenSeq(FlattenSeq(rows))

\* Every row of a page that has another row among the Ahead + 1 lines below it
\* or above it is in a table, each line is in one table at most, a table has
\* as many cells in every row, and the words of its rows are the words of its
\* lines, none lost and none twice.
TablesKeepWords ==
  LET tables == extract_tables(lines)
      Covers(t) == t.start .. TableEnd(lines, t.start) - 1
      Row(i) == is_table_row(lines[i])
  IN /\ \A i, j \in 1 .. Len(lines) :
          (Row(i) /\ Row(j) /\ i < j /\ j <= i + Ahead + 1) =>
            \E t \in Range(tables) : {i, j} \subseteq Covers(t)
     /\ \A t, u \in Range(tables) : t # u => Covers(t) \cap Covers(u) = {}
     /\ \A t \in Range(tables) :
          /\ \A i, j \in 1 .. Len(t.rows) : Len(t.rows[i]) = Len(t.rows[j])
          /\ \A word \in {"n", "d", "w", "x"} :
               LET Count(s) == Len(SelectSeq(s, LAMBDA w : w = word))
               IN Count(WordsOfRows(t.rows))
                    = Count(WordsOfRows(SubSeq(lines, t.start,
                                               TableEnd(lines, t.start) - 1)))
=============================================================================
