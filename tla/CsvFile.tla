-------------------------------- MODULE CsvFile --------------------------------
(***************************************************************************)
(* Tables as texts (text/CsvFile.cpp): a row is read character by          *)
(* character with one character ahead, a row is written with its columns   *)
(* in delimiters where that is needed.                                     *)
(***************************************************************************)
EXTENDS StringTool

\* The format: a delimiter 0 is none. With the automatic delimiter a column
\* may stand in " or in '.
Format(separator, delimiter, escChar) ==
  [separator |-> separator, delimiter1 |-> delimiter, delimiter2 |-> NUL, escChar |-> escChar]
AutoDelimiter(separator, escChar) ==
  [separator |-> separator, delimiter1 |-> Quote, delimiter2 |-> Apostrophe, escChar |-> escChar]
Delimiters(f) == {f.delimiter1, f.delimiter2} \ {NUL}

\* A column that starts at the top of a text.
At(s, k) == IF k <= Len(s) THEN s[k] ELSE NUL

\* CsvRow::read(): one turn of the loop, at character k. Behind an opening
\* delimiter separators are contents, up to a delimiter before a separator.
Opened(f, s, k) ==
  IF At(s, k) \in Delimiters(f)
  THEN [start |-> k + 1, next |-> k + 1, open |-> At(s, k), delimited |-> TRUE]
  ELSE [start |-> k, next |-> k, open |-> NUL, delimited |-> FALSE]

\* The mutant: any delimiter closes a column.
ColumnWhole(s, column, end) == SubSeq(s, column.start, end)

ColumnOf(s, column, end) == SubSeq(s, column.start, end - (IF column.delimited THEN 1 ELSE 0))

ReadRow(f, s) ==
  LET Turn(row, k) ==
        LET column == row.column
            c == s[k]
        IN CASE k < column.next -> row
             [] k >= column.next /\ c \in Delimiters(f) ->
                  IF c = column.open /\ At(s, k + 1) \in {f.separator, NUL}
                  THEN [row EXCEPT !.column.open = NUL] ELSE row
             [] OTHER ->
                  IF c = f.separator /\ column.open = NUL
                  THEN [columns |-> Append(row.columns, ColumnOf(s, column, k - 1)),
                        column |-> Opened(f, s, k + 1)]
                  ELSE row
      last == FoldLeft(Turn, [columns |-> <<>>, column |-> Opened(f, s, 1)],
                       [k \in 1 .. Len(s) |-> k])
  IN Append(last.columns, ColumnOf(s, last.column, Len(s)))

\* CsvFile::read(): lines of blanks are no rows.
ReadRows(f, lines) ==
  LET rows == SelectSeq(lines, LAMBDA line : Span(line, {Blank, TAB, CR, VT, FF}) < Len(line))
  IN [n \in DOMAIN rows |-> ReadRow(f, rows[n])]

\* CsvRow::write()
WriteColumn(f, column) ==
  IF {f.separator, f.delimiter1} \cap ToSet(column) = {} THEN column
  ELSE <<f.delimiter1>> \o column \o <<f.delimiter1>>
WriteRow(f, columns) ==
  FlattenSeq([n \in DOMAIN columns |->
    (IF n > 1 THEN <<f.separator>> ELSE <<>>) \o WriteColumn(f, columns[n])])
WriteRows(f, rows) == [n \in DOMAIN rows |-> WriteRow(f, rows[n])]

\* pureColumn(): without an escape character doubled delimiters become one; with
\* one every other character is written, and then written or meant once more.
Meant(c) == CASE c = 110 -> LF [] c = 114 -> CR [] c = 118 -> VT [] c = 116 -> TAB [] OTHER -> c
RECURSIVE PureColumn(_, _)
PureColumn(f, s) ==
  IF s = <<>> THEN <<>>
  ELSE IF f.escChar # NUL
       THEN CASE s[1] # f.escChar -> <<s[1], Meant(s[1])>> \o PureColumn(f, Tail(s))
              [] s = <<f.escChar>> -> <<f.escChar>>
              [] OTHER -> <<Meant(s[2])>> \o PureColumn(f, From(s, 3))
       ELSE IF s[1] \in Delimiters(f) /\ At(s, 2) = s[1]
            THEN <<s[1]>> \o PureColumn(f, From(s, 3)) ELSE <<s[1]>> \o PureColumn(f, Tail(s))

\* asInt(): 0 that is not written as one is the default.
AsInt(column, default) ==
  LET s == From(column, Span(column, {Blank}) + 1)
      n == IntOf(s)
  IN IF n = 0 /\ At(s, 1) # 48 THEN default ELSE n

\* detectSeparator(): what the first block of the file has most of.
DetectSeparator(text, preferTab) ==
  LET tabs == CountChar(text, TAB)
      semicolons == CountChar(text, Semicolon)
      commas == CountChar(text, Comma)
  IN CASE preferTab /\ tabs > 0 -> TAB
       [] ~(preferTab /\ tabs > 0) /\ tabs >= semicolons ->
            IF tabs >= commas THEN TAB ELSE IF semicolons > commas THEN Semicolon ELSE Comma
       [] OTHER -> IF semicolons >= commas THEN Semicolon ELSE Comma

--------------------------------------------------------------------------------
\* What a written row can be read from: no line end, nothing in a column that
\* looks like its end, no delimiter of the other kind at the start of one, and
\* with a single delimiter no empty column at the end, where the code runs out
\* of the line.
Writable(f, columns) ==
  /\ columns # <<>> /\ Span(WriteRow(f, columns), {Blank, TAB, CR, VT, FF}) < Len(WriteRow(f, columns))
  /\ f.delimiter2 = NUL => Last(columns) # <<>>
  /\ \A n \in DOMAIN columns :
       LET column == columns[n]
       IN /\ At(column, 1) # f.delimiter2 \/ WriteColumn(f, column) # column \/ column = <<>>
          /\ \A k \in DOMAIN column :
               /\ column[k] # LF
               /\ column[k] = f.delimiter1 => At(column, k + 1) # f.separator

\* A table that was written is read again; the separator found is none of which
\* there is less than of another one.
TableAgrees(f, rows) ==
  (\A n \in DOMAIN rows : Writable(f, rows[n])) => ReadRows(f, WriteRows(f, rows)) = rows
SeparatorAgrees(text) ==
  \A c \in {TAB, Semicolon, Comma} :
    CountChar(text, c) <= CountChar(text, DetectSeparator(text, FALSE))
ColumnAgrees(f, s) ==
  f.escChar = NUL =>
    PureColumn(f, FlattenSeq([k \in DOMAIN s |->
      IF s[k] \in Delimiters(f) THEN <<s[k], s[k]>> ELSE <<s[k]>>])) = s
==============================================================================
