------------------------------ MODULE PriceCsv ------------------------------
(***************************************************************************)
(* csv/parsePriceCsv.ts: a text becomes records, the records become bars   *)
(* and errors with the numbers of their lines.                             *)
(*                                                                         *)
(* A text is a sequence of characters, of which the parser tells apart the *)
(* ones named below.  A cell of a row is what its validation finds in it.  *)
(***************************************************************************)
EXTENDS Integers, FiniteSets, Sequences, SequencesExt, Functions

BOM == "bom"
Quote == "quote"
Comma == "comma"
CR == "cr"
LF == "lf"

-----------------------------------------------------------------------------
(* parseRecords(): one pass over the text.                                 *)

Start == [records |-> <<>>, field |-> <<>>, fields |-> <<>>, inQuotes |-> FALSE,
          line |-> 1, startLine |-> 1, started |-> FALSE, skip |-> FALSE]

PushField(s) == [s EXCEPT !.fields = Append(@, s.field), !.field = <<>>]

(* Faulty variant: the next record does not note where it starts.          *)
PushRecordStale(s) ==
  LET fields == Append(s.fields, s.field)
  IN  [s EXCEPT !.records = IF fields = <<<<>>>> THEN @
                            ELSE Append(@, [fields |-> fields, line |-> s.startLine]),
                !.fields = <<>>, !.field = <<>>]

(* A record of one empty field is a blank line.                            *)
PushRecord(s) ==
  LET fields == Append(s.fields, s.field)
  IN  [s EXCEPT !.records = IF fields = <<<<>>>> THEN @
                            ELSE Append(@, [fields |-> fields, line |-> s.startLine]),
                !.fields = <<>>, !.field = <<>>, !.started = FALSE]

(* The next character is ch, and the one after it is next.                 *)
ReadCharacter(old, ch, next) ==
  LET s == IF old.started \/ old.inQuotes THEN old
           ELSE [old EXCEPT !.startLine = old.line, !.started = TRUE]
  IN  CASE old.skip -> [old EXCEPT !.skip = FALSE]
        [] ~old.skip /\ s.inQuotes /\ ch = Quote ->
             IF next = Quote THEN [s EXCEPT !.field = Append(@, Quote), !.skip = TRUE]
             ELSE [s EXCEPT !.inQuotes = FALSE]
        [] ~old.skip /\ s.inQuotes /\ ch # Quote ->
             [s EXCEPT !.field = Append(@, ch), !.line = IF ch = LF THEN @ + 1 ELSE @]
        [] ~old.skip /\ ~s.inQuotes ->
             CASE ch = Quote -> [s EXCEPT !.inQuotes = TRUE]
               [] ch = Comma -> PushField(s)
               [] ch = CR -> PushRecord([s EXCEPT !.line = @ + 1, !.skip = next = LF])
               [] ch = LF -> PushRecord([s EXCEPT !.line = @ + 1])
               [] OTHER -> [s EXCEPT !.field = Append(@, ch)]

(* The states after the first characters of a part of a text, which is in  *)
(* state s before and has `next` behind it.                                *)
After(s, part, next) ==
  LET Following(i) == IF i < Len(part) THEN part[i + 1] ELSE next
      after[i \in 0 .. Len(part)] ==
        IF i = 0 THEN s ELSE ReadCharacter(after[i - 1], part[i], Following(i))
  IN  after

(* At the end of the text, what has been begun is a record too.            *)
ParseRecords(text) ==
  LET input == IF text # <<>> /\ Head(text) = BOM THEN Tail(text) ELSE text
      s == After(Start, input, "end")[Len(input)]
  IN  (IF s.started \/ s.field # <<>> \/ s.fields # <<>> THEN PushRecord(s) ELSE s).records

-----------------------------------------------------------------------------
(* parsePriceCsv()                                                         *)

RequiredHeaders == {"ticker", "date", "open", "high", "low", "close", "volume"}

NoColumn == 0

(* The first column of a name counts.                                      *)
HeaderIndex(headers, name) == SelectInSeq(headers, LAMBDA h : h = name)

(* A column that is absent, or a row too short, gives an empty cell.       *)
Empty == ""

Cell(headers, row, name) ==
  LET i == HeaderIndex(headers, name) IN IF i = NoColumn \/ i > Len(row) THEN Empty ELSE row[i]

(* Cells, trimmed: a ticker or a date that is good is its own value, and a *)
(* number is one of those below; whatever else is written is not accepted. *)
Tickers == {"A", "B"}
Days == {"d1", "d2"}
Currencies == {"USD"}
Numerals == <<"-1", "0", "1", "2", "3">>
IsNumber(c) == Contains(Numerals, c)
Number(c) == SelectInSeq(Numerals, LAMBDA n : n = c) - 2

(* The checks of a row, in their order, by the reason they report.         *)
Reasons == <<"ticker", "date", "number", "positive", "order", "volume", "adjusted", "currency">>

Names == RequiredHeaders \cup {"adjusted_close", "currency"}

(* What is in the cells of a row, by the names of the columns.             *)
Cells(headers, row) == [name \in Names |-> Cell(headers, row, name)]

Fails(cells) ==
  LET price == [name \in {"open", "high", "low", "close"} |-> Number(cells[name])]
      Optional(name, good) == cells[name] # Empty /\ ~good
  IN  [ticker |-> cells.ticker \notin Tickers,
       date |-> cells.date \notin Days,
       number |-> \E name \in DOMAIN price : ~IsNumber(cells[name]),
       positive |-> \E name \in DOMAIN price : price[name] <= 0,
       order |-> \/ \E name \in DOMAIN price : price["high"] < price[name]
                 \/ \E name \in DOMAIN price : price["low"] > price[name],
       volume |-> ~IsNumber(cells.volume) \/ Number(cells.volume) < 0,
       adjusted |-> Optional("adjusted_close",
                             IsNumber(cells.adjusted_close) /\ Number(cells.adjusted_close) > 0),
       currency |-> Optional("currency", cells.currency \in Currencies)]

(* The first check that fails, 0 if none does.                             *)
FirstFailure(fails) == SelectInSeq(Reasons, LAMBDA reason : fails[reason])

KeyOf(cells) == <<cells.ticker, cells.date>>

Reject(acc, line, reason) ==
  [acc EXCEPT !.errors = Append(@, [line |-> line, reason |-> reason])]

(* A row that is good so far, and whose ticker and date no good row before *)
(* it has had, becomes a bar.                                              *)
JudgeCells(acc, line, cells) ==
  LET failure == FirstFailure(Fails(cells))
  IN  IF failure # 0 THEN Reject(acc, line, Reasons[failure])
      ELSE IF KeyOf(cells) \in acc.seen THEN Reject(acc, line, "duplicate")
      ELSE [acc EXCEPT !.bars = Append(@, [key |-> KeyOf(cells), line |-> line]),
                       !.seen = @ \cup {KeyOf(cells)}]

Judge(acc, headers, record) == JudgeCells(acc, record.line, Cells(headers, record.fields))

(* What has become of the first i rows.                                    *)
Judged(headers, rows) ==
  LET judged[i \in 0 .. Len(rows)] ==
        IF i = 0 THEN [bars |-> <<>>, errors |-> <<>>, seen |-> {}]
        ELSE Judge(judged[i - 1], headers, rows[i])
  IN  judged

Refused(fatal) == [rowsRead |-> 0, bars |-> <<>>, errors |-> <<>>, fatal |-> fatal]

ParsePriceCsv(records, maxRows) ==
  LET headers == records[1].fields
      rows == Tail(records)
      result == Judged(headers, rows)[Len(rows)]
  IN  CASE records = <<>> -> Refused("empty")
        [] records # <<>> /\ \E h \in RequiredHeaders : HeaderIndex(headers, h) = NoColumn ->
             Refused("headers")
        [] records # <<>> /\ (\A h \in RequiredHeaders : HeaderIndex(headers, h) # NoColumn) ->
             IF rows = <<>> THEN Refused("no rows")
             ELSE IF Len(rows) > maxRows THEN Refused("too many")
             ELSE [rowsRead |-> Len(rows), bars |-> result.bars, errors |-> result.errors,
                   fatal |-> "none"]

-----------------------------------------------------------------------------

(* What a writer of CSV would write: a field is quoted when it must be, or *)
(* always, and a quote in it doubled.                                      *)
WriteField(field, always) ==
  IF always \/ \E i \in DOMAIN field : field[i] \in {Quote, Comma, CR, LF}
  THEN <<Quote>> \o FlattenSeq([i \in DOMAIN field |->
                      IF field[i] = Quote THEN <<Quote, Quote>> ELSE <<field[i]>>]) \o <<Quote>>
  ELSE field

WriteRecord(fields, always) ==
  FlattenSeq([i \in DOMAIN fields |->
                (IF i = 1 THEN <<>> ELSE <<Comma>>) \o WriteField(fields[i], always)])

LineFeeds(text) == Cardinality({i \in DOMAIN text : text[i] = LF})

(* The line a record begins on: each before it takes one line, and one     *)
(* more for each line feed in its fields.                                  *)
LineOf(lists, i) == i + LineFeeds(FlattenSeq(FlattenSeq(SubSeq(lists, 1, i - 1))))

Blank == <<<<>>>>

(* A file as any writer makes it - quotes where needed or everywhere, each *)
(* kind of line end, with or without a last one, with or without a mark of *)
(* its encoding - is read back as it was meant, but for blank lines, and   *)
(* each record with the line it begins on (parsePriceCsv.ts:86-152).  A    *)
(* carriage return in a quoted field begins no line.                       *)
TextIsReadBack(lists) ==
  \A always \in BOOLEAN, end \in {<<LF>>, <<CR>>, <<CR, LF>>}, last, mark \in BOOLEAN :
    LET text == (IF mark THEN <<BOM>> ELSE <<>>) \o
                FlattenSeq([i \in DOMAIN lists |->
                  WriteRecord(lists[i], always) \o
                    (IF i < Len(lists) \/ last THEN end ELSE <<>>)])
        Meant(i) == [fields |-> lists[i], line |-> LineOf(lists, i)]
    IN  ParseRecords(text) =
          FlattenSeq([i \in DOMAIN lists |-> IF lists[i] = Blank THEN <<>> ELSE <<Meant(i)>>])

LinesOf(list) == {list[i].line : i \in DOMAIN list}

(* Every row is accounted for, as a bar or as one error on its own line;   *)
(* the bars are the rows that are sound and the first sound ones of their  *)
(* ticker and date, in the order of the file, so a broken row never takes  *)
(* the place of a sound one; and only a whole-file problem hides the rows  *)
(* (parsePriceCsv.ts:161-304).                                             *)
Accounts(r, headers, rows, maxRows) ==
  LET cells == [i \in DOMAIN rows |-> Cells(headers, rows[i].fields)]
      sound == {i \in DOMAIN rows : ~(TRUE \in Range(Fails(cells[i])))}
      first == {i \in sound : \A j \in sound : j < i => KeyOf(cells[j]) # KeyOf(cells[i])}
  IN  IF r.fatal # "none"
      THEN /\ r.rowsRead = 0 /\ r.bars = <<>> /\ r.errors = <<>>
           /\ \/ rows = <<>> \/ Len(rows) > maxRows
              \/ ~(RequiredHeaders \subseteq Range(headers))
      ELSE /\ r.rowsRead = Len(rows) /\ Len(rows) = Len(r.bars) + Len(r.errors)
           /\ LinesOf(r.bars) \cup LinesOf(r.errors) = LinesOf(rows)
           /\ LinesOf(r.bars) = {rows[i].line : i \in first}
           /\ \A i \in 1 .. Len(r.bars) - 1 : r.bars[i].line < r.bars[i + 1].line
           /\ Cardinality({r.bars[i].key : i \in DOMAIN r.bars}) = Len(r.bars)

RowsAreJudged(records, maxRows) ==
  Accounts(ParsePriceCsv(records, maxRows), records[1].fields, Tail(records), maxRows)

=============================================================================
