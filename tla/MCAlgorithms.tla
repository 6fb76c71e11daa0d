---------------------------- MODULE MCAlgorithms ----------------------------
(***************************************************************************)
(* The pure algorithms over bounded inputs.  One behaviour builds one      *)
(* input, a piece at each step, and every piece on the way is an input     *)
(* too; the invariants compare what the code computes with a definition.   *)
(***************************************************************************)
EXTENDS TradingCalendar, PriceAnalytics, PriceCsv, ProviderResponse

CONSTANTS FirstYear, LastYear,   \* of the calendar
          MaxCloses,             \* prices in a series
          MaxRecords,            \* records of a text
          MaxRows, RowLimit,     \* rows of a file, and limits.maxRows
          MaxAnswerRows          \* rows of an answer

(* Days count from 1970, the rule lists the full moons until 2199, and the *)
(* days around today may lie in the next year or the one before.           *)
ASSUME CalendarConstants == FirstYear .. LastYear \subseteq 1971 .. 2198

VARIABLE input   \* what it is, and what there is of it

Is(kind) == input.kind = kind
Grow(value) == input' = [input EXCEPT !.value = value]

-----------------------------------------------------------------------------
(* Days: every day of the years.                                           *)

NextDay == /\ Is("day")
           /\ input.value < UTC(YearOf(input.value), 12, 31)
           /\ Grow(input.value + 1)

(* Closing prices.                                                         *)
NextClose == /\ Is("closes") /\ Len(input.value) < MaxCloses
             /\ \E c \in 1 .. MaxPrice : Grow(Append(input.value, c))

(* The fields of a file.                                                   *)
Fields == {<<>>, <<"x">>, <<Comma>>, <<Quote>>, <<LF>>, <<"x", CR, LF>>}

NextRecord == /\ Is("text") /\ Len(input.value) < MaxRecords
              /\ \E f \in Fields :
                   \/ Grow(Append(input.value, <<f>>))
                   \/ \E g \in Fields : Grow(Append(input.value, <<f, g>>))

(* The rows of a file below a header: good ones, and each check failing.   *)
Columns == <<"ticker", "date", "open", "high", "low", "close", "volume",
             "adjusted_close", "currency">>
GoodRow == <<"A", "d1", "2", "3", "1", "2", "0", Empty, Empty>>

Headers == {Columns, Append(Columns, "ticker"), <<"note">> \o Columns, Tail(Columns),
            SubSeq(Columns, 1, 7)}

Changes == {<<1, "A">>, <<1, "B">>, <<1, "=">>, <<2, "d2">>, <<2, Empty>>, <<3, "x">>, <<5, "0">>,
            <<4, "1">>, <<7, "-1">>, <<8, "0">>, <<8, "1">>, <<9, "US">>}

Rows == {[GoodRow EXCEPT ![ch[1]] = ch[2]] : ch \in Changes} \cup {SubSeq(GoodRow, 1, 6)}

NextRow == /\ Is("rows") /\ Len(input.value) <= MaxRows
           /\ \E row \in Rows :
                Grow(Append(input.value, [fields |-> row, line |-> Len(input.value) + 1]))

(* Answers of the provider.                                                *)
GoodBar == [open |-> 2, high |-> 3, low |-> 1, close |-> 2, volume |-> 0]

Bars == {GoodBar, [GoodBar EXCEPT !.close = 3, !.high = 3], [GoodBar EXCEPT !.high = 1],
         [GoodBar EXCEPT !.open = Junk], [GoodBar EXCEPT !.low = 0], [GoodBar EXCEPT !.volume = -1]}

GoodAnswer == [net |-> "answered", status |-> 200, type |-> "application/json", body |-> "parsed",
               advisory |-> [c \in Range(Channels) |-> NoAdvisory],
               meta |-> "good", series |-> "object", rows |-> <<>>]

SomethingAmiss ==
  {[GoodAnswer EXCEPT !.net = "aborted"], [GoodAnswer EXCEPT !.net = "refused"],
   [GoodAnswer EXCEPT !.type = "text/html"], [GoodAnswer EXCEPT !.type = ""],
   [GoodAnswer EXCEPT !.body = "garbled"], [GoodAnswer EXCEPT !.meta = "incomplete"],
   [GoodAnswer EXCEPT !.meta = "other symbol"], [GoodAnswer EXCEPT !.series = "absent"],
   [GoodAnswer EXCEPT !.series = "odd"]} \cup
  {[GoodAnswer EXCEPT !.status = s] : s \in {400, 401, 404, 408, 429, 500}}

GoodRows == <<[date |-> 1, bar |-> GoodBar]>>

Answers == {GoodAnswer, [GoodAnswer EXCEPT !.rows = GoodRows]} \cup
           {[answer EXCEPT !.rows = GoodRows] : answer \in SomethingAmiss}

(* Rows are added where nothing else is amiss, advisories to one good row. *)
Unadvised == \A c \in Range(Channels) : input.value.advisory[c] = NoAdvisory

(* A JSON object names a date once.                                        *)
NextAnswerRow ==
  /\ Is("answer") /\ Unadvised
  /\ [input.value EXCEPT !.rows = <<>>] = GoodAnswer
  /\ Len(input.value.rows) < MaxAnswerRows
  /\ \E date \in (Unreal .. MaxAnswerRows) \ {input.value.rows[i].date : i \in DOMAIN input.value.rows},
        bar \in Bars :
       Grow([input.value EXCEPT !.rows = Append(@, [date |-> date, bar |-> bar])])

NextAdvisory ==
  /\ Is("answer") /\ input.value.rows = GoodRows
  /\ \E c \in Range(Channels), topics \in SUBSET Topics, is \in {"text", "other"} :
       /\ input.value.advisory[c] = NoAdvisory
       /\ is = "other" => topics = {}
       /\ Grow([input.value EXCEPT !.advisory[c] = Advisory(is, topics)])

-----------------------------------------------------------------------------

Input(kind, value) == [kind |-> kind, value |-> value]

InputInit == \/ \E year \in FirstYear .. LastYear : input = Input("day", UTC(year, 1, 1))
             \/ input = Input("closes", <<>>)
             \/ input = Input("text", <<>>)
             \/ \E headers \in Headers : input = Input("rows", <<[fields |-> headers, line |-> 1]>>)
             \/ \E answer \in Answers : input = Input("answer", answer)

InputNext == NextDay \/ NextClose \/ NextRecord \/ NextRow \/ NextAnswerRow \/ NextAdvisory

InputSpec == InputInit /\ [][InputNext]_input

-----------------------------------------------------------------------------

(* CalendarHolds, on every day of the years.                               *)
CalendarIsTheRule == Is("day") => CalendarHolds(input.value)

(* ReportHolds and ChartHolds, for every series, window and volatility.    *)
Volatilities == {<<10, 1>>, <<20, 1>>, <<40, 1>>}

ReportIsConsistent == Is("closes") /\ input.value # <<>> =>
  /\ \A want \in {SmaShort, SmaLong}, v \in Volatilities : ReportHolds(input.value, want, v)
  /\ \A cap \in 1 .. MaxCloses : ChartHolds(Len(input.value), cap)

(* TextIsReadBack and RowsAreJudged, for every text and every file.        *)
CsvIsReadTruly == /\ Is("text") => TextIsReadBack(input.value)
                  /\ Is("rows") => RowsAreJudged(input.value, RowLimit)

(* AnswerHolds, for every answer.                                          *)
ResponseIsJudged == Is("answer") => AnswerHolds(input.value)

=============================================================================
