-------------------------- MODULE ProviderResponse --------------------------
(***************************************************************************)
(* services/alphaVantageClient.ts, providerErrorClassifier.ts and          *)
(* schemas/alphaVantage.ts: what becomes of one answer of the provider, a  *)
(* series or a public error.  When the answer comes is in Server; here is  *)
(* what it says.                                                           *)
(*                                                                         *)
(* An answer is a record: net, status, type of the content, body (parsed,  *)
(* or garbled when its JSON is not, cut short or aborted), and of a parsed *)
(* body the three advisory members, the meta data and the series.          *)
(***************************************************************************)
EXTENDS Integers, FiniteSets, Sequences, SequencesExt

CONSTANT MaxPoints   \* maxPoints: how many bars are accepted

ASSUME ResponseConstants == MaxPoints \in Nat \ {0}

(* An advisory is absent, of another type than text, or a text, and then   *)
(* the topics that the patterns of the classifier find in it.              *)
Topics == {"rate", "key", "symbol", "outage"}
Advisory(is, topics) == [is |-> is, topics |-> topics]
NoAdvisory == Advisory("absent", {})
Channels == <<"errorMessage", "note", "information">>

(* A row has a date, a number, or Unreal, and a bar; a member of the bar   *)
(* is a number, or Junk for what is not a finite one.                      *)
Unreal == 0
Junk == -99

-----------------------------------------------------------------------------

ClassifyHttpStatus(status) ==
  CASE status = 429 -> "PROVIDER_RATE_LIMITED"
    [] status \in {408, 504} -> "PROVIDER_TIMEOUT"
    [] status \in {401, 403} -> "API_KEY_INVALID"
    [] status = 400 -> "PROVIDER_RESPONSE_INVALID"
    [] OTHER -> "PROVIDER_UNAVAILABLE"

(* A missing content type is let through.                                  *)
IsJsonMediaType(type) == type \in {"application/json", "+json"}

(* Faulty variant: a mention of the key, or of premium plans, goes first.  *)
ClassifyKeyFirst(channel, topics) ==
  CASE "key" \in topics -> "API_KEY_INVALID"
    [] "key" \notin topics /\ "rate" \in topics -> "PROVIDER_RATE_LIMITED"
    [] OTHER -> "PROVIDER_UNAVAILABLE"

(* The first topic that is found decides, and without any the channel.     *)
ClassifyProviderMessage(channel, topics) ==
  LET Priority == <<"rate", "key", "symbol", "outage">>
      CodeOf == [rate |-> "PROVIDER_RATE_LIMITED", key |-> "API_KEY_INVALID",
                 symbol |-> "SYMBOL_NOT_FOUND", outage |-> "PROVIDER_UNAVAILABLE",
                 errorMessage |-> "SYMBOL_NOT_FOUND", note |-> "PROVIDER_RATE_LIMITED",
                 information |-> "PROVIDER_UNAVAILABLE"]
      found == SelectInSeq(Priority, LAMBDA t : t \in topics)
  IN  CodeOf[IF found = 0 THEN channel ELSE Priority[found]]

(* advisoryResponseSchema: one member of another type, and none is seen.   *)
Advised(a) ==
  IF \E i \in DOMAIN Channels : a[Channels[i]].is = "other" THEN {}
  ELSE {i \in DOMAIN Channels : a[Channels[i]].is = "text"}

(* throwOnAdvisory(): the first channel that is there.                     *)
AdvisoryCode(a) ==
  LET i == CHOOSE j \in Advised(a) : \A k \in Advised(a) : j <= k
  IN  ClassifyProviderMessage(Channels[i], a[Channels[i]].topics)

(* providerNumber(): prices are positive, a volume is no less than zero.   *)
ParsesBar(bar) ==
  /\ \A member \in {"open", "high", "low", "close"} : bar[member] # Junk /\ bar[member] > 0
  /\ bar.volume # Junk /\ bar.volume >= 0

Consistent(bar) ==
  ~ \/ bar.high < bar.low \/ bar.high < bar.open \/ bar.high < bar.close
    \/ bar.low > bar.open \/ bar.low > bar.close

(* The tests of fetchDailySeries() and normalize() in their order, each    *)
(* with the error it throws.                                               *)
Tests(answer) ==
  LET rows == answer.rows
      invalid == "PROVIDER_RESPONSE_INVALID"
      Fails(test, code) == [fails |-> test, code |-> code]
  IN  << Fails(answer.net = "aborted", "PROVIDER_TIMEOUT"),
         Fails(answer.net = "refused", "PROVIDER_UNAVAILABLE"),
         Fails(answer.status # 200, ClassifyHttpStatus(answer.status)),
         Fails(answer.type # "" /\ ~IsJsonMediaType(answer.type), invalid),
         Fails(answer.body = "garbled", invalid),
         Fails(Advised(answer.advisory) # {},
               IF Advised(answer.advisory) = {} THEN "" ELSE AdvisoryCode(answer.advisory)),
         Fails(answer.series = "odd", invalid),                          \* preCheckSeriesSize
         Fails(answer.series = "object" /\ Len(rows) > MaxPoints, invalid),
         Fails(\/ answer.meta = "incomplete" \/ answer.series = "absent" \* the schema
               \/ \E i \in DOMAIN rows : ~ParsesBar(rows[i].bar), invalid),
         Fails(answer.meta = "other symbol", invalid),                   \* normalize
         Fails(\E i \in DOMAIN rows : rows[i].date = Unreal \/ ~Consistent(rows[i].bar), invalid),
         Fails(rows = <<>>, "INSUFFICIENT_DATA") >>

(* The bars by date, the last one of a date, the oldest first.             *)
Normalize(rows) ==
  LET byDate == {rows[i].date : i \in DOMAIN rows}
      BarOf(d) == rows[CHOOSE i \in DOMAIN rows : /\ rows[i].date = d
                                                  /\ \A j \in i + 1 .. Len(rows) : rows[j].date # d]
      Nth(n) == CHOOSE d \in byDate : Cardinality({e \in byDate : e < d}) = n - 1
  IN  [n \in 1 .. Cardinality(byDate) |-> BarOf(Nth(n))]

FetchDailySeries(answer) ==
  LET tests == Tests(answer)
      failed == SelectInSeq(tests, LAMBDA test : test.fails)
  IN  IF failed # 0 THEN [code |-> tests[failed].code, bars |-> <<>>]
      ELSE [code |-> "OK", bars |-> Normalize(answer.rows)]

-----------------------------------------------------------------------------

(* An answer becomes a series only if nothing about it is amiss - one bad  *)
(* row spoils it, an advisory beside good data does too - and then the     *)
(* bars are all of them, in the order of their dates, whatever their order *)
(* was; the user is told that the key or the symbol is wrong only if the   *)
(* provider has said so, and that the limit is reached whenever it has     *)
(* said that in the message that counts, whatever else the message says    *)
(* (alphaVantageClient.ts:89-331, providerErrorClassifier.ts:40-71).       *)
AnswerHolds(answer) ==
  LET r == FetchDailySeries(answer)
      bars == {answer.rows[i] : i \in DOMAIN answer.rows}
      first == answer.advisory[CHOOSE c \in Range(Channels) :
                 \E i \in DOMAIN Channels : /\ Channels[i] = c
                                            /\ \A j \in 1 .. i - 1 :
                                                 answer.advisory[Channels[j]].is = "absent"
                                            /\ i = 3 \/ answer.advisory[c].is # "absent"]
      readable == /\ answer.net = "answered" /\ answer.status = 200 /\ answer.body = "parsed"
                  /\ answer.type \in {"", "application/json", "+json"}
      texts == {c \in Range(Channels) : answer.advisory[c].is = "text"}
      others == {c \in Range(Channels) : answer.advisory[c].is = "other"}
      Sound(row) == /\ row.date # Unreal
                    /\ 0 < row.bar.low /\ row.bar.volume >= 0
                    /\ {row.bar.open, row.bar.close} \subseteq row.bar.low .. row.bar.high
  IN  /\ r.code = "OK" <=>
           /\ readable /\ (texts = {} \/ others # {})
           /\ answer.meta = "good" /\ answer.series = "object"
           /\ Len(answer.rows) \in 1 .. MaxPoints
           /\ \A row \in bars : Sound(row)
      /\ r.code = "OK" =>
           /\ {r.bars[i] : i \in DOMAIN r.bars} = bars
           /\ \A i \in 1 .. Len(r.bars) - 1 : r.bars[i].date < r.bars[i + 1].date
      /\ r.code = "API_KEY_INVALID" =>
           \/ answer.net = "answered" /\ answer.status \in {401, 403}
           \/ readable /\ "key" \in first.topics /\ "rate" \notin first.topics
      /\ r.code = "SYMBOL_NOT_FOUND" =>
           readable /\ ("symbol" \in first.topics \/ answer.advisory.errorMessage.is = "text")
      /\ readable /\ others = {} /\ "rate" \in first.topics => r.code = "PROVIDER_RATE_LIMITED"

=============================================================================
