\* Windows of 2 and 4 prices for 20 and 50; every day of 25 years, which
\* have all kinds of year there are.
SPECIFICATION InputSpec
CONSTANTS
  SmaShort = 2
  SmaLong = 4
  RsiPeriod = 2
  MaxPrice = 4
  MaxPoints = 2
  FirstYear = 2012
  LastYear = 2036
  MaxCloses = 6
  MaxRecords = 2
  MaxRows = 3
  RowLimit = 2
  MaxAnswerRows = 3
INVARIANTS CalendarIsTheRule ReportIsConsistent CsvIsReadTruly ResponseIsJudged
CHECK_DEADLOCK FALSE
