SPECIFICATION FairSpec
CONSTANTS
  Workers = {w1, w2}
  c1 = c1
  c2 = c2
  Conns = {c1, c2}
  Nobody = Nobody
  MaxLine = 4
  RioBufSize = 2
  Streams <- MCStreams
  LongWords = {"long"}
  Uris = {"..", "page", "cgi", "long"}
  Disks <- MCDisks
  Changes <- MCChanges
  MaxMishaps = 1
CHECK_DEADLOCK FALSE
INVARIANTS
  TypeOK
  LinesExact
  AnswerWhole
  NoHarmWithoutCause
  StatisticsAgree
PROPERTIES
  EveryExchangeEnds
