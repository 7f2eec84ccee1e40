SPECIFICATION FairSpec
CONSTANTS
  p1 = p1
  p2 = p2
  c1 = c1
  None = None
  Run = {p1, p2}
  Cand = {c1}
  CandOf <- SameCandidate
  Legacy = {}
  MaxRecords = 4
INVARIANTS TypeOK NoReplay ReceiptsAreDurable AppendsVerify
PROPERTIES OnlyParseFailureReleases ReadsReportSessions ImplementsLedger WriterLeaves
