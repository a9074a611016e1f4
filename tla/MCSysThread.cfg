SPECIFICATION FairSpec
CONSTANT MaxTokens = 3
INVARIANTS
  ReportIsTrue
  NobodyIsStuck
PROPERTY CallsReturn
