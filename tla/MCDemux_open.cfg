SPECIFICATION OpenSpec
CONSTANTS
  Containers <- SomeFiles
  Limit <- Ceilings
  Padding = 1
  MaxAsk = 4
INVARIANTS
  VerdictHonest
  PaidAsJudged
