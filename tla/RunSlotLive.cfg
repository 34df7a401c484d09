CONSTANTS
  Starter = {s1}
  MaxRuns = 2
  MaxResults = 0
  MaxFrontendResults = 1
SPECIFICATION FairSpec
PROPERTY RunsFinish
