SPECIFICATION FairSpec
CONSTANTS
  s1 = s1
  s2 = s2
  f1 = f1
  f2 = f2
  None = None
  Share = {s1, s2}
  Ask = {a1, a2}
  Download = {d1, d2}
  File = {f1, f2}
  Files <- MCFiles
  AutoAccept = {s2}
INVARIANTS
  DownloadIsPermitted
PROPERTIES
  AskIsAnswered
  GrantTakesEffect
  CompletionIsReported
CHECK_DEADLOCK FALSE
