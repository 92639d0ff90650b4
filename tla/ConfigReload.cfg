SPECIFICATION FairSpec
CONSTANTS
  Patterns = {p1, nothing}
  Default = nothing
  Bad = bad
  NoPattern = none
  MaxEdits = 1
  MaxPosts = 2
  MaxEnds = 1
INVARIANTS InForceWasWritten ShownIsInForce SettledIsInForce PostsKeepFileUsable
PROPERTY LastWriteApplied
