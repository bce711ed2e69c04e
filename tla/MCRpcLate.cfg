CONSTANTS
  ok = ok
  refused = refused
  None = None
  Zero = Zero
  Result = {ok, refused}
  MaxRuns = 2
  EndEarly = TRUE
SPECIFICATION FairSpec
CHECK_DEADLOCK FALSE
INVARIANTS
  NoEmptyAnswer
