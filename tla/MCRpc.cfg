CONSTANTS
  ok = ok
  refused = refused
  None = None
  Zero = Zero
  Result = {ok, refused}
  MaxRuns = 2
  EndEarly = FALSE
SPECIFICATION FairSpec
CHECK_DEADLOCK FALSE
PROPERTIES
  PortSpec
  BothEnd
