SPECIFICATION FairSpec
CONSTANTS
  Client = {c1, c2}
  Called = {"retire", "submit", "operate"}
  MaxCalls = 2
  MaxFrames = 0
  MaxOwners = 1
PROPERTIES
  
  CallsReturn
CHECK_DEADLOCK FALSE
