SPECIFICATION Spec
CONSTANTS
  Sources = {s1, s2}
  Home = o1
  Mail = {s1}
  Opps = {o1, o2}
  None = None
  Observations = {"open", "done"}
  Imports = {"content", "withheld"}
  Targets = {"open", "completed"}
  MaxRevision = 2
  MaxVersions = 4
  MaxDecisions = 4
  MaxTransitions = 3
  MaxRequests = 4
  MaxFaults = 1
INVARIANTS OperationsAreWhole ViewsAreAuthorized ScreensAreTrue
PROPERTY PromotedIsAuthorized
CHECK_DEADLOCK FALSE
