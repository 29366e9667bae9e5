SPECIFICATION MCSpec
CONSTANTS
  Ids = {1, 2}
  Searches = {"", "text"}
  LastPage = 2
  MaxVersion = 1
  MaxCalls = 2
  MaxRequests = 2
  IsAdmin = TRUE
  CanSupervise = TRUE
  Executions = {1, 2, 3}
  Sizes = {1, 2}
INVARIANTS
  PagesTypeOK
  ReadYourWrites
PROPERTIES
  DecisionStaysOnScreen
  ShowsTheLatest
