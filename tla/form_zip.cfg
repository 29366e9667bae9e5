SPECIFICATION MCSpec
CONSTANTS
  e1 = e1
  e2 = e2
  Executions = {e1, e2}
  MaxCancels = 1
  Zips = {"z1", "z2", "z3", "z4", "z5"}
  Refused = {"z3"}
  Unreadable = {"z4"}
  Sourceless = {"z5"}
  Nodes = {"n1", "n2"}
  TaskTypes = {"lcs", "camm"}
  Inputs = {1, 4, 7}
  Samples = {1, 10, 30, 101}
  Limits <- MCLimits
  Courses = {"c1", "c2"}
  AutoSelect = TRUE
  RepeatOf <- MCRepeatOf
  RepeatZip = "z2"
  ReuseOf <- MCReuseOf
  ProtocolOf <- MCProtocolOf
  StarterOf <- MCStarterOf
  MaxPosts = 2
INVARIANT ReadyZipWasInspected
CHECK_DEADLOCK FALSE
