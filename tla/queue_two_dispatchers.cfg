SPECIFICATION Spec
CONSTANTS
  Executions = {1, 2}
  Submissions = {s1}
  SubmissionOf <- OneBundle
  Dispatchers = {d1, d2}
  NoDispatcher = NoDispatcher
  Requests = {r1}
  Faults = {"session", "crash", "error", "slow"}
  d1 = d1
  d2 = d2
  r1 = r1
  s1 = s1
INVARIANTS SoleOwner
SYMMETRY DispatcherSymmetry
