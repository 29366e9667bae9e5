SPECIFICATION Spec
CONSTANTS
  Executions = {1, 2}
  Submissions = {s1}
  SubmissionOf <- OneBundle
  Dispatchers = {d1}
  NoDispatcher = NoDispatcher
  Requests = {r1}
  Faults = {}
  d1 = d1
  d2 = d2
  r1 = r1
  s1 = s1
PROPERTIES ClaimIsFifo
