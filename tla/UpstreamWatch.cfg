SPECIFICATION Spec
CONSTANTS
  r1 = r1
  r2 = r2
  Requests = {r1, r2}
  Upstreams = {"electron", "chromium"}
  TargetLists <- MCTargetLists
  MaxTag = 2
  LookN = 2
  Window = 1
  Retention = 1
  MaxDay = 2
  MaxFaults = 1
SYMMETRY Interchangeable
INVARIANTS
  TypeOK
  RepeatsOnlyByOverlap
  LossIsReported
  AnswerIsComplete
