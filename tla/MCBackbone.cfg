SPECIFICATION PartsSpec
CONSTANTS
  r1 = r1  r2 = r2  r3 = r3  t1 = t1  t2 = t2  a1 = a1  d1 = d1
  Row = {r1, r2, r3}
  Topic = {t1, t2}
  TopicOf <- OneSick
  AggOf <- OneAggregate
  Dispatcher = {d1}
  Batch = 2
  MaxFailures = 1
  Sick = {t1}
  MaxFault = 2
  Replica = {p1, p2}
  Operator = {u1}
  v1 = v1  v2 = v2  v3 = v3  c1 = c1  c2 = c2
  Event = {v1, v2, v3}
  Currency = {c1, c2}
  Worker = {w1, w2}
  o1 = o1  o2 = o2  o3 = o3  x1 = x1  x2 = x2
  Operation = {o1, o2, o3}
  Request = {q1, q2}
  Call = {k1, k2, k3, k4}
  Writer = {f1}
  Sweeper = {s1, s2}
INVARIANTS PartsTypeOK PublishedIsStored InOrderUnlessOverlapped
  DuplicatesArePaid DeadIsExhausted AnswerIsOwn ProbesCapped
  HistoryIsProvable
PROPERTIES HealthyTopicsDrain EveryRowSettles EnqueuedIsProcessed ReaperRecovers
  GrantsImplementContract RenewalIsGranted CircuitRecovers
CHECK_DEADLOCK FALSE
