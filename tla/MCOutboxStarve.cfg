SPECIFICATION FairSpec
CONSTANTS
  r1 = r1  r2 = r2  r3 = r3  t1 = t1  t2 = t2  a1 = a1  a2 = a2  d1 = d1
  Row = {r1, r2, r3}
  Topic = {t1, t2}
  TopicOf <- ThreeTopics
  AggOf <- ThreeAggs
  Dispatcher = {d1}
  Batch = 2
  MaxFailures = 2
  Sick = {t1}
  MaxFault = 0
PROPERTIES HealthyTopicsDrain
CHECK_DEADLOCK FALSE
