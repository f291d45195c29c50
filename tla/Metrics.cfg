SPECIFICATION MetricsSpec
CONSTANTS
  workloadA = workloadA
  workloadB = workloadB
  Workload = {workloadA, workloadB}
  Unknown = Unknown
  p1 = p1  p2 = p2
  Pod = {p1, p2}
  Reports <- MCReports
  Declarations <- MCDeclarations
  Series <- MCSeries
  Mapped = {"db"}
  MaxMinutes = 1
  m1 = m1  m2 = m2  m3 = m3
  Process = {m1, m2, m3}
  Last = 4
  MaxStops = 2
INVARIANTS AnswersShown RecordedAsApplied ReadyMeansCurrent
PROPERTIES TriggersKept ReadyInTheEnd
CHECK_DEADLOCK FALSE
