SPECIFICATION Spec
CONSTANTS
  Settings = {"failing", "changing", "lasting", "gcp_failing", "gcp_paged", "gcp_changing", "gcp_logs"}
  Clusters <- MCClusters
  Projects <- MCProjects
  FlowLogs <- MCFlowLogs
INVARIANTS RelationsResolved FailureIsLocal FlowsShown
PROPERTY ShownInTheEnd
