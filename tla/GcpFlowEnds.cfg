SPECIFICATION Spec
CONSTANTS
  Settings = {"gcp_logs"}
  Clusters <- MCClusters
  Projects <- MCProjects
  FlowLogs <- MCFlowLogs
INVARIANT FlowsCollected
