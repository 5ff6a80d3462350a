CONSTANTS
  StageCount = 2
  Width <- TwoThenOne
  Names <- ChildNames
  Name <- OwnNames
  NeedsResults = {2}
  MaxPipelines = 2
  MaxFaults = 1
  MaxLag = 2
  Nobody = Nobody
  Stranger = Stranger
  Envs <- Environments
SPECIFICATION FairSpec
INVARIANTS TypeOK EndIsTrue
PROPERTIES StageGate TerminalSticky PipelineEnds
CHECK_DEADLOCK FALSE
