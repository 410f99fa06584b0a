CONSTANTS
  extract = extract
  map = map
  evaluate = evaluate
  save = save
  Handlers <- PipelineSteps

SPECIFICATION FairSpec

INVARIANTS
  OneProcess
  BoundedNeglect

PROPERTIES
  ImplementsSupervision
