SPECIFICATION FairSpec
CONSTANTS
  e1 = e1
  e2 = e2
  g1 = g1
  embedding = embedding
  generation = generation
  Stages = {embedding, generation}
  StageOf <- MCStageOf
  Limit <- MCLimit
  Requests = {e1, e2, g1}
  Streaming = {g1}
  Background = {e2}
  StreamCap = 1
  MaxChunks = 1
  Cancellable = {e1, g1}
  MayClose = TRUE
INVARIANTS DrainBoundary TerminalItemIsLast
PROPERTIES EveryCallerAnswered
CHECK_DEADLOCK FALSE
