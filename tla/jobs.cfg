CONSTANTS
  MaxJobs = 3
  Keys = {k1}
  Unknown = {1}
  Askers = {3}
  Savers = {2}
  Waiters = {w1}
  NoKey = NoKey
  NoJob = NoJob
  MaxRunning = 1
  MaxQueued = 1
  MaxQuestions = 2
  MaxSteps = 1
  MaxStops = 1
SPECIFICATION FairSpec
INVARIANTS OneOpenJobPerKey TableMatchesMemory AnswerFitsQuestion
PROPERTIES HistoryIsKept WaitReturnsOnceRecovered QueueMoves
