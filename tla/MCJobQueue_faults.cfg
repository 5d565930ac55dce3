SPECIFICATION FairSpec
CONSTANTS
  Jobs = {j1, j2}
  Workers = {w1, w2, w3}
  NoWorker = NoWorker
  NoJob = NoJob
  MaxOutputs = 2
  MaxFaults = 1
INVARIANTS
  AtMostOneSend
  CanceledWasNeverSent
  AnswerIsNotForgotten
  ResultsMatchAssets
PROPERTIES
  OutcomeComesFromHolder
  KeepsLifecycle
  EveryJobSettles
CHECK_DEADLOCK FALSE
