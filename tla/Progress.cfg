SPECIFICATION BothSpec
CONSTANTS
  Requests = {r1, r2, r3}
  Sessions = {s1}
  NoOne = NoOne
  EnableSubAgents = TRUE
  EnableGoal = TRUE
  EnablePlan = TRUE
  MaxGoalNudges = 1
  MaxPlanNudges = 1
  MaxLLMCalls = 4
  MaxToolIterations = 2
  MaxRuns = 2
  MaxCrashes = 1
  MaxFaults = 1
  MaxSteps = 1
  MaxEntries = 2
INVARIANTS
  TypeOK
  NoPrematureText
  ProgressSurvives
PROPERTIES
  ImplementsTurns
  EveryRunEnds
