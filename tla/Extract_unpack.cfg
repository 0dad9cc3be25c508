SPECIFICATION Unpacking
CONSTANTS
  Scenarios <- MCScenarios
  Waiting <- MCWaiting
  MaxFaults = 1
  MaxStrangers = 2
INVARIANT TakenBack
INVARIANT ConfigurationWins
INVARIANT Foreseen
INVARIANT LaidOut
