\* Either process may be killed at any point.
CONSTANTS
  CounterCount = 3
  Kills = {"parent", "child"}
SPECIFICATION PerfcountSpec
INVARIANTS ValueCoversCommand
PROPERTY NobodyWaitsForever
\* The measurement ends.
CHECK_DEADLOCK FALSE
