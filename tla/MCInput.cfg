\* The pool with three tasks and two workers, the queues of two clients, and
\* their devices.
SPECIFICATION SuiteSpec
CONSTANTS
  t1 = t1
  t2 = t2
  t3 = t3
  w1 = w1
  w2 = w2
  Forever = Forever
  Tasks <- MCTasks
  Workers <- MCWorkers
  Delays <- MCDelays
  MaxTime = 2
  c1 = c1
  c2 = c2
  None = None
  Inputs <- MCInputs
  Clients <- MCClients
  MaxQueue = 3
  MaxReady = 2
  MaxPerDrain = 2
  MaxShort = 2
  Keys = {k1, k2}
  Pads = {p1}
  Slots <- MCSlots
  Ids <- MCIds
  MaxTimers = 2
  MaxEnding = 1
  Configs <- MCConfigs
  Disabled = Disabled
INVARIANT SingleFlight
INVARIANT LateTasksFit
PROPERTY BatchingKeepsChanges
PROPERTY InputsAreTaken
PROPERTY RepeatsStop
PROPERTIES KeepsPromise NoWakeupIsLost
CHECK_DEADLOCK FALSE
