SPECIFICATION EventSpec
CONSTANTS
  RxThreads = {rx1, rx2}
  Critical = {estop}
  Normal = {telemetry}
  Background = {costmap}
  QueueBound = 3
  EventfdMax = 2
  None = None
INVARIANTS TypeOK NoLostWakeup
PROPERTIES CriticalServed StopEndsRun EveryFrameServed BackgroundServed
CHECK_DEADLOCK FALSE
