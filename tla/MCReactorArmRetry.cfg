SPECIFICATION TimerSpec
CONSTANTS
  RxThreads = {rx1, rx2}
  Critical = {estop}
  Normal = {telemetry}
  Background = {costmap}
  QueueBound = 1
  EventfdMax = 2
  None = None
PROPERTIES ArmIsRetried
CHECK_DEADLOCK FALSE
