SPECIFICATION Spec
CONSTANTS
  Channels = {critical, normal}
  LATENCY_WINDOW_SIZE = 4
  P95 = 50
  P99 = 80
  Latencies = {1, 2, 3}
  MaxRecords = 5
PROPERTY StatsDescribeRecent
