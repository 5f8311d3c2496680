SPECIFICATION Spec
CONSTANTS
  Programs = {"tcp_socket", "http_get_tls", "connect_mqtt", "esp32_mqtt"}
  MaxRuns = 3
  MaxFaults = 2
INVARIANTS
  UseIsOnOwnContext
  LeftoverNeverKills
  ClockPairIsOfOneMoment
CHECK_DEADLOCK FALSE
