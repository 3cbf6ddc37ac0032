CONSTANTS
  MaxSockets = 3
  Ports = 5
  ArpTries = 3
  Failures = 2
  Gateway = "gw"
  Local = {"gw", "dns1"}
  NtpServer = "ntp"
  NameServers <- MCNameServers
SPECIFICATION SafeSpec
INVARIANTS SocketsOwned RightHop AnswerIsFresh
