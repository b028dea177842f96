CONSTANTS
  Hosts <- MCHosts
  Digits = {"1"}
  Ping = "p"
  CtrlC = "^C"
  CMD_LINE_MAX = 4
  MaxLines = 3
  NoByte = NoByte
SPECIFICATION ChannelSpec
INVARIANTS ChannelSound
PROPERTIES ImplementsService MenuIsLeft
CHECK_DEADLOCK FALSE
