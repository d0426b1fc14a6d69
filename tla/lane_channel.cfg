CONSTANTS
  Lane = 5
  Rows = 2
  Query <- MCQuery
  Chn <- MCChn
  Addr <- MCAddr
  Bank <- MCBank
  CmdDepth = 1
  VdsDepth = 1
  OutDepth = 1
  Runs = 2
SPECIFICATION Spec
INVARIANT ChannelIsBit3
