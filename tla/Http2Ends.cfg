CHECK_DEADLOCK FALSE
CONSTANTS
  c1 = c1
  c2 = c2
  Conns = {c1}
  NoConn = NoConn
  MaxHandles = 3
  Content <- MCContent
  Index <- MCIndex
  Protected = {"form"}
  Forms = {"form"}
  Prints <- MCPrints
  Verdict = "v"
  Requests <- MCAllRequests
  Browsers <- MCTwoBrowsers
  TxRoom = 3
  MinFree = 2
SPECIFICATION Spec
INVARIANT AnsweredInFull
 
