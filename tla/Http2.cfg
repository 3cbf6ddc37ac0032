CHECK_DEADLOCK FALSE
CONSTANTS
  c1 = c1
  c2 = c2
  Conns = {c1, c2}
  NoConn = NoConn
  MaxHandles = 5
  Content <- MCContent
  Index <- MCIndex
  Protected = {}
  Forms = {"form"}
  Prints <- MCPrints
  Verdict = "v"
  Requests <- MCRequests
  Browsers <- MCBrowsers
  TxRoom = 3
  MinFree = 2
SPECIFICATION SafeSpec
INVARIANTS HandlesOwned RightAnswer
