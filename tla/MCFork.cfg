CONSTANTS
  Parties <- MCParties
  Me <- MCMe
  Node <- MCNode
  Output <- MCOutput
  PossibleIds <- MCPossibleIds
  Rank <- MCRank
  Names = {"v_recv", "c_recv"}
  None = None
  Payloads = {"a"}
  Malformed = {}
  Message <- MCMessage
  MaxReceived = 1
  MayFail = {"c_check", "choice"}
  Bannable = {1}
  Escalated = {}
  MessagesOf <- MCMessagesOf
SPECIFICATION FairSpec
INVARIANTS
  WaitsExact
PROPERTIES
  ReadyNodesComputed
  ForksRejoin
CHECK_DEADLOCK FALSE
