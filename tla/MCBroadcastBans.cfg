CONSTANTS
  Parties <- MCParties
  Me <- MCMe
  Node <- MCNode
  Output <- MCOutput
  PossibleIds <- MCPossibleIds
  Rank <- MCRank
  Names = {"x_recv"}
  None = None
  Payloads <- MCPayloads
  Malformed <- MCMalformed
  Message <- MCMessage
  MaxReceived = 1
  MayFail = {}
  Bannable = {2}
  Escalated <- MCEscalated
  MessagesOf <- MCMessagesOf
  Faulty = {3}
SPECIFICATION Spec
PROPERTIES
  BanDiscardsValues
CHECK_DEADLOCK FALSE
