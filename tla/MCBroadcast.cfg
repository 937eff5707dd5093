CONSTANTS
  Parties <- MCParties
  Me <- MCMe
  Node <- MCNode
  Output <- MCOutput
  PossibleIds <- MCPossibleIds
  Rank <- MCRank
  Names = {"x_recv"}
  None = None
  Payloads <- MCPayloads
  Malformed <- MCMalformed
  Message <- MCMessage
  MaxReceived = 3
  MayFail = {"x_check", "out"}
  Bannable = {2}
  Escalated <- MCEscalated
  MessagesOf <- MCMessagesOf
  Faulty = {3}
SPECIFICATION Spec
INVARIANTS
  TypeOK
  GotExact
  BansAccounted
  OneValuePerSlot
  EvidenceSound
  CorrectNotBlamed
CHECK_DEADLOCK FALSE
