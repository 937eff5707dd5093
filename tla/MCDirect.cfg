CONSTANTS
  Parties <- MCParties
  Me <- MCMe
  Node <- MCNode
  Output <- MCOutput
  PossibleIds <- MCPossibleIds
  Rank <- MCRank
  Names = {"s_recv", "unknown"}
  None = None
  Payloads <- MCPayloads
  Malformed = {}
  Message <- MCMessage
  MaxReceived = 2
  MayFail = {"s_open", "s_check", "share", "out"}
  Bannable = {}
  Escalated <- MCEscalated
  MessagesOf <- MCMessagesOf
  Faulty = {3}
SPECIFICATION Spec
INVARIANTS
  NoRuntimeError
  CollectsPossible
  CollectSound
  EvidenceVerifies
PROPERTIES
  ImplementsDataflow
CHECK_DEADLOCK FALSE
