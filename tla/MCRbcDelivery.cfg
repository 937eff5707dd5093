SPECIFICATION FairTurnsSpec
CONSTANTS
  s = s
  r1 = r1
  r2 = r2
  None = None
  Stranger = Stranger
  Receivers = {s, a, b, c}
  Sender = s
  MaxFaulty = 1
  Faulty = {c}
  Root = {r1}
  Sound = {r1}
  Loose = {}
  SenderRoot = r1
  FaultyMessages = {"echo", "junk"}
  SenderMessages = {}
INVARIANT CorrectSenderDelivers
 
CHECK_DEADLOCK FALSE
