SPECIFICATION StagedSpec
CONSTANTS
  s = s
  r1 = r1
  r2 = r2
  None = None
  Stranger = Stranger
  Receivers = {s, a, b, c}
  Sender = s
  MaxFaulty = 1
  Faulty = {s}
  Root = {r1, r2}
  Sound = {r1, r2}
  Loose = {}
  SenderRoot = r1
  FaultyMessages = {"echo", "ready"}
  SenderMessages <- Equivocation
SYMMETRY Interchangeable
INVARIANT Agreement
CHECK_DEADLOCK FALSE
