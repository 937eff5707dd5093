SPECIFICATION StagedSpec
CONSTANTS
  s = s
  r1 = r1
  r2 = r2
  None = None
  Stranger = Stranger
  Receivers = {s, a, b, c, d}
  Sender = s
  MaxFaulty = 1
  Faulty = {s}
  Root = {r1, r2}
  Sound = {r1}
  Loose = {}
  SenderRoot = r1
  FaultyMessages = {"echo", "ready"}
  SenderMessages <- Equivocation
SYMMETRY Interchangeable
INVARIANTS OneDispersal ReadyJustified OutputsSound
CHECK_DEADLOCK FALSE
