SPECIFICATION BothSpec
CONSTANTS
  p1 = p1
  m1 = m1
  m2 = m2
  Prompt = {p1}
  NoPrompt = NoPrompt
  Mode = {m1, m2}
  NoMode = NoMode
  OpCap = 2
  MaxRounds = 2
  MaxOps = 3
  Formats = {"text", "json", "stream-json"}
  MaxPieces = 2
INVARIANT ModeAgrees
INVARIANT RunTold
PROPERTY CancelEnds
PROPERTY RunEnds
