INIT BothInit
NEXT BothNext
CONSTANTS
  p1 = p1
  p2 = p2
  p3 = p3
  m1 = m1
  Prompt = {p1, p2, p3}
  NoPrompt = NoPrompt
  Mode = {m1}
  NoMode = NoMode
  OpCap = 2
  MaxRounds = 2
  MaxOps = 4
  Found <- Leftovers
  MaxMessages = 6
  MaxOverflowRetries = 2
SYMMETRY PromptSymmetry
INVARIANTS
  PromptsServed
  QueuesAgree
  FlightAgreed
  RequestsValid
  ResumeShowsSame
