SPECIFICATION RSpec
CONSTANTS
  Kinds <- AllKinds
  Modes = {"manual", "auto", "plan"}
  NoMode = NoMode
  OpCap = 2
  MaxCalls = 2
  MaxRound = 2
  MaxActs = 1
INVARIANT RoundSound
PROPERTY OwnConsent
PROPERTY EffectsInRound
PROPERTY InterruptEnds
