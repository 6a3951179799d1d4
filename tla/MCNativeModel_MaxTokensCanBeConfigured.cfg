SPECIFICATION Spec
CONSTANTS
  MinPredict = 1
  MaxPredict = 16
  Headroom = 4
  MinContext = 8
  MaxContext = 32
  Pad = 1
  Batch = 2
  MaxPrompt = 10
INVARIANTS MaxTokensCanBeConfigured
