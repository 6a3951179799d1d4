SPECIFICATION Safe
CONSTANTS
  Models = {m1}
  None = None
  MaxDownloads = 2
INVARIANTS
  NoPartialModelIsOffered
