SPECIFICATION Spec
CONSTANTS
  Models = {m1}
  None = None
  MaxDownloads = 2
PROPERTIES
  EndsAreNoticed
