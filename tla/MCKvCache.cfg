CONSTANTS
  Seqs <- MCSeqs
  NUbatch = 2
  Uses <- MCUses
SPECIFICATION Spec
INVARIANTS
  CountersAgree
  KeyMatchesPosition
  FindsSlotWhenItFits
PROPERTIES
  DecodeAddsItsTokens
  AttendedSurvives
