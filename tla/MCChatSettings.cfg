CONSTANTS
  Presets = {"general"}
  Typed = {"mine"}
  Moves <- MCMoves
  MaxSaves = 2
SPECIFICATION Spec
INVARIANTS
  RoleNeverOutrunsSettings
  LoadNeverGoesBack
PROPERTIES
  UntouchedSaveKeeps
  TypedCustomRoleIsSaved
