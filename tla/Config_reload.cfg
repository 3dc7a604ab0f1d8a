CONSTANTS
  Section <- Sections
  Key <- Keys
  Lower <- LowerOf
  Value <- Values
  Text <- Texts
  Comment <- Comments
  NULL = NULL
  FirstFiles <- Files
  MaxCalls = 5
SPECIFICATION Spec
INVARIANTS TypeOK SettingsSurvive LinesSurvive FilesSettle NamesUnique
CHECK_DEADLOCK FALSE
