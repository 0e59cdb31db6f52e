SPECIFICATION Spec
CONSTANTS
  Characters <- MCCharacters
  Separator = "sep"
  Hooks <- MCHooks
  Failures <- MCFailures
  NoSignature = NoSignature
  NoError <- MCNoError
  Rejections <- MCRejections
  MaxStreak = 3
INVARIANTS
  TypeOK
  RecordDescribesStreak
  SuppressedOnlyAfterTold
PROPERTIES
  RecordsFollowTheirHook
  ImplementsHookStreaks
