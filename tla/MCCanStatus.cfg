CONSTANTS
  Faults <- MCFaults
  NoFault = NoFault
SPECIFICATION FairSpec
INVARIANTS NoPermissionAfterFault AtMostOneWrong
PROPERTIES CauseIsTold
