SPECIFICATION OnboardLive
CONSTANTS
  DoctorSites <- MCDoctorSites
  UpSites <- MCUpSites
  Invocations <- MCInvocations
  MaxRuns = 2
  MaxTapped = 2
INVARIANTS  HandedOverIsVerified
PROPERTIES PreflightEnds
CHECK_DEADLOCK FALSE
