SPECIFICATION FairRecoverySpec

CONSTANTS
  d1 = d1
  d2 = d2
  NoDisk = NoDisk
  Disks = {d1, d2}
  MaxMishaps = 1
  MaxUpdates = 1
  MaxSnapshots = 2

CHECK_DEADLOCK FALSE

INVARIANTS
  RecoveryTypeOK
  CleanSessionsCloseAll
  CleanInstallsAreOnTheDisk
  CleanInstallsDoNotBoot
  SuccessIsNotAboutTheDisk

PROPERTIES
  DisksChangeOnConsent
  RollbacksDoNotBoot
  RollbacksChooseThePast
  ConfirmedSessionsEnd
