SPECIFICATION FairSpec
CONSTANTS
  Firmwares <- AnyFirmware
  Values = {"v1"}
INVARIANTS
  AnswersNotTorn
  EstimateWaitsForFullSet
PROPERTIES
  StatusIsNews
  FullOrPlainKeepsComing
  ODriveStatusKeepsComing
