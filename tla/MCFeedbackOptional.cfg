SPECIFICATION FairSpec
CONSTANTS
  Firmwares <- EncoderFirmware
  Values = {"v1"}
PROPERTY
  MotionFeedbackKeepsComing
