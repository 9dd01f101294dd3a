SPECIFICATION Spec
CONSTANTS
  Transfers <- AllTransfers
  NodeIds <- MCNodeIds
  Drives <- MCDrives
  Patterns <- MCPatterns
  Junk <- MCJunk
INVARIANTS
  LayoutsAgree
  FieldsArrive
  NoStrayBits
  OnlyAddressee
  ErrorsReported
