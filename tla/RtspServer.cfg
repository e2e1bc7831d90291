CONSTANTS
  MAX_RTP_PAYLOAD_SIZE = 7
  BufSize = 80
  NConns = 2
  NFds = 6
  File <- MCFile
  MaxFrames = 2
  MaxMessage = 14
  SeqModulus = 4
  Scripts <- MCScripts
SPECIFICATION Spec
INVARIANTS
  DescriptorsHaveOneOwner
  PacketsInOrder
  AnswersInOrder
  OrderlyClientsAreSafe
  MediaPathIsLossless
PROPERTY PlayersGetFrames
CHECK_DEADLOCK FALSE
