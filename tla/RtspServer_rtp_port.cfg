CONSTANTS
  MAX_RTP_PAYLOAD_SIZE = 7
  BufSize = 80
  NConns = 2
  NFds = 6
  File <- MCFile
  MaxFrames = 2
  MaxMessage = 14
  SeqModulus = 4
  Scripts <- MCUdpScripts
SPECIFICATION Spec
INVARIANT RtpReachesRtpPort
CHECK_DEADLOCK FALSE
