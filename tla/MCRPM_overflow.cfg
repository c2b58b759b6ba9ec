SPECIFICATION Spec
CONSTANTS
  MaxAI = 1
  MaxAV = 1
  Instances = {0, 1}
  Reals = {0}
  Enums = {0}
  TxBuf = 40
  MaxApdu = 480
  MaxResps = {480}
  MaxSegsAccepted = 2
  MaxSegsValues = {0, 2, 4, 65}
  Requests <- MCRequests
INVARIANTS
  RpmRepliesMatchSpec
