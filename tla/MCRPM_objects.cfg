SPECIFICATION Spec
CONSTANTS
  MaxAI = 1
  MaxAV = 1
  Instances = {0, 1}
  Reals = {0, 1}
  Enums = {0, 300}
  TxBuf = 1476
  MaxApdu = 480
  MaxResps = {50, 480}
  MaxSegsAccepted = 2
  MaxSegsValues = {0, 2, 4, 65}
  Requests <- MCRequests
VIEW ObjectStateView
INVARIANTS
  TypeOK
  RpmRepliesMatchSpec
  SegmentedRepliesAsSpec
