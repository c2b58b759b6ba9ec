SPECIFICATION Spec
CONSTANTS
  p1 = p1
  p2 = p2
  NoPeer = NoPeer
  Peers <- MCPeers
  Devices = {}
  NSlots = 1
  NPeerEntries = 1
  PeerInvokeIds = {5}
  IdMod = 4
  SeqMod = 4
  Windows = {1, 2, 3}
  MaxSegsAccepted = 5
  MaxRespSegs = 5
  Tout = 4
  Tseg = 1
  Retries = 1
  TickSizes = {2}
SYMMETRY PeerSymmetry
VIEW EventView
INVARIANTS
  TypeOK
  ReassembledInOrder
PROPERTIES
  SegmentAcksMatchReassembly
  ResponseCompleteOnlyAfterAllSent
