SPECIFICATION FairSpec
CONSTANTS
  p1 = p1
  p2 = p2
  NoPeer = NoPeer
  Peers <- OnePeer
  Devices = {p1}
  NSlots = 1
  NPeerEntries = 1
  PeerInvokeIds = {5}
  IdMod = 4
  SeqMod = 4
  Windows = {1}
  MaxSegsAccepted = 2
  MaxRespSegs = 1
  Tout = 4
  Tseg = 1
  Retries = 1
  TickSizes = {2}
PROPERTIES
  ClientRequestResolves
