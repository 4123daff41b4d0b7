SPECIFICATION FairSpec
CONSTANTS
  a1 = a1
  a2 = a2
  k1 = k1
  k2 = k2
  Peers = {p1, p2}
  Datagrams <- SomeDatagrams
  HeaderSize = 1
  BufferSize = 3
  kPeerLivenessWindow = 1
  MaxDatagrams = 2
  MaxTime = 2
  kSignatureSize = 1
  Account = a1
  PublicKey = k1
  NoKey = NoKey
  NoFrame = NoFrame
CHECK_DEADLOCK FALSE
INVARIANTS
  TypeOK
  ThreadUsesLiveObjects
  FramesGenuine
  PeersCounted
PROPERTY
  ShutdownCompletes
