SPECIFICATION Spec
CONSTANTS
  k1 = k1
  k2 = k2
  k3 = k3
  None = None
  Empty = Empty
  Short = Short
  Long = Long
  ByteBits = 3
  KeyBits = 3
  MaxIdBits = 3
  MaxShards = 4
  MaxBatch = 2
  MaxRootNodes = 4
  AggregationPartition = 4
  Capacity = 1
  Attempts = 2
  TrustBase <- Authority
  Worlds <- AllWorlds
  Encodings <- AllEncodings
  Configurations <- AllConfigurations
  Bundles <- AllBundles
  Wires <- AllWires
  Enclosings <- AllEnclosings
  Pins <- AllPins
  Forged <- AllForged
  Proofs <- AllProofs
INVARIANTS IdCodecExact SchemesTile GroupsExact ViewIsCommitted CertificatesVerify KeyHasOneAnswer
CHECK_DEADLOCK FALSE
