\* main() boots while requests come in, then runs for ever.
SPECIFICATION NvicSpec
INVARIANTS
  StackSound
  EncodingExact
PROPERTY
  EthYieldsToDrivers
