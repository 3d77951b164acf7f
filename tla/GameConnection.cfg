SPECIFICATION FairSpec
CONSTANTS
  AddressLimit = 16
  PayloadLimit = 3
  WordSize = 2
  MaxPlayers = 2
  MaxBoxes = 2
  MaxBoxData = 2
  Readable <- MCReadable
  Writable <- MCWritable
  HeaderAddress = 8
  HeaderSize = 2
  Roms <- MCRoms
  MaxOutstanding = 6
INVARIANTS TypeOK RequestsAllowed RequestsWhenReady DetachedOnce OneOfAKind
PROPERTIES BehavioursFollow
