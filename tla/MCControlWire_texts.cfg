SPECIFICATION WireSpec
CONSTANTS
  MaxVersion = 4
  VersionComponents = 2
  MaxString = 3
  Radix = 8
  Order = 57
  MaxNumber = 255
  MaxTtl = 2
  AheadGrace = 2
  MaxKeys = 3
  MaxTokenSize = 68
  LineSize = 5
  ShortLength = 12
  MinBits = 15
  MaxBits = 16
  F4 <- MCF4
  SasModulus = 5
  SasRange = 17
  WordBits = 2
  WindowSize = 2
  Opener = "cpp"
  Plans <- MCPlans
  MaxPayload = 2
  MaxCounter = 2
  BufferSize = 8
  MaxFaults = 1
  Openers = {o1, o2}
  RaceAttempts = 2
  MaxMinted = 2
  MaxMishaps = 2
  Edits <- MCEdits
  AddressBits = 5
  Private = {16, 17, 18, 19, 20, 21, 22, 23, 24, 25, 26, 27, 28, 29, 30, 31}
  Wired = 20
  Senders = {18, 26, 20, 2}
  NetworkAdapters <- MCAdapters
  AcksNeeded = 2
  MaxToken = 3
CHECK_DEADLOCK FALSE
INVARIANTS RecordsInOrder TextsAgree
PROPERTIES WrittenIsRead IdentityLasts MeasuredOnOnePeer
