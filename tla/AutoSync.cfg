\* Two subscribers, one of them on another service and about to import; one
\* change, one fault.
SPECIFICATION FairSpec
CONSTANTS
  a = a
  b = b
  b2 = b2
  r = r
  NoSong = NoSong
  N = 2
  Spotify <- Owner
  Songs <- AllSongs
  OwnerSongs <- TheOwners
  FirstSongs <- OneSong
  Joined <- Second
  FirstModes <- AnyMode
  SubSongs <- TheirOwn
  Match <- EchoMatch
  Back <- EchoBack
  MaxWait = 2
  MaxChanges = 1
  MaxImports = 1
  MaxFaults = 1
INVARIANTS TypeOK SeenMeansCopied NoDoubles OwnerListNotDoubled
PROPERTY AdditionsArrive
CHECK_DEADLOCK FALSE
