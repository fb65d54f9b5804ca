\* One subscriber on the owner's service, one change, nothing fails.
SPECIFICATION Spec
CONSTANTS
  a = a
  b = b
  b2 = b2
  r = r
  NoSong = NoSong
  N = 1
  Spotify <- Owner
  Songs <- AllSongs
  OwnerSongs <- TheOwners
  FirstSongs <- NoOne
  Joined <- NoOne
  FirstModes <- OneWay
  SubSongs <- NoOne
  Match <- FaithfulMatch
  Back <- FaithfulMatch
  MaxWait = 2
  MaxChanges = 1
  MaxImports = 1
  MaxFaults = 0
INVARIANT LedgerMeansCopied
CHECK_DEADLOCK FALSE
