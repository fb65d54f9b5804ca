\* A crash between adding and recording.
SPECIFICATION Spec
CONSTANTS
  c1 = c1
  c2 = c2
  Callers <- OneCaller
  Providers <- AllProviders
  T = 3
  Fp <- SharedFp
  Match <- SharedMatch
  ChunkSize = 2
  MaxCalls = 2
  MaxPlaylists = 2
  MaxCrashes = 1
  MaxLost = 0
INVARIANT NeverTwice
CHECK_DEADLOCK FALSE
