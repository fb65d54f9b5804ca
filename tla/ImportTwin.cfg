\* Two identical tracks, a repeated call.
SPECIFICATION Spec
CONSTANTS
  c1 = c1
  c2 = c2
  Callers <- OneCaller
  Providers <- AllProviders
  T = 2
  Fp <- TwinFp
  Match <- TwinMatch
  ChunkSize = 2
  MaxCalls = 2
  MaxPlaylists = 2
  MaxCrashes = 0
  MaxLost = 0
INVARIANT TwinsCount
CHECK_DEADLOCK FALSE
