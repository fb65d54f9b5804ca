\* Two callers, three calls, two crashes and a lost answer; fewer once calls overlap.
SPECIFICATION Spec
CONSTANTS
  c1 = c1
  c2 = c2
  Callers <- TwoCallers
  Providers <- AllProviders
  T = 3
  Fp <- SharedFp
  Match <- SharedMatch
  ChunkSize = 2
  MaxCalls = 3
  MaxPlaylists = 2
  MaxCrashes = 2
  MaxLost = 1
SYMMETRY Alike
CONSTRAINT Together
INVARIANTS TypeOK OrphansAreEmpty LedgerIsEarned RetriesTopUp NothingForgotten
PROPERTY LedgerOnlyGrows
CHECK_DEADLOCK FALSE
