\* Two requests at a time, three that change something, one edit in the
\* service's app and one request cut off, refused, or answered an error in vain;
\* four of these five together.
SPECIFICATION FairSpec
CONSTANTS
  c1 = c1
  c2 = c2
  one = one
  two = two
  NoSong = NoSong
  Slots <- TwoSlots
  Songs <- OneSong
  FirstSongs <- Nothing
  Services <- EachKind
  MaxRequests = 3
  MaxEdits = 1
  MaxFaults = 1
  MaxTogether = 4
INVARIANTS TypeOK NoDoubles ClosedWhenGone OpenHasNoReason CoverIsThere
PROPERTY Settles
\* A deleted event has nothing left to do.
CHECK_DEADLOCK FALSE
