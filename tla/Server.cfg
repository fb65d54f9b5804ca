\* Accounts: two callers of one browser, two processes with the deletion job,
\* two requests, two rulings of the administrator, one fault.  Recap: two
\* processes, two users, two weeks, two attempts.  Counters: two buckets, two
\* flushes at once.  Import: three tracks, two songs.
SPECIFICATION ServerSpec
CONSTANTS
  t1 = t1  t2 = t2  p1 = p1  p2 = p2  u1 = u1  u2 = u2
  b1 = b1  b2 = b2  f1 = f1  f2 = f2  s1 = s1  s2 = s2
  Callers <- TwoTabs
  Jobs <- TwoProcesses
  MaxRequests = 2
  MaxAdmin = 2
  MaxFaults = 1
  Processes <- TwoProcesses
  Users <- TwoUsers
  MaxWeeks = 2
  MailAttempts = 2
  MaxRecapFaults = 1
  Buckets <- TwoBuckets
  Flushers <- TwoFlushers
  MaxCalls = 3
  MaxUsageFaults = 1
  LinkSongs <- TwoSongs
  MaxLinkTracks = 3
  FlushEvery = 2
  MaxLinkFaults = 2
INVARIANTS ServerTypeOK OneLivePerSession NoneOutlivesRevocation PasswordsAgree
           SignedOutForAReason LogoutHolds PurgedIsEmpty PurgeIsAudited
           OneRecapEach CountedOnce CountsAreTrue
PROPERTIES DueIsPurged RecapArrives ImportSettles
\* A deleted account, and an import that has ended, have nothing left to do.
CHECK_DEADLOCK FALSE
