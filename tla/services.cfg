SPECIFICATION ServicesSpec
CONSTANTS
  link = link
  flood = flood
  d1 = d1
  d2 = d2
  lid = lid
  pn = pn
  Messages <- TwoMessages
  Hits <- Offences
  Policies <- FourPolicies
  Tasks <- TwoTasks
  Lid = lid
  Pn = pn
  Budget = 3
  r1 = r1
  r2 = r2
  v1 = v1
  g1 = g1
  g2 = g2
  mail1 = mail1
  mail2 = mail2
  Addresses <- TwoAddresses
  ResetCalls <- TwoResets
  VerifyCalls <- OneVerify
  GuessCalls <- TwoGuesses
  MaxAttempts = 2
  MaxFailures = 2
  ResetBudget = 6
  j1 = j1
  j2 = j2
  j3 = j3
  Jobs <- ThreeJobs
  Concurrency = 2
  MaxQueued = 1
  u1 = u1
  u2 = u2
  u3 = u3
  p1 = p1
  p2 = p2
  Uploads <- ThreeUploads
  Previews <- TwoPreviews
  MaxUploads = 2
  MaxWrong = 2
  UploadBudget = 4
INVARIANTS
  ServicesTypeOK
  AtLimitIsHandled
  EmailCodeDiesWithAddress
  NoSlotIsLost
  OpenFileStays
  WrongPasswordsClose
  DiskIsBounded
PROPERTIES
  CountsOnce
  PointsAreKept
  NewerCodeWins
  RemoveIsFinal
  TokenIsNotLost
SYMMETRY Symmetry
CHECK_DEADLOCK FALSE
