\* Each service on the smallest instance that has its interesting cases.
SPECIFICATION FairSpec
CONSTANTS
  Clients = {0}
  SignalCount = 1
  MaxWrites = 3
  CountMod = 2
  Announcements <- AnnouncedLists
  Listeners = {0, 1}
  Handlers = {0, 1}
  MaxAnnouncements = 2
  MaxPosts = 3
  Smallest = TRUE
  Files = {0, 1}
  MaxStarts = 2
  Cameras = {0, 1}
  MaxStarted = 3
  Capacity = 3
  MaxAdded = 8
  None = None
INVARIANTS
  ReportedOnce
  SubscribersAgree
  MotorUnderControl
  StopReaches
  CleanStartStoppable
PROPERTIES
  FedIsReported
  ListedIsFound
  AcceptsAgain
  DisposeEndsAll
  WalkInOrder
  ImplementsWindow
CHECK_DEADLOCK FALSE
