SPECIFICATION FairSpec
CONSTANT MaxConnections = 2
INVARIANTS LifecycleTypeOK SocketsAreHeld HeldIsWatched BooksAgree DeviceIsTold
PROPERTY SessionsEnd
CHECK_DEADLOCK FALSE
