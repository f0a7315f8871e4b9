SPECIFICATION TestSpec
CONSTANTS
    Stdins <- OpenOrClosed
    MaxFd = 5
    UsecPerSec = 2
    MaxTime = 2
    MsgLen = 2
    BufLen = 3
    TestCases = 3
    HeapCap = 7
    MaxRuns = 3
    MaxRecords = 3
INVARIANTS
    NoStrayRelease
    BusyHasCause
    MrBacked
    AllReleased
    SockLive
    EchoConserves
    AlarmComesLate
    ClockExact
    ReceiverLives
    ReportHonest
PROPERTY ClientEnds
