\* Two clients, two questions: expiry, lost connections, replays, clock steps,
\* clients that quit.  There is one input, so it is no matter whose it is.
SPECIFICATION FairSpec
CONSTANTS
    Client = {a, b}
    Mobile = {a}
    Ttl = 1
    MaxQuestions = 2
    MaxClicks = 2
    MaxInputs = 1
INVARIANT TypeOK
INVARIANT TimerMatchesLease
INVARIANT CheckedIsHolder
PROPERTY ImplementsExclusiveLease
PROPERTY AbandonedLeaseEnds
PROPERTY OwnDialogDismissed
CHECK_DEADLOCK FALSE
