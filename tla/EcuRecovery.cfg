\* Enough faults for the back-off to reach its cap.
CONSTANTS
    FirstDelay = 1
    MaxDelay = 3
    MaxFailures = 3
    MaxFaults = 2
SPECIFICATION FairSpec
INVARIANT TypeOK
PROPERTIES KeepsOwnership AttemptsAreSpaced RecoveryEnds
