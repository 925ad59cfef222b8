\* One failure at any point, with fairness.
CONSTANTS
    AllowActuation = TRUE
    AllowLongitudinal = FALSE
    ResumeOnCommandReturn = TRUE
    LateralButtonToggle = TRUE
    LongitudinalButtonToggle = TRUE
    LateralDisengageOnBrake = FALSE
    LongitudinalDisengageOnBrake = TRUE
    DisengageOnCancel = FALSE
    LongitudinalOverrideOnGas = FALSE
    MaxActiveSpeed = 0
    MaxAbsSteeringAngle = 0
    CommandTimeout = 1
    PandaTimeout = 1
    SoftDisableTime = 1
    AutoArmOnCommand = TRUE
    Inputs <- MCCommanded
    DriverButtons = {"lane_keep"}
    MayShutDown = FALSE
    LateWriteErrors = FALSE
    MaxPresses = 1
    MaxCalls = 0
    MaxUnplugs = 0
    MaxFailures = 1
SPECIFICATION FairSpec
PROPERTY RecoveryCompletes
