\* The destructor at any point; nothing fails.
CONSTANTS
    AllowActuation = TRUE
    AllowLongitudinal = TRUE
    ResumeOnCommandReturn = TRUE
    LateralButtonToggle = TRUE
    LongitudinalButtonToggle = TRUE
    LateralDisengageOnBrake = FALSE
    LongitudinalDisengageOnBrake = TRUE
    DisengageOnCancel = FALSE
    LongitudinalOverrideOnGas = FALSE
    MaxActiveSpeed = 0
    MaxAbsSteeringAngle = 0
    CommandTimeout = 1
    PandaTimeout = 1
    SoftDisableTime = 1
    AutoArmOnCommand = TRUE
    Inputs <- MCDriving
    DriverButtons = {"set"}
    MayShutDown = TRUE
    LateWriteErrors = FALSE
    MaxPresses = 1
    MaxCalls = 0
    MaxUnplugs = 0
    MaxFailures = 0
SPECIFICATION Spec
INVARIANT StockRestoredOnExit
