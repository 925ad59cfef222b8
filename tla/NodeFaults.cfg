\* One unplug and one other failure at any point; the operator stays away.
CONSTANTS
    AllowActuation = TRUE
    AllowLongitudinal = TRUE
    ResumeOnCommandReturn = TRUE
    LateralButtonToggle = TRUE
    LongitudinalButtonToggle = TRUE
    LateralDisengageOnBrake = FALSE
    LongitudinalDisengageOnBrake = TRUE
    DisengageOnCancel = FALSE
    LongitudinalOverrideOnGas = FALSE
    MaxActiveSpeed = 0
    MaxAbsSteeringAngle = 0
    CommandTimeout = 1
    PandaTimeout = 1
    SoftDisableTime = 1
    AutoArmOnCommand = TRUE
    Inputs <- MCDriving
    DriverButtons = {"set"}
    MayShutDown = FALSE
    LateWriteErrors = FALSE
    MaxPresses = 1
    MaxCalls = 0
    MaxUnplugs = 1
    MaxFailures = 1
SPECIFICATION Spec
INVARIANTS TypeOK ExclusiveOwnership SilencedEcuIsRemembered RecoveryIsScheduled FreshHealthWhenTransmitting
PROPERTY KeepsOwnership
