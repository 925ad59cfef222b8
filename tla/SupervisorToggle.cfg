\* The class defaults of SafetyConfig: the host toggles the selection.  The samples stay within the
\* limits of speed and angle; those are the subject of SupervisorResume.
CONSTANTS
    AllowActuation = TRUE
    AllowLongitudinal = TRUE
    ResumeOnCommandReturn = FALSE
    LateralButtonToggle = TRUE
    LongitudinalButtonToggle = TRUE
    LateralDisengageOnBrake = FALSE
    LongitudinalDisengageOnBrake = TRUE
    DisengageOnCancel = TRUE
    LongitudinalOverrideOnGas = TRUE
    MaxActiveSpeed = 1
    MaxAbsSteeringAngle = 3
    CommandTimeout = 1
    PandaTimeout = 2
    SoftDisableTime = 1
    MaxTime = 2
    Samples <- MCSamples
    UseEnableField = FALSE
    SequenceModulus = 8
    FirstMessage = 7
    MaxMessages = 2
    DriverButtons = {"set"}
    Torques <- MCTorques
    DriverTorques <- MCDriverTorques
    MaxTorque = 3
    TorqueRateUp = 2
    TorqueRateDown = 1
    DriverTorqueAllowance = 1
    DriverTorqueMultiplier = 1
    DriverTorqueFactor = 1
    CutoffAngle = 2
    ValidFrames = 2
    CutFrames = 1
SPECIFICATION MCSpec
INVARIANTS ConsistentSupervisor BrakeLatchesLongitudinalOff ActuationTypeOK PublisherNotLockedOut RequestIsCutAtHighAngle TorqueHasAuthority CountersContinue RawGateFollowsSupervisor
PROPERTY StreamInOrder
