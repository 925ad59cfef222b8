\* The profile of config/ioniq5_ecan.yaml: the firmware session owns the button selection.  The
\* limits of speed and angle, which that file leaves at 0, are on: samples lie at and beyond them.
CONSTANTS
    AllowActuation = TRUE
    AllowLongitudinal = TRUE
    ResumeOnCommandReturn = TRUE
    LateralButtonToggle = TRUE
    LongitudinalButtonToggle = TRUE
    LateralDisengageOnBrake = FALSE
    LongitudinalDisengageOnBrake = TRUE
    DisengageOnCancel = FALSE
    LongitudinalOverrideOnGas = FALSE
    MaxActiveSpeed = 1
    MaxAbsSteeringAngle = 3
    CommandTimeout = 1
    PandaTimeout = 2
    SoftDisableTime = 2
    MaxTime = 4
    Samples <- MCSamples
SPECIFICATION Spec
INVARIANTS TypeOK ConsistentSupervisor OutputAuthorised BrakeLatchesLongitudinalOff SoftDisableWindowIsFixed
PROPERTY FaultIsLatched
