\* Two profiles, so that replacing one by the other is covered.
CONSTANTS
    Messages = {"buttons", "tcs", "mdps"}
    Profiles = {"long", "lateral_only"}
    LongProfiles = {"long"}
SPECIFICATION Spec
INVARIANTS TypeOK PermissionNeedsLiveIntent IntentNeedsNewPress LongitudinalNeedsSetAfterBrake
PROPERTY OnlyButtonsGrant
