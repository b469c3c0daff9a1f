SPECIFICATION Spec
CONSTANTS
    None = None
    Requests = {p, q}
    Editors = {e, f}
SYMMETRY Symmetry
INVARIANTS TypeOK OfferedToolsAreSound ConnectionsAreNotMixedUp LiveInv StreamsAreWhole SettingsAreKept
PROPERTY LateStepsAreRefused
CHECK_DEADLOCK FALSE
