SPECIFICATION Spec
CONSTANTS
    Names = {"to", "config", "tags"}
    Control = {"config", "tags"}
    Injected = {"config"}
    MaxPositional = 2
INVARIANT DeclaredIsKept
CHECK_DEADLOCK FALSE
