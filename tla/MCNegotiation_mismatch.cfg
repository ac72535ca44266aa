CONSTANT DirectProviderPreferences <- Anything
SPECIFICATION Spec
INVARIANT RolesFit
CHECK_DEADLOCK FALSE
