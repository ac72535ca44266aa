CONSTANT DirectProviderPreferences <- NoFlowControl
SPECIFICATION Spec
INVARIANTS TypeOK RolesFit RolesSupported NeverRefused WishComesTrue
CHECK_DEADLOCK FALSE
