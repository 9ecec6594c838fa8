CONSTANTS
    MaxAvcs = 3
    Perms <- MCPerms
    Classes <- MCClasses
    Fields <- MCFields
    Permissive <- MCPermissive
    UsageCtx <- MCUsageCtx
    Contexts <- MCContexts

SPECIFICATION Spec

INVARIANT PolicyMatchesSpec

\* The enumeration of AVC lists ends at MaxAvcs records.
CHECK_DEADLOCK FALSE
