\* Two modules that import each other.
SPECIFICATION Spec
CONSTANTS
    Nil = Nil
    Root = "app"
    Module <- MCModule
    Metatype <- MCMetatype
    ModuleOf <- MCModuleOf
    Promised <- MCPromised
    Unusable <- MCUnusable
    Unknown <- MCUnknown
    Imports <- MCImports
INVARIANT
    CircularImportsAreRefused
\* The scan ends.
CHECK_DEADLOCK FALSE
