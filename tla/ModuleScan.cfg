\* All applications that can be put together from a few modules.
SPECIFICATION FairSpec
CONSTANTS
    Nil = Nil
    Root = "app"
    Module <- MCModule
    Metatype <- MCMetatype
    ModuleOf <- MCModuleOf
    Promised <- MCPromised
    Unusable <- MCUnusable
    Unknown <- MCUnknown
    Imports <- MCImports
INVARIANTS
    TypeOK
    ScanIsSound
PROPERTY
    ScanEnds
\* The scan ends.
CHECK_DEADLOCK FALSE
