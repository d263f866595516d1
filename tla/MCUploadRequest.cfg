\* One upload of any file, with every setting of the limit.
SPECIFICATION Spec
CONSTANTS
    Requests = {r1}
    Unset = Unset
    NoNumber = NoNumber
    Settings <- AnySetting
    Megabyte = 2
    Sizes <- EdgeSizes
INVARIANTS
    TypeOK
    HonestUploadIsIngested
    RefusedLeavesNothing
