\* Three requests; any of them may be killed.
SPECIFICATION Spec
CONSTANTS
    ann = ann
    Ann = Ann
    ann_s = ann_s
    ann_TM = ann_TM
    long = long
    Emails = {ann, Ann, ann_s, ann_TM, long}
    Lower <- LowerCase
    Nfkc <- NormalForm
    TooLong = {long}
    Passwords = {p1, p2}
    Requests = {r1, r2, r3}
    NoEmail = NoEmail
    NoPassword = NoPassword
    Faults = {"crash"}
SYMMETRY Symmetry
INVARIANTS
    TypeOK
    OneAccountPerEmail
    TokenNeedsOwnPassword
PROPERTIES
    PlainAddressLogsIn
    RegistersAtomically
