\* A registration and a login, and an address that NFKC changes.
SPECIFICATION Spec
CONSTANTS
    ann = ann
    Ann = Ann
    ann_s = ann_s
    ann_TM = ann_TM
    long = long
    Emails = {ann, ann_s}
    Lower <- LowerCase
    Nfkc <- NormalForm
    TooLong = {}
    Passwords = {p1}
    Requests = {r1, r2}
    NoEmail = NoEmail
    NoPassword = NoPassword
    Faults = {}
PROPERTIES
    AcceptedLogsIn
