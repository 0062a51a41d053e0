\* Two requests at once on one recruiter's settings, two Gmail accounts.
CONSTANTS
    Handlers = {h1, h2}
    Accounts = {g1, g2}
    Signatures = {s1}
    MaxMails = 3
    None = None
    Unset = Unset
SPECIFICATION Spec
CHECK_DEADLOCK FALSE
SYMMETRY Symmetry
INVARIANTS
    LogIsOfSentMail
PROPERTIES
    AddressHasToken
