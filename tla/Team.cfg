\* Two organizations that may share a name, two addresses, two links, two requests at once.
CONSTANTS
    Orgs = {o1, o2}
    Emails = {a, b}
    Tokens = {t1, t2}
    Handlers = {h1, h2}
    MaxSlug = 2
    MaxRequests = 7
    None = None
SPECIFICATION Spec
CHECK_DEADLOCK FALSE
SYMMETRY Symmetry
INVARIANTS
    AccountsUsable
PROPERTIES
    LastAdminStays
    LinkWorksOnce
