\* Two accounts; the Session changes hands or another client saves; the page is
\* hidden once.  A draft of two texts with three changes and one navigation.
\* Two confirmed POSTs, a change of their target, and one navigation.
CONSTANTS
    ann = ann
    bob = bob
    Users <- MCUsers
    Tasks = {1, 2, 3}
    Owner <- MCTwoPages
    Docs = {d1, d2}
    None = None
    PageSize = 1
    MaxChanges = 1
    MaxConfirms = 1
    MaxLate = 1
    MaxHides = 1
    MaxItems = 2
    MaxCommits = 3
    MaxRoutes = 1
    MaxVersions = 1
    MaxPosts = 2
    MaxScopes = 1
SPECIFICATION PagesSpec
INVARIANTS PrivateOnlyWhileActive PageAgrees DraftSound
PROPERTIES UserDecides ReviewedIsApplied AdminSound
SYMMETRY MCSymmetry
CHECK_DEADLOCK FALSE
