SPECIFICATION Spec
CONSTANTS
    group = group
    final = final
    logo = logo
    badge = badge
    rival = rival
    None = None
    Slots = {0}
    Assets = {logo, badge, rival}
    Stored = {logo, badge, rival}
    Key <- MCKey
    Role <- MCRole
    Sha <- MCSha
    Contents = {group, final}
    Candidates <- MCCandidates
    Affected <- MCAffected
    ContentIds = {1, 2, 3, 4, 5, 6, 7, 8}
    Attachments = {1, 2, 3, 4, 5, 6, 7, 8}
    Faults = {"refused", "lost", "died", "unrecorded", "user"}
    Fragile = {badge}
    Rewrites <- MCRewrites
    MaxPresentation <- MCMaxPresentation
INVARIANTS
    NoDanglingImage
    NoDuplicateUpload
PROPERTIES
    QuietCycle
    EventuallyIllustrated
