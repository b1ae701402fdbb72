SPECIFICATION Spec
CONSTANTS
    Providers <- MCProviders
    Jobs1 <- MCJobs1
    Jobs2 <- MCJobs2
    Cups <- MCCups
    Draws <- MCDraws
    Matches <- MCMatches
    PairingOf <- MCPairingOf
    Teams <- MCTeams
    Participants <- MCParticipants
    Reviews <- MCReviews
    TeamTables <- MCTeamTables
    Catalogs <- MCCatalogs
    PageLimit = 1
    MaxAttempts = 2
    MaxRedirects = 1
INVARIANTS
    UnmodifiedIsCurrent
    FixturesAgree
    ListedIsNeverMissing
PROPERTIES
    IdentitiesStand
