SPECIFICATION FairSpec
CONSTANTS
    None = None
    Ids <- MCIds
CHECK_DEADLOCK FALSE
INVARIANTS AdvertisedLeased LeasesAccounted
PROPERTIES NeverObsolete CandidateTaken
