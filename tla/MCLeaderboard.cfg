SPECIFICATION Spec
CONSTANTS
  Names = {"Foo", "Bar"}
  MaxBots = 3
  MaxMatches = 2
INVARIANTS StatsAddUp LifetimeBalances WinnersEarnedIt OneLinePerFamily FamilyPageListsWhatItCounts
PROPERTY UploadKeepsLifetime
