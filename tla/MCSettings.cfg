SPECIFICATION Spec
CONSTANTS
  Explorers = {explorer}
  Commands = {command}
  Providers <- MCProviders
  Plans <- MCPlans
  Fee <- MCFee
  Ceilings = {0, 5}
  Dates = {1, 2}
  Today = 1
  TrailerSettings <- MCTrailerSettings
  ConfigFiles <- MCConfigFiles
  RepoFiles <- MCRepoFiles
  NoValue = NoValue
  MaxSets = 3
CHECK_DEADLOCK FALSE
INVARIANTS
  SettingsAreAsSet
  LastSetSticks
  PlanIsAsChosen
  TrailersAreAsSaved
