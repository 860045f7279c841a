CONSTANTS
  Listed <- MCListed
  Aliases <- MCAliases
  Themes <- MCThemes
  Assets <- MCAssets
  Plain <- MCPlain
  Stem <- MCStem
  Hints <- MCHints
  Loose <- MCLoose
  MaxText = 3
  MaxLabels = 2
  MaxLabel = 2
  Request = {r1, r2}
  Host = {site, other, localhost}
  LocalHost = {localhost}
  Broken = Broken
  Foreign = Foreign
  Address = {public, private}
  Public = {public}
  Page <- MCPage
  MAX_REDIRECTS = 2
  Question <- MCQuestion
  Frame <- MCFrame
  ChartRange = {day, week}
  Day = day
  None = None
SPECIFICATION Spec
INVARIANTS
  TypeOK
  OnlyPublicPeers
  RankingComplete
  ShownIsAnswer
  StaleOnlyWhenOvertaken
  HintsOnlyAdd
PROPERTIES
  ChartFollowsRange
  ScreenSettles
  FetchesEnd
