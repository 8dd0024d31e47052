SPECIFICATION Spec
CONSTANTS
  a = a
  b = b
  c = c
  e = e
  urlA = urlA
  urlB = urlB
  urlC = urlC
  urlD = urlD
  board = board
  req = req
  NoJobKey = NoJobKey
  NoUrl = NoUrl
  NoKey = NoKey
  Keys = {a, b, c}
  Sources = {"list", "ats"}
  Lists <- MCLists
  Urls <- MCUrls
  UrlOf <- WeakUrlOf
  Redirects <- MCRedirects
  JobKey <- WeakJobKey
  TitleOf <- WeakTitles
  Folds <- MCFolds
  Poison = {}
  VerifyModes = {TRUE}
  MaxCrashes = 1
INVARIANTS
  TypeOK
  PublishedOnVerdict
  AnnouncedAtMostOnce
  AnnouncedUnlessInterrupted
  DuplicatePointsEarlier
PROPERTIES
  FoldKeepsALiveRow
  SourcesOnlyGrow
  ImplementsLifecycle
