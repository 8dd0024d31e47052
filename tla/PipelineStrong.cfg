SPECIFICATION FairSpec
CONSTANTS
  a = a
  b = b
  c = c
  e = e
  urlA = urlA
  urlB = urlB
  urlC = urlC
  urlD = urlD
  board = board
  req = req
  NoJobKey = NoJobKey
  NoUrl = NoUrl
  NoKey = NoKey
  Keys = {a, b, e}
  Sources = {"list", "ats"}
  Lists <- MCLists
  Urls <- MCUrls
  UrlOf <- StrongUrlOf
  Redirects <- MCRedirects
  JobKey <- StrongJobKey
  TitleOf <- StrongTitles
  Folds <- MCFolds
  Poison = {e}
  VerifyModes = {TRUE, FALSE}
  MaxCrashes = 1
PROPERTIES
  EventuallyDecided
INVARIANTS
  NoLiveTwins
  HandedOncePerCrash
