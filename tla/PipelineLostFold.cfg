SPECIFICATION FairSpec
CONSTANTS
  a = a
  b = b
  c = c
  e = e
  urlA = urlA
  urlB = urlB
  urlC = urlC
  urlD = urlD
  board = board
  req = req
  NoJobKey = NoJobKey
  NoUrl = NoUrl
  NoKey = NoKey
  Keys = {a, b, c}
  Sources = {"list", "ats"}
  Lists <- MCLists
  Urls <- MCUrls
  UrlOf <- WeakUrlOf
  Redirects <- MCRedirects
  JobKey <- WeakJobKey
  TitleOf <- WeakTitles
  Folds <- MCFolds
  Poison = {}
  VerifyModes = {FALSE}
  MaxCrashes = 1
PROPERTIES
  NothingLostButACycle
