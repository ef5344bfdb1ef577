\* Every part of the dialog; see MCDialog for the bounds of each.
SPECIFICATION Spec
CONSTANTS
  w1 = w1
  w2 = w2
  md5 = md5
  md4 = md4
  sha1 = sha1
  red = red
  blue = blue
  MatchFgEnabled = MatchFgEnabled
  MatchFgColor = MatchFgColor
  h1 = h1
  h2 = h2
  Windows = {w1, w2}
  Algorithms = {md5, md4, sha1}
  ColourChecks = {MatchFgEnabled}
  ColourValues = {MatchFgColor}
  Colours = {red, blue}
  SizeOf <- MCSizeOf
  Default <- MCDefault
  Absent = Absent
  Closed = Closed
  NotSumfile = NotSumfile
  UnknownSumfile = UnknownSumfile
  ClipSizes = {0, 16, 20}
  SumfileTypes = {NotSumfile, md4, sha1}
  Clicked <- MCClicked
  FileCount = 2
  AlgCount = 2
  Secure = {1}
  HashedAlgs = {0, 1}
  Hashes = {h1, h2}
  NoHash = NoHash
  Expectations <- AnyHashes
  Typed = {"strict", "embedded"}
  MaxCopies = 2
  QueryFiles <- MCFiles
  Content <- MCContent
  Replies <- MCReplies
  Computed <- MCComputed
  Later = {"SHA-256"}
  Version = 2
INVARIANTS
  SessionHashed
  SecureTrumps
  RowsAgreeWithCounts
  VerdictOfText
  StatusShown
  ReplyWhole
  VTRowsTrue
PROPERTIES
  StoreFollowsDialog
  CopiedGoesAway
CHECK_DEADLOCK FALSE
