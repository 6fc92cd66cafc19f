SPECIFICATION FairSpec
CONSTANTS
  h1 = h1  h2 = h2  p1 = p1  p2 = p2  k1 = k1  k2 = k2  u1 = u1  u2 = u2  w1 = w1  w2 = w2
  LongMod = 1
  IntMod = 1
  Timeout = 1
  Type = "private"
  InfoHash = {h1}
  PeerID = {p1, p2}
  Passkey = {k1, k2}
  UserRef = {u1}
  Client <- Clients2
  IPMod = 2
  TokenLife = 1
  Announces <- AdminAnnounces
  Updates <- AccessUpdates
  Databases <- AdminSites
  Answered <- SomeFail
PROPERTY BarredClientsLeave
CHECK_DEADLOCK FALSE
