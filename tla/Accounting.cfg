SPECIFICATION Spec
CONSTANTS
  h1 = h1  h2 = h2  p1 = p1  p2 = p2  k1 = k1  k2 = k2  u1 = u1  u2 = u2  w1 = w1  w2 = w2
  LongMod = 2
  IntMod = 2
  Timeout = 0
  Type = "private"
  InfoHash = {h1}
  PeerID = {p1}
  Passkey = {k1}
  UserRef = {u1, u2}
  Client <- Clients1
  IPMod = 1
  TokenLife = 1
  Announces <- AccountAnnounces
  Updates = {"set_leech_status"}
  Databases <- AccountSites
  Answered <- AllAnswered
PROPERTY ChargedAsAnnounced
INVARIANT TorrentRowCurrent
CHECK_DEADLOCK FALSE
