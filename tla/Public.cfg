SPECIFICATION FairSpec
CONSTANTS
  h1 = h1  h2 = h2  p1 = p1  p2 = p2  k1 = k1  k2 = k2  u1 = u1  u2 = u2  w1 = w1  w2 = w2
  LongMod = 3
  IntMod = 1
  Timeout = 1
  Type = "public"
  InfoHash = {h1, h2}
  PeerID = {p1}
  Passkey = {k1}
  UserRef = {u1}
  Client <- Clients1
  IPMod = 1
  TokenLife = 1
  Announces <- PublicAnnounces
  Updates = {}
  Databases <- NoSite
  Answered <- AllAnswered
INVARIANT StatsTorrents
PROPERTY SilentTorrentsGo
PROPERTY GoneWhenSilent
CHECK_DEADLOCK FALSE
