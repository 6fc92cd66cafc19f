-------------------------------- MODULE Load --------------------------------
(***************************************************************************)
(* What the tracker knows when it starts: RequestHandler::init and the     *)
(* queries of src/database/mysql.cpp it runs.  Each query may fail, which  *)
(* is logged and leaves its list empty; the tracker then starts without.   *)
(* reset() and the queries of the users stop at the first that fails.      *)
(***************************************************************************)
EXTENDS Swarm, Integers

CONSTANTS
  Type,         \* Config "type": "private", "public" or another word
  IPMod,        \* 2^32: addresses are 0 .. IPMod - 1
  TokenLife     \* 24 h, in ticks

Private == Type = "private"
Public == Type = "public"
IP == 0 .. IPMod - 1

ASSUME LoadAssumption ==
  /\ Type \in STRING
  /\ IPMod \in Nat \ {0}
  /\ TokenLife \in Nat

Queries ==
  {"peers", "counts", "torrents", "bans", "whitelist", "users", "tokens", "restrictions",
   "leech status"}

\* What the database holds.  `orphan': there is a token whose user is gone.
IsDatabase(site, InfoHash, Passkey, User, Prefix) ==
  /\ DOMAIN site.torrents \subseteq InfoHash
  /\ \A h \in DOMAIN site.torrents :
       site.torrents[h] \in [free : {"0", "1", "2"}, snatches : Nat, balance : Nat]
  /\ site.bans \subseteq IP \X IP /\ site.whitelist \subseteq Prefix
  /\ DOMAIN site.accounts \subseteq Passkey
  /\ \A k \in DOMAIN site.accounts :
       LET a == site.accounts[k] IN
       /\ a.user \in User /\ a.authorized \in BOOLEAN /\ a.restrictions \subseteq IP
       /\ DOMAIN a.tokens \subseteq InfoHash
       /\ \A h \in DOMAIN a.tokens : a.tokens[h] \in 0 .. TokenLife
       /\ \A l \in DOMAIN site.accounts : a.user = site.accounts[l].user => k = l
  /\ site.orphan \in BOOLEAN /\ site.leechStatus \in {"freeleech", "normal"}

FreeOf(freetorrent, otherwise) ==
  CASE freetorrent = "1" -> 100 [] freetorrent = "2" -> 50 [] OTHER -> otherwise

\* `while (from != to) ... from++', which wraps when from > to.
IPRange(from, to) == {(from + k) % IPMod : k \in 0 .. (to - from) % IPMod}

IsUser(user, InfoHash) ==
  /\ DOMAIN user = {"authorized", "tokens", "restrictions"}
  /\ user.authorized \in BOOLEAN /\ user.restrictions \subseteq IP
  /\ DOMAIN user.tokens \subseteq InfoHash
  /\ \A h \in DOMAIN user.tokens : user.tokens[h] \in 0 .. TokenLife

NewUser(authorized) == [authorized |-> authorized, tokens |-> EmptyMap, restrictions |-> {}]

\* reset() empties the peers table, then sets the counts of the torrents to 0.
CountsReset(answered) == {"peers", "counts"} \subseteq answered

LoadTorrents(site, answered) ==
  IF Public \/ "torrents" \notin answered THEN EmptyMap
  ELSE [h \in DOMAIN site.torrents |->
          [NewTorrent(FreeOf(site.torrents[h].free, 0))
             EXCEPT !.snatches = UInt(site.torrents[h].snatches),
                    !.balance = Long(site.torrents[h].balance)]]

LoadBannedIPs(site, answered) ==
  IF Public \/ "bans" \notin answered THEN {}
  ELSE UNION {IPRange(range[1], range[2]) : range \in site.bans}

LoadClientWhitelist(site, answered) ==
  IF Public \/ "whitelist" \notin answered THEN {} ELSE site.whitelist

LoadLeechStatus(site, answered) ==
  IF Private /\ "leech status" \in answered /\ site.leechStatus = "freeleech"
  THEN "FREELEECH" ELSE "NORMAL"

\* loadUsers: the users, their tokens, their restrictions.
Accounts(site, answered) ==
  IF Private /\ "users" \in answered THEN site.accounts ELSE EmptyMap

LoadUsers(site, answered) ==
  LET accounts == Accounts(site, answered)
      Loaded(a) == [authorized   |-> a.authorized,
                    tokens       |-> IF "tokens" \in answered THEN a.tokens ELSE EmptyMap,
                    restrictions |-> IF {"tokens", "restrictions"} \subseteq answered
                                     THEN a.restrictions ELSE {}]
  IN [u \in {accounts[k].user : k \in DOMAIN accounts} |->
        Loaded(CHOOSE a \in {accounts[k] : k \in DOMAIN accounts} : a.user = u)]

LoadPasskeys(site, answered) ==
  LET accounts == Accounts(site, answered) IN [k \in DOMAIN accounts |-> accounts[k].user]

\* A token without a user has no passkey to look up, nor to log: the handler of
\* the first exception throws another, which ends the process.
LoadEnds(site, answered) == Private /\ {"users", "tokens"} \subseteq answered /\ site.orphan
=============================================================================
