-------------------------- MODULE MCRequestHandler --------------------------
(* Values of the constants of RequestHandler for TLC. *)
EXTENDS RequestHandler, TLC

CONSTANTS h1, h2, p1, p2, k1, k2, u1, u2, w1, w2

\* The prefix of each client's peer id.
Clients1 == p1 :> w1
Clients2 == p1 :> w1 @@ p2 :> w2

Account(u) == [user |-> u, authorized |-> TRUE, restrictions |-> {}, tokens |-> EmptyMap]

\* A site with one user and the torrents hs.
Site(hs) ==
  [torrents |-> [h \in hs |-> [free |-> "0", snatches |-> 0, balance |-> 0]],
   bans |-> {}, whitelist |-> {}, accounts |-> k1 :> Account(u1), orphan |-> FALSE,
   leechStatus |-> "normal"]

\* The torrent is there or not; it is free and the user has a token for it.
SwarmSites ==
  {Site({}), [Site({h1}) EXCEPT !.torrents[h1].free = "1", !.leechStatus = "freeleech",
                                !.accounts[k1].tokens = h1 :> 0]}

\* Counters that have grown in an earlier life.
AccountSites == {[Site({h1}) EXCEPT !.torrents[h1].balance = 3, !.torrents[h1].snatches = 1]}

\* Nobody is kept out, or bans, whitelist and restrictions decide.
AdminSites ==
  {Site({h1}), [Site({h1}) EXCEPT !.bans = {<<1, 0>>}, !.whitelist = {w2},
                                  !.accounts[k1].authorized = FALSE,
                                  !.accounts[k1].restrictions = {1}, !.orphan = TRUE]}

\* A public tracker has no database.
NoSite == {Site({})}

\* All queries succeed; none does, reset() included; some list is not loaded.
AllAnswered == {Queries}
SomeFail == {Queries, {}} \cup {Queries \ {q} : q \in {"bans", "users", "tokens", "restrictions"}}

\* An announce without traffic.
Asks(h, p, k, ip, ipv6, l, event) ==
  [passkey |-> k, hash |-> h, peer |-> p, ip |-> ip, ipv6 |-> ipv6, left |-> l,
   event |-> event, downloaded |-> 0, uploaded |-> 0, corrupt |-> 0]

Plain == {"updating", "completed", "stopped"}

\* p1 announces over IPv4, whatever it likes; p2 downloads over IPv6, completes
\* and stops.  "started" is handled as "updating" is.
Everything(p) == {Asks(h1, p, k1, 0, FALSE, l, event) : l \in {0, 1}, event \in Plain}
SwarmAnnounces1 == Everything(p1)
SwarmAnnounces ==
  Everything(p1) \cup
  {Asks(h1, p2, k1, 0, TRUE, a[1], a[2]) :
     a \in {<<1, "updating">>, <<0, "completed">>, <<0, "stopped">>}}

\* One client on two torrents of a public tracker: it does as it likes on one
\* over IPv4, and downloads or seeds the other over IPv6.
PublicAnnounces ==
  Everything(p1) \cup {Asks(h2, p1, k1, 0, TRUE, l, "updating") : l \in {0, 1}}

\* One client reports growing totals: it downloads, completes, seeds and stops as
\* a leecher or a seeder over IPv4; it downloads, completes and seeds over IPv6.
AccountAnnounces ==
  LET Reports(ipv6, l, event, down, upto) ==
        [passkey |-> k1, hash |-> h1, peer |-> p1, ip |-> 0, ipv6 |-> ipv6, left |-> l,
         event |-> event, downloaded |-> down, uploaded |-> upto, corrupt |-> 0]
  IN {Reports(FALSE, 1, "updating", 0, 0),
      Reports(FALSE, 0, "completed", 3, 1), Reports(FALSE, 0, "updating", 3, 2),
      Reports(FALSE, 0, "stopped", 3, 3),
      Reports(TRUE, 1, "updating", 1, 0), Reports(TRUE, 0, "completed", 2, 0),
      Reports(TRUE, 0, "updating", 2, 1)}

\* One client of the account k1, at the address 0, that nothing tells of a
\* change of passkey.
AdminAnnounces == {Asks(h1, p1, k1, 0, FALSE, 1, event) : event \in {"updating", "stopped"}}

\* The site's updates: those that decide who is let in, and the others.
AccessUpdates ==
  {"change_passkey", "add_user", "update_user", "remove_users", "add_ban", "remove_ban",
   "add_ip_restriction", "remove_ip_restriction", "add_whitelist", "edit_whitelist",
   "remove_whitelist"}
SiteUpdates ==
  {"add_torrent", "delete_torrent", "update_torrent", "add_token", "remove_token"}
=============================================================================
