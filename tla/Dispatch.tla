------------------------------ MODULE Dispatch ------------------------------
(***************************************************************************)
(* From a request line to a handler: Parser (src/misc/parser.cpp) and      *)
(* RequestHandler::handle and update (src/handler/requestHandler.cpp).     *)
(*                                                                         *)
(* What matters of a request is which parameters it has, because handlers  *)
(* read them with at(), which throws when one is missing, as stoul and     *)
(* stoi do when a value is not a number.  Nothing between a handler and    *)
(* main() catches an exception.  The values, and the state they are looked *)
(* up in, are left open: RequestHandler says what a handler then does.     *)
(***************************************************************************)
EXTENDS FiniteSets

CONSTANT Type   \* Config "type"

UpdateTypes ==
  {"change_passkey", "add_torrent", "delete_torrent", "update_torrent", "add_user",
   "update_user", "remove_user", "remove_users", "add_token", "remove_token", "add_ban",
   "remove_ban", "add_ip_restriction", "remove_ip_restriction", "add_whitelist",
   "edit_whitelist", "remove_whitelist", "set_leech_status"}

\* The keys of Parser::required: actions and update types in one map.
Names == {"announce", "scrape", "update"} \cup UpdateTypes

Parameters ==
  {"reqpasskey", "action", "port", "peer_id", "left", "user-agent", "downloaded",
   "uploaded", "type", "old_passkey", "new_passkey", "id", "size", "freetorrent",
   "passkey", "can_leech", "passkeys", "from", "to", "fromip", "toip", "ip",
   "old_peer_id", "new_peer_id", "leech_status"}

AnnounceParameters == {"port", "peer_id", "left", "user-agent", "downloaded", "uploaded"}

\* Mutant of AnnounceRequired: an announce need not say how much is left.
AnnounceRequiredButLeft == (AnnounceParameters \ {"left"}) \cup {"reqpasskey"}

AnnounceRequired ==
  AnnounceParameters \cup (IF Type = "private" THEN {"reqpasskey"} ELSE {})

\* Parser::init.
Required(name) ==
  CASE name = "announce" -> AnnounceRequired
    [] name = "update" -> {"type", "reqpasskey"}
    [] name = "change_passkey" -> {"old_passkey", "new_passkey"}
    [] name = "add_torrent" -> {"id", "size"}
    [] name = "update_torrent" -> {"freetorrent"}
    [] name = "add_user" -> {"passkey", "id"}
    [] name = "update_user" -> {"passkey", "can_leech"}
    [] name \in {"remove_user", "add_token", "remove_token"} -> {"passkey"}
    [] name = "remove_users" -> {"passkeys"}
    [] name \in {"add_ban", "remove_ban"} -> {"from", "to"}
    [] name \in {"add_whitelist", "remove_whitelist"} -> {"peer_id"}
    [] name = "edit_whitelist" -> {"old_peer_id", "new_peer_id"}
    [] OTHER -> {}

\* A request as it is sent.  `path' is what GET /passkey/action?params holds of
\* its first two parts; what is left out may be among the params.
Lines ==
  [garbled : BOOLEAN,                       \* under 60 bytes, or without a '?'
   path : SUBSET {"reqpasskey", "action"},
   action : Names \cup {"other"}, type : Names \cup {"other"},
   key : {"updatekey", "user", "stranger"},
   params : SUBSET Parameters, infoHash : BOOLEAN,
   numbers : BOOLEAN,                       \* its numbers are numbers
   known : BOOLEAN]                         \* the torrents and passkeys it names exist

\* Parser::parse, as the parameters found; a garbled request has none.
Parse(line) == IF line.garbled THEN {} ELSE line.path \cup line.params

\* Parser::check: the action, then for an update its type.
Check(line) ==
  LET req == Parse(line) IN
  /\ "action" \in req /\ line.action \in Names
  /\ Required(line.action) \subseteq req
  /\ line.action = "update" => line.type \in Names /\ Required(line.type) \subseteq req

-----------------------------------------------------------------------------
(* What the handlers read *)

\* The parameters the handler of an update reads with at().
Reads(type) ==
  CASE type \in {"add_ban", "remove_ban"} -> {"fromip", "toip"}
    [] type \in {"add_ip_restriction", "remove_ip_restriction"} -> {"ip", "passkey"}
    [] type = "add_torrent" -> {"id", "freetorrent"}
    [] type = "set_leech_status" -> {"leech_status"}
    [] type \in UpdateTypes -> Required(type)
    [] OTHER -> {}

\* infoHashes->front(), which is a null pointer when there is none.
ReadsInfoHash ==
  {"add_torrent", "delete_torrent", "update_torrent", "add_token", "remove_token"}
ReadsNumbers ==
  {"add_torrent", "add_user", "add_ban", "remove_ban", "add_ip_restriction",
   "remove_ip_restriction"}
\* usrMap.at and torMap.at.
ReadsKnown == {"add_ip_restriction", "remove_ip_restriction", "add_token", "remove_token"}

UpdateFails(line) ==
  \/ ~(Reads(line.type) \subseteq Parse(line))
  \/ line.type \in ReadsInfoHash /\ ~line.infoHash
  \/ line.type \in ReadsNumbers /\ ~line.numbers
  \/ line.type \in ReadsKnown /\ ~line.known

\* announce() and addPeer, then getPeers and nextPeer.  Any refusal may come
\* first, and a peer that is there already spares some conversions.  A cursor
\* that was lost (see PeerRing) is followed into freed memory: the answer may
\* come all the same, or the process ends without an exception.
AnnounceOutcomes(line) ==
  IF ~(AnnounceParameters \subseteq Parse(line)) THEN {"error", "exception"}
  ELSE {"error", "announce", "crash"} \cup (IF line.numbers THEN {} ELSE {"exception"})

\* RequestHandler::handle, from the first line to the last.
Outcomes(line) ==
  IF ~Check(line) THEN {"error"}
  ELSE IF Type = "private" /\ line.action = "update" /\ line.key = "updatekey"
  THEN {IF UpdateFails(line) THEN "exception" ELSE "success"}
  ELSE IF "reqpasskey" \notin Parse(line) THEN {"exception"}
  ELSE IF (Type = "private" /\ line.key # "user") \/ ~line.infoHash THEN {"error"}
  ELSE CASE line.action = "announce" -> AnnounceOutcomes(line)
         [] line.action = "scrape" -> {"error", "scrape"}
         [] OTHER -> {"error", "invalid action"}
=============================================================================
