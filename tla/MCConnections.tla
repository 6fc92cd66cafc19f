--------------------------- MODULE MCConnections ---------------------------
(* Values of the constants of Connections for TLC. *)
EXTENDS Connections, TLC

CONSTANTS c1, c2

\* GET /passkey/action?params, with every parameter an announce must have.
Announced ==
  [garbled |-> FALSE, path |-> {"reqpasskey", "action"}, action |-> "announce",
   type |-> "other", key |-> "user", params |-> AnnounceParameters, infoHash |-> TRUE,
   numbers |-> TRUE, known |-> TRUE]

WithoutLeft == [Announced EXCEPT !.params = @ \ {"left"}]
Scraped == [Announced EXCEPT !.action = "scrape", !.params = {}]

Updated(type, params) ==
  [Announced EXCEPT !.action = "update", !.type = type, !.key = "updatekey",
                    !.params = params \cup {"type"}]

Message(line, chunks) == [line |-> line, chunks |-> chunks]

\* An announce and a scrape that are handled; one that lacks a parameter, one
\* longer than the server takes, an update that is more than one request.
PrivateMessages ==
  {Message(Announced, <<"text", "end">>), Message(Scraped, <<"end">>),
   Message(WithoutLeft, <<"end">>),
   Message([Announced EXCEPT !.numbers = FALSE], <<"text", "text", "text">>),
   Message(Updated("add_ban", {"from", "to"}), <<"end", "text", "end">>)}

\* What Parser::parse calls case 3, GET /action?params.
PublicMessages ==
  {Message([line EXCEPT !.path = {"action"}], <<"end">>) : line \in {Announced, Scraped}}
=============================================================================
