----------------------------- MODULE MCRequests -----------------------------
(***************************************************************************)
(* Two requests in a row on two sessions.  The bodies have a line with a   *)
(* timestamp of two fields, one with a level after two fields and another  *)
(* date behind it, one whose level comes too late, one that is metadata    *)
(* only, blank and JSON lines, too many lines, too long a message, too     *)
(* many bytes, a JSON line after which a line is not, and none at all.     *)
(***************************************************************************)
EXTENDS Requests, TLC

MCFields == {"2026-05-22", "14:13:00", "1779459180", "[ERROR]", "a", "b", "{..}"}
MCDates == {"2026-05-22"}
MCTimes == {"14:13:00"}
MCStamps == {"1779459180"}
MCLevelOf == "[ERROR]" :> "error"
MCWidth == [f \in MCFields |-> IF f = "{..}" THEN 9 ELSE 1]

Text(fields) == [fields |-> fields, json |-> NoLine]
JsonLine(fields) ==
  [fields |-> <<"{..}">>, json |-> [message |-> fields, level |-> None, timestamp |-> <<>>]]

Stamped == Text(<<"2026-05-22", "14:13:00", "[ERROR]", "a">>)
Level == Text(<<"a", "b", "[ERROR]", "2026-05-22">>)
LateLevel == Text(<<"2026-05-22", "a", "b", "a", "[ERROR]">>)
Metadata == Text(<<"1779459180", "[ERROR]">>)
Blank == Text(<<>>)

MCBodies ==
  {[lines |-> b, utf8 |-> TRUE] :
     b \in { <<Stamped, Blank, Level>>, <<Metadata, LateLevel>>, <<JsonLine(<<"a">>)>>,
             <<JsonLine(<<"b", "a">>), Level>>, <<Level, Level, Metadata>>,
             <<JsonLine(<<"a", "b", "a", "b", "a">>)>>,
             <<JsonLine(<<"a">>), JsonLine(<<"a">>), JsonLine(<<"b">>)>>, <<Blank>> }}
  \cup {[lines |-> <<Level>>, utf8 |-> FALSE]}

Plain == [grouper |-> Unset, samples |-> Unset, format |-> Unset, body |-> Unset]
MCQueries ==
  {Plain, [Plain EXCEPT !.grouper = "stock", !.samples = 0], [Plain EXCEPT !.samples = Bad],
   [Plain EXCEPT !.grouper = "STOCK"], [Plain EXCEPT !.grouper = "other", !.format = "json"],
   [Plain EXCEPT !.samples = 3, !.body = "text"], [Plain EXCEPT !.body = "NDJSON"]}
MCWords == {"stock", "STOCK", "other", "json", "text", "NDJSON"}
MCLower ==
  [w \in MCWords |-> CASE w = "STOCK" -> "stock" [] w = "NDJSON" -> "ndjson" [] OTHER -> w]
MCEnvValues == {Unset, "", "secret"}
MCPresented == {Unset, "secret"}
=============================================================================
