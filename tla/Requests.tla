------------------------------ MODULE Requests ------------------------------
(***************************************************************************)
(* What the two front ends of codag-drain accept and make of it: the HTTP  *)
(* host (examples/server/src/routes.rs) request by request, beside the     *)
(* command line tool (codag-drain/src/bin/codag-drain.rs) on the same      *)
(* input.  Handlers are atomic here; how they share the sessions and the   *)
(* template slots is SessionStore's and TemplateService's matter.          *)
(*                                                                         *)
(* template_logs is not evaluated: an answer is the lines and the          *)
(* configuration it is called with.                                        *)
(***************************************************************************)
EXTENDS Input

CONSTANTS
  Sessions,       \* session ids
  Bodies,         \* bodies: [lines, utf8]
  Queries,        \* query strings: [grouper, samples, format, body]
  ContentTypes,   \* "text" or "ndjson", as the Content-Type header suggests
  Lower,          \* word of a query -> the word in lower case
  Unset, Bad,     \* no value; a value that is not a number
  EnvValues,      \* values the token's environment variables may have
  Presented,      \* values of the Authorization header
  MaxBodyBytes, MaxLines, MaxLineChars, MaxSamples,   \* Limits
  DefaultSamples, \* TemplaterConfig::default().sample_cap
  MaxRequests     \* bound on the requests

ASSUME LimitsAssumption ==
  /\ {MaxBodyBytes, MaxLines, MaxLineChars, MaxSamples} \subseteq Nat \ {0}
  /\ DefaultSamples \in Nat /\ MaxRequests \in Nat
ASSUME BodyAssumption ==
  \A body \in Bodies :
    /\ body.utf8 \in BOOLEAN /\ body.lines \in Seq(ToSet(body.lines))
    /\ \A raw \in ToSet(body.lines) :
         raw.fields \in Seq(Fields) /\ (raw.fields = <<>> => raw.json = NoLine)

ASSUME FormatAssumption == ContentTypes \subseteq {"text", "ndjson"}

VARIABLES
  authToken,   \* AppState.auth_token
  index,       \* live session -> its lines (TemplateIndex)
  accepted,    \* history: live session -> the bodies ingested, [lines, format]
  handled,     \* number of requests handled
  request,     \* the last request
  response     \* its response

vars == <<authToken, index, accepted, handled, request, response>>

(* The token is trimmed, an empty one is none; the second variable counts  *)
(* only if the first is not set at all.                                    *)
AuthTokenFromEnv(first, second) ==
  LET value == IF first = Unset THEN second ELSE first
  IN  IF value = "" THEN Unset ELSE value

Init ==
  /\ \E first, second \in EnvValues : authToken = AuthTokenFromEnv(first, second)
  /\ index = <<>> /\ accepted = <<>>
  /\ handled = 0
  /\ request = [kind |-> "none"] /\ response = [status |-> 0]

-----------------------------------------------------------------------------
(* The configuration, by the names both front ends know.                   *)

Aliases ==
  [stock |-> "drain-stock", delimited |-> "drain-delimited", fullsearch |-> "drain-fullsearch"]
Groupers == {"drain", "drain-stock", "drain-delimited", "drain-fullsearch", "statistical"}

(* The words of a query; those the front ends know are in lower case.      *)
ASSUME WordAssumption ==
  /\ \A q \in Queries : {q.grouper, q.format, q.body} \subseteq DOMAIN Lower \cup {Unset}
  /\ \A w \in DOMAIN Lower :
       w \in DOMAIN Aliases \cup Groupers \cup {"json", "text"} => Lower[w] = w

GrouperKind(name) == IF name \in DOMAIN Aliases THEN Aliases[name] ELSE name

Config(grouper, samples) ==
  [grouper |-> grouper, samples |-> IF samples = Unset THEN DefaultSamples ELSE samples]

(* Mutant of ParseGrouper: the server does not know the short names.       *)
ParseGrouperLong(name) ==
  IF name # Unset /\ Lower[name] \in Groupers THEN Lower[name] ELSE "drain"

(* parse_grouper and the default: a name the server does not know is none. *)
ParseGrouper(name) ==
  IF name # Unset /\ GrouperKind(Lower[name]) \in Groupers
    THEN GrouperKind(Lower[name]) ELSE "drain"

(* config_from_query and wants_json.                                       *)
SamplesExceed(q) == q.samples \in Nat /\ q.samples > MaxSamples
ConfigFromQuery(q) == Config(ParseGrouper(q.grouper), q.samples)
WantsJson(q) == q.format # Unset /\ Lower[q.format] = "json"

-----------------------------------------------------------------------------
(* The body of a request.                                                  *)

BodyFormat(r) ==
  IF r.query.body # Unset /\ Lower[r.query.body] \in {"json", "ndjson"} THEN "ndjson"
  ELSE IF r.query.body # Unset /\ Lower[r.query.body] = "text" THEN "text"
  ELSE r.contentType

(* parse_limited_body: what the i-th line is refused with, if it is, and   *)
(* what the first line that is refused makes of the request.               *)
LineStatus(line, i) ==
  IF line = NoLine THEN 400
  ELSE IF Chars(line.message) > MaxLineChars \/ i > MaxLines THEN 413 ELSE 200

BodyLines(r) == Parsed(r.body.lines, BodyFormat(r))

RefusedAt(r) == {i \in DOMAIN BodyLines(r) : LineStatus(BodyLines(r)[i], i) # 200}

BodyStatus(r) ==
  IF Bytes(r.body.lines) > MaxBodyBytes THEN 413
  ELSE IF RefusedAt(r) = {} THEN 200
  ELSE LET first == CHOOSE i \in RefusedAt(r) : \A j \in RefusedAt(r) : i <= j
       IN  LineStatus(BodyLines(r)[first], first)

-----------------------------------------------------------------------------
(* The handlers, behind require_bearer_auth and the extraction of the      *)
(* query, which refuses a samples value that is not a number.              *)

AuthStatus(r) ==
  IF authToken = Unset THEN 503 ELSE IF r.token # authToken THEN 401
  ELSE IF r.query.samples = Bad THEN 400 ELSE 200

Respond(r, answer) ==
  /\ handled' = handled + 1
  /\ request' = r /\ response' = answer
  /\ UNCHANGED authToken

Refuse(r, status) ==
  /\ status # 200
  /\ Respond(r, [status |-> status]) /\ UNCHANGED <<index, accepted>>

First(status, next) == IF status # 200 THEN status ELSE next

Put(f, id, value) == [x \in DOMAIN f \cup {id} |-> IF x = id THEN value ELSE f[x]]

Held(f, id) == IF id \in DOMAIN f THEN f[id] ELSE <<>>

(* Mutant of Push: the session's lines are those of its last body.         *)
PushAfresh(id, lines) == index' = Put(index, id, lines)

(* or_insert_with, TemplateIndex::push.                                    *)
Push(id, lines) == index' = Put(index, id, Held(index, id) \o lines)

(* Mutant of Ingest: lines are pushed as they are parsed.                  *)
IngestAsParsed(r) ==
  LET good == {i \in DOMAIN BodyLines(r) : \A j \in 1..i : j \notin RefusedAt(r)}
      status == First(AuthStatus(r), BodyStatus(r))
  IN  /\ Respond(r, [status |-> status])
      /\ IF AuthStatus(r) = 200
           THEN Push(r.session, SubSeq(BodyLines(r), 1, Cardinality(good)))
           ELSE UNCHANGED index
      /\ UNCHANGED accepted

Ingest(r) ==
  \/ Refuse(r, First(AuthStatus(r), BodyStatus(r)))
  \/ /\ First(AuthStatus(r), BodyStatus(r)) = 200
     /\ Push(r.session, BodyLines(r))
     /\ accepted' = Put(accepted, r.session,
                         Append(Held(accepted, r.session),
                                [lines |-> r.body.lines, format |-> BodyFormat(r)]))
     /\ Respond(r, [status |-> 200, ingested |-> Len(BodyLines(r)),
                    total |-> Len(index'[r.session])])

Answer(lines, q) ==
  [status |-> 200, lines |-> lines, config |-> ConfigFromQuery(q), json |-> WantsJson(q)]

ConfigStatus(q) == IF SamplesExceed(q) THEN 413 ELSE 200

Templates(r) ==
  LET status == First(AuthStatus(r), First(ConfigStatus(r.query),
                  IF r.session \in DOMAIN index THEN 200 ELSE 404))
  IN  \/ Refuse(r, status)
      \/ /\ status = 200
         /\ Respond(r, Answer(index[r.session], r.query)) /\ UNCHANGED <<index, accepted>>

(* template_oneshot, given a slot and enough time.                         *)
TemplateOneshot(r) ==
  LET status == First(AuthStatus(r), First(BodyStatus(r), ConfigStatus(r.query)))
  IN  \/ Refuse(r, status)
      \/ /\ status = 200
         /\ Respond(r, Answer(BodyLines(r), r.query)) /\ UNCHANGED <<index, accepted>>

Next ==
  /\ handled < MaxRequests
  /\ \E t \in Presented, q \in Queries :
       \/ \E id \in Sessions :
            Templates([kind |-> "templates", token |-> t, query |-> q, session |-> id])
       \/ \E ct \in ContentTypes, b \in Bodies, id \in Sessions :
            Ingest([kind |-> "ingest", token |-> t, query |-> q, session |-> id,
                    contentType |-> ct, body |-> b])
       \/ \E ct \in ContentTypes, b \in Bodies :
            TemplateOneshot([kind |-> "oneshot", token |-> t, query |-> q,
                             contentType |-> ct, body |-> b])

Spec == Init /\ [][Next]_vars

-----------------------------------------------------------------------------
(* The command line tool: its options, the last of each kind counting, and *)
(* what it runs.  An option at the end without its value is ignored.       *)

CliOutputs == [json |-> TRUE, text |-> FALSE]

(* What option a with value v sets: option -> value, or {} if v is bad.    *)
CliSets(a, v) ==
  CASE a = "--format"  -> IF v \in DOMAIN CliOutputs THEN {[json |-> CliOutputs[v]]} ELSE {}
    [] a = "--grouper" -> IF GrouperKind(v) \in Groupers THEN {[grouper |-> GrouperKind(v)]} ELSE {}
    [] a = "--samples" -> IF v \in Nat THEN {[samples |-> v]} ELSE {}
    [] OTHER           -> {}

(* Options, and others where they set nothing.                             *)
Over(later, options) ==
  [name \in DOMAIN later \cup DOMAIN options |->
     IF name \in DOMAIN later THEN later[name] ELSE options[name]]

(* The options set by the arguments from the i-th on; {} if the tool exits *)
(* with status 2 instead.                                                  *)
CliOptions(args) ==
  LET valued == {"--format", "--grouper", "--samples"}
      from[i \in 1..(Len(args) + 2)] ==
        IF i > Len(args) \/ (i = Len(args) /\ args[i] \in valued) THEN {<<>>}
        ELSE IF args[i] = "--json" THEN {Over(later, [input |-> "ndjson"]) : later \in from[i + 1]}
        ELSE IF args[i] = "--stats" THEN from[i + 1]
        ELSE {Over(later, set) : later \in from[i + 2], set \in CliSets(args[i], args[i + 1])}
  IN  from[1]

OptionOr(options, name, default) == IF name \in DOMAIN options THEN options[name] ELSE default

(* What the tool templates, and how it prints it; {} if it does not.       *)
Cli(args, body) ==
  {[status |-> 200,
    lines  |-> ParseBody(body.lines, OptionOr(options, "input", "text")),
    config |-> Config(OptionOr(options, "grouper", "drain"), OptionOr(options, "samples", Unset)),
    json   |-> OptionOr(options, "json", FALSE)]
     : options \in IF body.utf8 THEN CliOptions(args) ELSE {}}

-----------------------------------------------------------------------------
(* Properties.                                                             *)

(* A session's lines are those the command line tool's parser makes of the *)
(* bodies ingested into it, in order and complete: whatever the limits and *)
(* the rejected requests between them; the total answered is their number. *)
SessionsHoldAccepted ==
  /\ \A id \in DOMAIN index :
       index[id] = FlattenSeq([i \in DOMAIN accepted[id] |->
                                 ParseBody(accepted[id][i].lines, accepted[id][i].format)])
  /\ request.kind = "ingest" /\ response.status = 200 =>
       response.total = Len(index[request.session])

(* A request is taken as a whole or not at all: one that is answered with  *)
(* an error, for whichever of its lines, changes no session; one that is   *)
(* taken changes at most its own, and only grows it.                       *)
AllOrNothing ==
  [][/\ response'.status # 200 => index' = index
     /\ \A id \in DOMAIN index : IsPrefix(index[id], index'[id])
     /\ \A id \in DOMAIN index' : id \in DOMAIN index \/ request'.session = id]_vars

(* The arguments that say what a query says.                               *)
ArgsOf(r) ==
  LET option(name, value) == IF value = Unset THEN <<>> ELSE <<name, value>>
  IN  (IF BodyFormat(r) = "ndjson" THEN <<"--json">> ELSE <<>>)
        \o option("--grouper", r.query.grouper) \o option("--samples", r.query.samples)
        \o option("--format", r.query.format)

(* The one-shot route "mirrors the CLI" (main.rs:7): what both accept they *)
(* template alike, the same lines with the same configuration.             *)
MirrorsCli ==
  request.kind = "oneshot" /\ response.status = 200 =>
    \A run \in Cli(ArgsOf(request), request.body) : response = run

(* Every field of a stored text line is accounted for: the timestamp comes *)
(* first and the message last; between them nothing is dropped but a level *)
(* token with at most two fields before it.                                *)
FieldsAccounted ==
  \A id \in DOMAIN index : \A i \in DOMAIN index[id] :
    \E b \in DOMAIN accepted[id] : \E raw \in ToSet(accepted[id][b].lines) :
      IF accepted[id][b].format = "ndjson" THEN index[id][i] = raw.json
      ELSE LET line == index[id][i]
               dropped == Len(raw.fields) - Len(line.timestamp) - Len(line.message)
           IN  /\ IsPrefix(line.timestamp, raw.fields) /\ IsSuffix(line.message, raw.fields)
               /\ IF line.level = None THEN dropped = 0
                  ELSE /\ dropped \in 1..3
                       /\ LevelOf[raw.fields[Len(line.timestamp) + dropped]] = line.level
=============================================================================
