-------------------------------- MODULE Input --------------------------------
(***************************************************************************)
(* The input parsing of codag-drain/src/input.rs, which the command line   *)
(* tool and the HTTP host share.  A raw line is what split_whitespace      *)
(* makes of it, its fields, beside what serde_json makes of it, a LogLine  *)
(* or NoLine; a message is the sequence of its fields.                     *)
(***************************************************************************)
EXTENDS Naturals, Sequences, FiniteSets, SequencesExt

CONSTANTS
  Fields,     \* whitespace-separated fields
  Dates,      \* those that are an ISO date
  Times,      \* those that make a timestamp with a date before them
  Stamps,     \* those that are a timestamp in themselves: date and time, epoch
  LevelOf,    \* level token -> its level, trimmed and in lower case
  Width,      \* field -> its characters
  NoLine,     \* no LogLine: the line is not a JSON object with a message
  None        \* no level

ASSUME FieldAssumption ==
  /\ Dates \cup Times \cup Stamps \cup DOMAIN LevelOf \subseteq Fields
  /\ Width \in [Fields -> Nat \ {0}]
  /\ \A field \in DOMAIN LevelOf : LevelOf[field] # None

(* How many fields the timestamp takes; two are preferred to one.          *)
StampFields(fields) ==
  IF Len(fields) >= 2 /\ fields[1] \in Dates /\ fields[2] \in Times THEN 2
  ELSE IF fields # <<>> /\ fields[1] \in Dates \cup Stamps THEN 1 ELSE 0

(* Mutant of LevelFields: a level is looked for in the whole line.         *)
LevelFieldsAnywhere(fields, n) ==
  {i \in DOMAIN fields : i > n /\ fields[i] \in DOMAIN LevelOf}

(* The level tokens among the next three fields.                           *)
LevelFields(fields, n) ==
  {i \in DOMAIN fields : i \in (n + 1)..(n + 3) /\ fields[i] \in DOMAIN LevelOf}

(* parse_line.  What precedes the level goes with it.                      *)
ParseLine(fields) ==
  LET n == StampFields(fields)
      levels == LevelFields(fields, n)
      level == CHOOSE i \in levels : \A j \in levels : i <= j
  IN  [timestamp |-> SubSeq(fields, 1, n),
       level |-> IF levels = {} THEN None ELSE LevelOf[fields[level]],
       message |-> SubSeq(fields, (IF levels = {} THEN n ELSE level) + 1, Len(fields))]

(* What is in S of a sequence: filter and filter_map.                      *)
Filter(s, S) == FoldLeft(LAMBDA kept, x : IF x \in S THEN Append(kept, x) ELSE kept, <<>>, s)

(* The lines of a body that are not blank, parsed; parse_json_line is the  *)
(* line's json.                                                            *)
Parsed(rawLines, format) ==
  LET lines == Filter(rawLines, {raw \in ToSet(rawLines) : raw.fields # <<>>})
  IN  [i \in DOMAIN lines |->
         IF format = "text" THEN ParseLine(lines[i].fields) ELSE lines[i].json]

(* parse_body, which skips what is not JSON.                               *)
ParseBody(rawLines, format) ==
  LET lines == Parsed(rawLines, format) IN Filter(lines, ToSet(lines) \ {NoLine})

(* Characters of some fields, with a blank between two.                    *)
Chars(fields) ==
  FoldLeft(LAMBDA sum, field : sum + Width[field], 0, fields)
    + (IF fields = <<>> THEN 0 ELSE Len(fields) - 1)

(* Bytes of a body, line ends included (every character being ASCII).      *)
Bytes(rawLines) ==
  FoldLeft(LAMBDA sum, raw : sum + Chars(raw.fields) + 1, 0, rawLines)
=============================================================================
