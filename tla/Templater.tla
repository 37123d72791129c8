------------------------------- MODULE Templater -------------------------------
(***************************************************************************)
(* template_logs of codag-drain/src/compress.rs with the groupers that run *)
(* a Drain engine: the lines of a batch go through the engine one by one   *)
(* (DrainGrouper in grouper.rs), tokenised as the grouper's mode says; the *)
(* groups are put in order (finalize), and each gets a template, the       *)
(* captured values of its members (Profile::build) and their summary.      *)
(***************************************************************************)
EXTENDS Profiles, Masking

CONSTANTS
  Lines,                       \* the lines of a batch
  Groupers,                    \* "drain", "drain-stock", "drain-delimited"
  Delimiters,                  \* generic_delimiters
  MinCompactTokens,            \* tokens a compact line has at least
  MinCompactMarks,             \* punctuation marks among them
  SimNum, SimDen, MaxNodeDepth, MaxChildren,   \* drain_sim_th, drain_depth - 2, drain_max_children
  MaxLines,                    \* bound on the length of the batch
  NoLimit                      \* capacity of the engine's unlimited store

ASSUME TemplaterAssumption == Lines \subseteq Seq(DOMAIN Kind)

(* What the masker matches is not blank; digits are of the class of words. *)
ASSUME InkAssumption ==
  /\ {IpMask, HexMask, NumMask} \subseteq DOMAIN Kind
  /\ \A c \in WordChars \cup Signs \cup {Dot} : c \in DOMAIN Kind => Kind[c] # "blank"
  /\ \A d \in Digits : d \in DOMAIN Kind => Kind[d] = "word"

(* A line with less than one punctuation mark is not compact. *)
ASSUME CompactAssumption == MinCompactTokens \in Nat /\ MinCompactMarks \in Nat \ {0}

(* The engine's, with an unlimited store.                                  *)
ASSUME EngineAssumption ==
  /\ SimNum \in Nat /\ SimDen \in Nat \ {0} /\ SimNum <= SimDen
  /\ MaxNodeDepth \in Nat \ {0} /\ MaxChildren \in Nat
  /\ NoLimit \notin Nat /\ MaxLines \in Nat

VARIABLES
  grouper,                     \* config.grouper
  idToCluster, recency, tree, clustersCounter, log,  \* the engine
  profiles                     \* <<>> until the batch is templated

engineVars == <<idToCluster, recency, tree, clustersCounter, log>>
vars == <<grouper, engineVars, profiles>>

(* use_compact_lexing: one word, with punctuation in it. *)
Compact(line) ==
  LET spans == Lex(line)
  IN  /\ Len(WhitespaceTokens(line)) <= 1
      /\ Len(spans) >= MinCompactTokens
      /\ Cardinality({p \in DOMAIN spans : Kind[line[spans[p].start]] = "punct"})
           >= MinCompactMarks

Delimited(line) == [i \in DOMAIN line |-> IF line[i] \in Delimiters THEN Blank ELSE line[i]]

(* drain_tokens. Compact lines are not masked. *)
DrainTokens(mode, line) ==
  CASE mode = "drain-delimited"                -> WhitespaceTokens(Delimited(Mask(line)))
    [] mode = "drain" /\ Compact(line)         -> Texts(line, Lex(line))
    [] OTHER                                   -> WhitespaceTokens(Mask(line))

(* The engine sees a line as the grouper's tokens. *)
EngineLines == Groupers \X Lines

TokensOf == [l \in EngineLines |-> DrainTokens(l[1], l[2])]

AllTokens == UNION {ToSet(TokensOf[l]) : l \in EngineLines}

Numeric == {token \in AllTokens : \E i \in DOMAIN token : IsDigit(token, i)}

Engine == INSTANCE Drain WITH
  Lines <- EngineLines,
  RawTokens <- TokensOf, MaskedTokens <- TokensOf,
  Tokens <- AllTokens,
  NumericTokens <- Numeric, ParamStr <- <<Placeholder>>,
  MaxClusters <- NoLimit, MaxCalls <- MaxLines

Init == grouper \in Groupers /\ Engine!Init /\ profiles = <<>>

(* The next line of the batch goes through the engine. *)
GroupLine ==
  /\ profiles = <<>>
  /\ \E line \in Lines : Engine!AddLogMessage(<<grouper, line>>)
  /\ UNCHANGED <<grouper, profiles>>

(* by_cluster and finalize: members in order, groups by their first.       *)
Groups ==
  LET bucket(i) == {j \in DOMAIN log : log[j].id = log[i].id}
      firsts == {i \in DOMAIN log : \A j \in bucket(i) : i <= j}
  IN  [g \in 1..Cardinality(firsts) |-> Ascending(bucket(Ascending(firsts)[g]))]

MemberLines(members) == [m \in DOMAIN members |-> log[members[m]].line[2]]

(* Profile::build, and the group made of it. *)
ProfileOf(members) ==
  LET group    == MemberLines(members)
      template == DeriveTemplate(group)
      captures == [m \in DOMAIN group |-> CaptureSlots(template, group[m])]
  IN  [members |-> members, template |-> template, captures |-> captures,
       group   |-> TemplateGroup(members, template, captures)]

TemplateGroups ==
  /\ profiles = <<>> /\ log # <<>>
  /\ profiles' = [g \in DOMAIN Groups |-> ProfileOf(Groups[g])]
  /\ UNCHANGED <<grouper, engineVars>>

Next == GroupLine \/ TemplateGroups

Spec == Init /\ [][Next]_vars

-----------------------------------------------------------------------------
(* Properties.                                                             *)

(* Members that read alike but for words: the same text between their      *)
(* tokens, no commas, none at the ends, and where they differ it is in one *)
(* word at a time.                                                         *)
ReadAlike(group) ==
  LET spans(m) == Lex(group[m])
      dynamic  == {pos \in DOMAIN spans(1) : ~Static(group, pos)}
  IN  /\ SameLength([m \in DOMAIN group |-> spans(m)])
      /\ \A m \in DOMAIN group :
           /\ group[m] = Trim(StripCommas(group[m]))
           /\ \A pos \in DOMAIN spans(1) :
                /\ Gap(group[m], spans(m), pos) = Gap(group[1], spans(1), pos)
                /\ pos \in dynamic =>
                     pos + 1 \notin dynamic /\ Kind[group[m][spans(m)[pos].start]] = "word"

(* The slot values are right where they can be: of members that read alike *)
(* each placeholder captures exactly the word that varies there, for every *)
(* member.  Template, regex and lexer agree.                               *)
SlotsAreWords ==
  \A p \in ToSet(profiles) :
    LET group   == MemberLines(p.members)
        dynamic == Ascending({pos \in DOMAIN Lex(group[1]) : ~Static(group, pos)})
    IN  ReadAlike(group) /\ HasStaticAnchor(p.template) =>
          \A m \in DOMAIN group :
            p.captures[m] = {[k \in DOMAIN dynamic |-> Text(group[m], Lex(group[m])[dynamic[k]])]}

(* Pairs of places that stand in the same order in both sequences.         *)
InOrder(S) ==
  \A p, q \in S : p = q \/ (p[1] < q[1] /\ p[2] < q[2]) \/ (q[1] < p[1] /\ q[2] < p[2])

(* The alignment of two token sequences, those of neighbouring lines, is a *)
(* longest common subsequence: equal tokens, in the same order, and as     *)
(* many as can be.                                                         *)
AlignmentIsLongest ==
  profiles = <<>> /\ Len(log) > 1 =>
    LET a == WhitespaceTokens(log[Len(log) - 1].line[2])
        b == WhitespaceTokens(log[Len(log)].line[2])
        ms == LcsMatches(a, b)
        equal == {p \in (DOMAIN a) \X (DOMAIN b) : a[p[1]] = b[p[2]]}
    IN  /\ \A k \in DOMAIN ms :
             /\ ms[k] \in equal
             /\ k > 1 => ms[k - 1][1] < ms[k][1] /\ ms[k - 1][2] < ms[k][2]
        /\ \A S \in SUBSET equal : InOrder(S) => Cardinality(S) <= Len(ms)

(* Numbers do not tell lines apart: a line that reads like the one before  *)
(* it, but for fields that are numbers, gets into the same group.          *)
NumbersShareAGroup ==
  Len(log) > 1 =>
    LET i == Len(log)
        a == WhitespaceTokens(log[i - 1].line[2])
        b == WhitespaceTokens(log[i].line[2])
        number(token) == ToSet(token) \subseteq Digits
    IN  (/\ Len(a) = Len(b)
         /\ \A p \in DOMAIN a : a[p] = b[p] \/ (number(a[p]) /\ number(b[p])))
        => log[i].id = log[i - 1].id

(* The statistics of a slot are of its members, repeated values included:  *)
(* at least half of the numbers are on either side of the median, none is  *)
(* outside the range, there is no range only if fewer than half of the     *)
(* values are numbers, and every distinct value is counted once.           *)
StatisticsOfMembers ==
  \A p \in ToSet(profiles) : \A k \in DOMAIN p.group.slots :
    LET slot      == p.group.slots[k]
        matched   == {m \in DOMAIN p.captures : p.captures[m] # {}}
        value(m)  == Value(p.captures[m])[k]
        parsed    == {m \in matched : FirstNumber(value(m)) # {}}
        number(m) == Value(FirstNumber(value(m)))
    IN  /\ \A n \in slot.numeric :
             /\ 2 * Cardinality({m \in parsed : 2 * number(m) <= n.medianTwice})
                  >= Cardinality(parsed)
             /\ 2 * Cardinality({m \in parsed : 2 * number(m) >= n.medianTwice})
                  >= Cardinality(parsed)
             /\ \A m \in parsed : number(m) \in n.min..n.max
        /\ slot.numeric = {} <=> 2 * Cardinality(parsed) < Cardinality(matched) \/ parsed = {}
        /\ slot.distinct = Cardinality({value(m) : m \in matched})

(* The samples of a slot are its first distinct values, as many as there   *)
(* are or the cap allows, in the order of the members: each is the value   *)
(* of a member before which there are values of earlier samples only.      *)
SamplesAreFirstDistinct ==
  \A p \in ToSet(profiles) : \A k \in DOMAIN p.group.slots :
    LET samples    == p.group.slots[k].samples
        matched    == {m \in DOMAIN p.captures : p.captures[m] # {}}
        value(m)   == Value(p.captures[m])[k]
        earlier(i) == {samples[j] : j \in 1..(i - 1)}
    IN  /\ Len(samples) = Min({Cardinality({value(m) : m \in matched}), SlotSampleCap})
        /\ \A i \in DOMAIN samples : \E m \in matched :
             /\ value(m) = samples[i] /\ samples[i] \notin earlier(i)
             /\ \A o \in matched : o < m => value(o) \in earlier(i)

(* The summary of a slot speaks for its members: in its statistics and in  *)
(* its samples.                                                            *)
SummariesSpeakForMembers == StatisticsOfMembers /\ SamplesAreFirstDistinct

(* "every derived template is re-validated downstream by                   *)
(* regex_from_placeholder actually matching the group members"             *)
(* (template.rs:11-15), and a template that does not is discarded: the     *)
(* template of a group with a regex matches its members.                   *)
TemplatesMatchMembers ==
  \A p \in ToSet(profiles) :
    HasStaticAnchor(p.template) => \A m \in DOMAIN p.captures : p.captures[m] # {}
=============================================================================
