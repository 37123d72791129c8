------------------------------ MODULE LexTemplate ------------------------------
(***************************************************************************)
(* From a group of lines to its template and back to the values of each    *)
(* line: the lexer (lex.rs), template derivation and the capture regex     *)
(* (template.rs) of codag-drain/src/compress.  All of it is pure.          *)
(*                                                                         *)
(* A line is a sequence of characters, since a template keeps the text     *)
(* between its tokens and the regex matches character by character; what   *)
(* matters of a character is its class.  "<*>" is one symbol of its own,   *)
(* which no line contains.  A group is a sequence of lines.                *)
(***************************************************************************)
EXTENDS Naturals, Sequences, FiniteSets, FiniteSetsExt, SequencesExt

CONSTANTS
  Kind,         \* character -> "word", "punct", "other", or "blank"
  Noise,        \* ALLOWED_NOISE_PUNCT: characters that are no anchor
  Blank, Comma,
  Placeholder   \* "<*>"

ASSUME CharacterAssumption ==
  /\ {Blank, Comma} \cup Noise \subseteq DOMAIN Kind
  /\ Kind[Blank] = "blank" /\ Kind[Comma] = "punct"
  /\ Placeholder \notin DOMAIN Kind

(* The numbers of a set in order.                                          *)
Ascending(S) ==
  [p \in 1..Cardinality(S) |-> CHOOSE i \in S : Cardinality({j \in S : j < i}) = p - 1]

(* The elements of a sequence at the given places, in order.               *)
Selected(seq, places) ==
  LET at == Ascending(places) IN [i \in DOMAIN at |-> seq[at[i]]]

Inked(line, i) == Kind[line[i]] # "blank"

-----------------------------------------------------------------------------
(* Tokens, as spans of the line.                                           *)

(* The spans of a line whose tokens start at the given places and go on    *)
(* until the next start or blank.                                          *)
Spans(line, starts) ==
  LET at == Ascending(starts)
  IN  [p \in DOMAIN at |->
         [start |-> at[p],
          end   |-> Max({i \in at[p]..Len(line) :
                           \A j \in (at[p] + 1)..i : Inked(line, j) /\ j \notin starts})]]

(* lex: runs of one class, each punctuation mark for itself.               *)
Lex(line) ==
  Spans(line, {i \in DOMAIN line :
                 /\ Inked(line, i)
                 /\ i > 1 /\ Kind[line[i]] # "punct" => Kind[line[i]] # Kind[line[i - 1]]})

Text(line, span) == SubSeq(line, span.start, span.end)

Texts(line, spans) == [p \in DOMAIN spans |-> Text(line, spans[p])]

(* split_whitespace. *)
WhitespaceTokens(line) ==
  Texts(line, Spans(line, {i \in DOMAIN line :
                             Inked(line, i) /\ (i > 1 => ~Inked(line, i - 1))}))

SameLength(seqs) == \A s, t \in ToSet(seqs) : Len(s) = Len(t)

-----------------------------------------------------------------------------
(* derive_lex_template, for members with equally many tokens.              *)

Static(group, pos) ==
  \A line \in ToSet(group) : Text(line, Lex(line)[pos]) = Text(group[1], Lex(group[1])[pos])

(* The text of the first member before its token pos.                      *)
Gap(line, spans, pos) ==
  SubSeq(line, IF pos = 1 THEN 1 ELSE spans[pos - 1].end + 1, spans[pos].start - 1)

(* Mutant of DynamicPiece: last_placeholder is not reset by a static token. *)
DynamicPieceOnce(group, pos) ==
  IF \A before \in 1..(pos - 1) : Static(group, before) THEN <<Placeholder>> ELSE <<>>

(* A dynamic token right after another one leaves nothing.                 *)
DynamicPiece(group, pos) ==
  IF pos > 1 => Static(group, pos - 1) THEN <<Placeholder>> ELSE <<>>

DeriveLexTemplate(group) ==
  LET raw   == group[1]
      spans == Lex(raw)
      piece(pos) == Gap(raw, spans, pos) \o
                      (IF Static(group, pos) THEN Text(raw, spans[pos])
                       ELSE DynamicPiece(group, pos))
      tail  == SubSeq(raw, IF spans = <<>> THEN 1 ELSE spans[Len(spans)].end + 1, Len(raw))
  IN  FlattenSeq([pos \in DOMAIN spans |-> piece(pos)]) \o tail

-----------------------------------------------------------------------------
(* get_opcodes: an alignment of two token sequences by a longest common    *)
(* subsequence.  An opcode is "equal" for a run of matches, "gap" for what *)
(* is left between two runs; the model keeps the matches.                  *)

(* The table, with the length of the longest common subsequence of the     *)
(* suffixes from i and j.                                                  *)
LcsTable(a, b) ==
  LET dp[at \in (1..(Len(a) + 1)) \X (1..(Len(b) + 1))] ==
        LET i == at[1]  j == at[2]
        IN  IF i > Len(a) \/ j > Len(b) THEN 0
            ELSE IF a[i] = b[j] THEN dp[<<i + 1, j + 1>>] + 1
            ELSE Max({dp[<<i + 1, j>>], dp[<<i, j + 1>>]})
  IN  dp

(* Mutant of Skips: the other sequence is advanced.                        *)
SkipsOther(dp, i, j) == dp[<<i + 1, j>>] < dp[<<i, j + 1>>]

(* Where the tokens differ, whether a's is skipped.                        *)
Skips(dp, i, j) == dp[<<i + 1, j>>] >= dp[<<i, j + 1>>]

LcsMatches(a, b) ==
  LET dp == LcsTable(a, b)
      from[at \in (1..(Len(a) + 1)) \X (1..(Len(b) + 1))] ==
        LET i == at[1]  j == at[2]
        IN  IF i > Len(a) \/ j > Len(b) THEN <<>>
            ELSE IF a[i] = b[j] THEN << at >> \o from[<<i + 1, j + 1>>]
            ELSE IF Skips(dp, i, j) THEN from[<<i + 1, j>>]
            ELSE from[<<i, j + 1>>]
  IN  from[<<1, 1>>]

-----------------------------------------------------------------------------
(* Templates of ragged members, over whitespace tokens.                    *)

(* join(" "). *)
Join(tokens) ==
  FlattenSeq([i \in DOMAIN tokens |-> (IF i = 1 THEN <<>> ELSE <<Blank>>) \o tokens[i]])

(* derive_pair_template: the matches, and a placeholder where tokens of    *)
(* either sequence are left between two of them.                           *)
DerivePairTemplate(a, b) ==
  LET ms  == LcsMatches(a, b)
      all == << <<0, 0>> >> \o ms \o << <<Len(a) + 1, Len(b) + 1>> >>
      leaves(k) == all[k + 1] # <<all[k][1] + 1, all[k][2] + 1>>
      piece(k) == (IF leaves(k) THEN << <<Placeholder>> >> ELSE <<>>)
                    \o (IF k > Len(ms) THEN <<>> ELSE << a[ms[k][1]] >>)
  IN  Join(FlattenSeq([k \in 1..(Len(ms) + 1) |-> piece(k)]))

(* derive_multi_template.  A placeholder after another is dropped          *)
(* (collapse_placeholders).                                                *)
DeriveMultiTemplate(group) ==
  LET members == [m \in DOMAIN group |-> WhitespaceTokens(group[m])]
      static(pos) == \A m \in ToSet(members) : m[pos] = members[1][pos]
      piece(pos) == IF static(pos) THEN << members[1][pos] >>
                    ELSE IF pos > 1 => static(pos - 1) THEN << <<Placeholder>> >>
                    ELSE <<>>
  IN  IF SameLength(members)
        THEN Join(FlattenSeq([pos \in DOMAIN members[1] |-> piece(pos)]))
        ELSE DerivePairTemplate(members[1], members[2])

(* The choice Profile::build makes.                                        *)
DeriveTemplate(group) ==
  IF SameLength([m \in DOMAIN group |-> Lex(group[m])])
    THEN DeriveLexTemplate(group) ELSE DeriveMultiTemplate(group)

-----------------------------------------------------------------------------
(* The capture regex.                                                      *)

(* has_static_anchor: without one there is no regex.                       *)
HasStaticAnchor(template) ==
  ToSet(template) \ ({Placeholder, Blank} \cup Noise) # {}

StripCommas(text) == Selected(text, {i \in DOMAIN text : text[i] # Comma})

Trim(text) ==
  LET ink == {i \in DOMAIN text : Inked(text, i)}
  IN  IF ink = {} THEN <<>> ELSE SubSeq(text, Min(ink), Max(ink))

(* Of the places where a placeholder can end, (.*?) takes the first.       *)
Takes(ends) == Min(ends)

(* What the placeholders of a template capture of a line, in order: {} if  *)
(* the anchored regex does not match, else a set of one sequence.          *)
Captures(template, line) ==
  LET pattern == StripCommas(template)
      text    == Trim(StripCommas(line))
      match[at \in (1..(Len(pattern) + 1)) \X (1..(Len(text) + 1))] ==
        LET i == at[1]  p == at[2]
        IN  IF i > Len(pattern) THEN IF p > Len(text) THEN { <<>> } ELSE {}
            ELSE IF pattern[i] = Placeholder
              THEN LET ends == {q \in p..(Len(text) + 1) : match[<<i + 1, q>>] # {}}
                   IN  IF ends = {} THEN {}
                       ELSE {<< SubSeq(text, p, Takes(ends) - 1) >> \o c :
                               c \in match[<<i + 1, Takes(ends)>>]}
            ELSE IF p <= Len(text) /\ text[p] = pattern[i] THEN match[<<i + 1, p + 1>>]
            ELSE {}
  IN  match[<<1, 1>>]

(* capture_slots: {} for slots that are all None.                          *)
CaptureSlots(template, line) ==
  IF HasStaticAnchor(template) THEN Captures(template, line) ELSE {}
=============================================================================
