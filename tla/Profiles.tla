------------------------------- MODULE Profiles -------------------------------
(***************************************************************************)
(* What template_groups of codag-drain/src/compress.rs says of a group of  *)
(* lines: its template, samples of its members, and a summary of each      *)
(* slot's values (profile.rs).  Numbers are in tenths, and the medians are *)
(* doubled, so that they are whole.                                        *)
(***************************************************************************)
EXTENDS LexTemplate, Integers

CONSTANTS
  Digit,           \* digit -> its value
  Letters,         \* ASCII letters
  Minus, Point,
  SampleCap, SlotSampleCap, TemplateClip   \* TemplaterConfig

ASSUME ProfileAssumption ==
  /\ {SampleCap, SlotSampleCap, TemplateClip} \subseteq Nat
  /\ DOMAIN Digit \cup {Minus, Point} \subseteq DOMAIN Kind
  /\ Digit \in [DOMAIN Digit -> 0..9]

IsDigit(text, i) == i \in DOMAIN text /\ text[i] \in DOMAIN Digit

(* num_re: the first number in a text, {} if there is none.  Of a fraction *)
(* the model keeps one digit.                                              *)
FirstNumber(text) ==
  LET signed(i) == text[i] = Minus /\ IsDigit(text, i + 1)
      starts == {i \in DOMAIN text : IsDigit(text, i) \/ signed(i)}
      start  == Min(starts)
      first  == IF signed(start) THEN start + 1 ELSE start
      last   == Max({j \in first..Len(text) : \A k \in first..j : IsDigit(text, k)})
      whole[j \in (first - 1)..last] ==
        IF j < first THEN 0 ELSE 10 * whole[j - 1] + Digit[text[j]]
      tenths == IF last < Len(text) /\ text[last + 1] = Point /\ IsDigit(text, last + 2)
                  THEN Digit[text[last + 2]] ELSE 0
  IN  IF starts = {} THEN {}
      ELSE {(IF signed(start) THEN -1 ELSE 1) * (10 * whole[last] + tenths)}

(* The one in a set that is not empty.                                     *)
Value(found) == CHOOSE x \in found : TRUE

(* The values captured for slot k, of the members the regex matched.       *)
SlotValues(captures, k) ==
  LET matched == Selected(captures, {m \in DOMAIN captures : captures[m] # {}})
  IN  [i \in DOMAIN matched |-> Value(matched[i])[k]]

(* The numbers among them.                                                 *)
SlotNumbers(values) ==
  LET parsed == Selected(values, {i \in DOMAIN values : FirstNumber(values[i]) # {}})
  IN  [i \in DOMAIN parsed |-> Value(FirstNumber(parsed[i]))]

(* The places of the first occurrences.                                    *)
FirstSeen(values) == {i \in DOMAIN values : \A j \in 1..(i - 1) : values[j] # values[i]}

Distinct(values) == Selected(values, FirstSeen(values))

(* The number in place k when the numbers are sorted.                      *)
Sorted(numbers, k) ==
  CHOOSE x \in ToSet(numbers) :
    /\ Cardinality({i \in DOMAIN numbers : numbers[i] < x}) < k
    /\ Cardinality({i \in DOMAIN numbers : numbers[i] <= x}) >= k

(* Mutant of MedianTwice: over the distinct values.                        *)
MedianOfDistinctTwice(numbers) ==
  LET v == Distinct(numbers)
  IN  Sorted(v, (Len(v) + 1) \div 2) + Sorted(v, Len(v) \div 2 + 1)

(* Twice the median over all the numbers, duplicates included.             *)
MedianTwice(numbers) ==
  Sorted(numbers, (Len(numbers) + 1) \div 2) + Sorted(numbers, Len(numbers) \div 2 + 1)

(* SlotNumeric, {} unless half of the values are numbers.                  *)
SlotNumeric(values) ==
  LET numbers == SlotNumbers(values)
  IN  IF numbers = <<>> \/ 2 * Len(numbers) < Len(values) THEN {}
      ELSE {[min |-> Min(ToSet(numbers)), medianTwice |-> MedianTwice(numbers),
             max |-> Max(ToSet(numbers))]}

Upto(seq, cap) == SubSeq(seq, 1, IF Len(seq) < cap THEN Len(seq) ELSE cap)

(* trailing_alpha_unit: the letters a value ends in, if it is not of       *)
(* letters only.                                                           *)
TrailingAlphaUnit(text) ==
  LET others == {i \in DOMAIN text : text[i] \notin Letters}
  IN  IF others = {} THEN <<>> ELSE SubSeq(text, Max(others) + 1, Len(text))

(* build_slot_summary; the unit is that of the first sample.               *)
SlotSummary(values) ==
  LET samples == Upto(Distinct(values), SlotSampleCap)
  IN  [numeric  |-> SlotNumeric(values),
       unit     |-> IF samples = <<>> THEN <<>> ELSE TrailingAlphaUnit(samples[1]),
       distinct |-> Cardinality(FirstSeen(values)),
       samples  |-> samples]

(* clip: a placeholder is three characters, and one that the cut divides   *)
(* is left out.                                                            *)
Clip(template, most) ==
  LET width(i) == i + 2 * Cardinality({j \in 1..i : template[j] = Placeholder})
  IN  SubSeq(template, 1, Cardinality({i \in DOMAIN template : width(i) <= most}))

(* A group of the result.  The template is clipped, its slots are not.     *)
TemplateGroup(members, template, captures) ==
  [first   |-> members[1], count |-> Len(members),
   template |-> Clip(template, TemplateClip),
   samples |-> Upto(members, SampleCap),
   slots   |-> [k \in 1..Cardinality({i \in DOMAIN template : template[i] = Placeholder}) |->
                  SlotSummary(SlotValues(captures, k))]]
=============================================================================
