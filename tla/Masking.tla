------------------------------- MODULE Masking -------------------------------
(***************************************************************************)
(* LogMasker of drain3_rust/src/masking.rs with its default instructions:  *)
(* addresses, hex literals and numbers are replaced by their masks, one    *)
(* pattern after the other.  A line is a sequence of characters; a mask is *)
(* one symbol of its own, which is not a word character.  Each pattern is  *)
(* given by the places where a match that starts at i can end.             *)
(***************************************************************************)
EXTENDS Naturals, Sequences, FiniteSets, FiniteSetsExt

CONSTANTS WordChars, HexDigits, Digits, Signs, Zero, Ex, Dot,
          IpMask, HexMask, NumMask

ASSUME MaskingAssumption ==
  /\ Digits \cup HexDigits \cup {Zero, Ex} \subseteq WordChars
  /\ WordChars \cap (Signs \cup {Dot, IpMask, HexMask, NumMask}) = {}
  /\ Ex \notin Digits

(* Where the runs of characters of S from i on end.                        *)
RunEnds(line, i, S) == {j \in i..Len(line) : \A k \in i..j : line[k] \in S}

WordAt(line, i) == i \in DOMAIN line /\ line[i] \in WordChars

(* \b, between two characters.                                             *)
Boundary(line, i) == WordAt(line, i - 1) # WordAt(line, i)

(* Four runs of one to three digits with dots between them.                *)
IpEnds(line, i) ==
  {j \in RunEnds(line, i, Digits \cup {Dot}) :
     \E p, q, r \in i..j :
       /\ {k \in i..j : line[k] = Dot} = {p, q, r}
       /\ p - i \in 1..3 /\ q - p \in 2..4 /\ r - q \in 2..4 /\ j - r \in 1..3}

HexEnds(line, i) ==
  IF line[i] = Zero /\ i < Len(line) /\ line[i + 1] = Ex
    THEN RunEnds(line, i + 2, HexDigits) ELSE {}

(* A sign belongs to a number only behind a word character.                *)
NumEnds(line, i) ==
  {j \in RunEnds(line, IF line[i] \in Signs THEN i + 1 ELSE i, Digits) :
     Boundary(line, i) /\ Boundary(line, j + 1)}

(* replace_all: leftmost matches, each as long as it can be; those that    *)
(* start at i can end in ends[i].                                          *)
ReplaceMatches(line, ends, mask) ==
  LET from[i \in 1..(Len(line) + 1)] ==
        IF i > Len(line) THEN <<>>
        ELSE IF ends[i] = {} THEN <<line[i]>> \o from[i + 1]
        ELSE <<mask>> \o from[Max(ends[i]) + 1]
  IN  from[1]

(* Mutant of Mask: only the first number of a line is replaced.            *)
MaskFirstNumber(line) ==
  LET starts == {i \in DOMAIN line : NumEnds(line, i) # {}}
      s == Min(starts)
  IN  IF starts = {} THEN line
      ELSE SubSeq(line, 1, s - 1) \o <<NumMask>>
             \o SubSeq(line, Max(NumEnds(line, s)) + 1, Len(line))

MaskIps(line)  == ReplaceMatches(line, [i \in DOMAIN line |-> IpEnds(line, i)], IpMask)
MaskHex(line)  == ReplaceMatches(line, [i \in DOMAIN line |-> HexEnds(line, i)], HexMask)
MaskNums(line) == ReplaceMatches(line, [i \in DOMAIN line |-> NumEnds(line, i)], NumMask)

Mask(line) == MaskNums(MaskHex(MaskIps(line)))
=============================================================================
