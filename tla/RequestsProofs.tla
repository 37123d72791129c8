---------------------------- MODULE RequestsProofs ----------------------------
(***************************************************************************)
(* What is stored of the requests is what was sent: theorems about the two *)
(* front ends.                                                             *)
(***************************************************************************)
EXTENDS Requests, DataLemmas

(* Filter.  Its recursion takes the last position away; what it has of the *)
(* first n positions is a sequence of elements in S, all of them if all    *)
(* are.                                                                    *)

LEMMA GreatestOf ==
  ASSUME NEW n \in Nat, NEW t \in SUBSET (1..n), t # {}
  PROVE  Max(t) \in t /\ \A x \in t : x <= Max(t)
<1> DEFINE T == {n - x : x \in t}
<1>1. T \subseteq Nat /\ T # {}
  <2>1. \A x \in t : n - x \in Nat
    OBVIOUS
  <2> QED
    BY <2>1
<1>2. PICK y \in T : \A z \in T : y <= z
  BY <1>1, LeastNatural
<1>3. PICK x \in t : y = n - x
  BY <1>2
<1>4. \A z \in t : x >= z
  <2>1. SUFFICES ASSUME NEW z \in t PROVE x >= z
    OBVIOUS
  <2>2. n - x <= n - z /\ x \in Nat /\ z \in Nat
    BY <1>2, <1>3
  <2> QED
    BY <2>2
<1>5. Max(t) \in t /\ \A z \in t : Max(t) >= z
  BY <1>4 DEF Max
<1> QED
  BY <1>5

LEMMA GreatestUpto ==
  ASSUME NEW n \in Nat PROVE Max(1..(n + 1)) = n + 1 /\ (1..(n + 1)) \ {n + 1} = 1..n
<1>1. n + 1 \in Nat /\ 1..(n + 1) \in SUBSET (1..(n + 1)) /\ n + 1 \in 1..(n + 1)
  OBVIOUS
<1>2. Max(1..(n + 1)) \in 1..(n + 1) /\ \A x \in 1..(n + 1) : x <= Max(1..(n + 1))
  <2> DEFINE m == n + 1
  <2>1. m \in Nat /\ 1..m \in SUBSET (1..m) /\ 1..m # {}
    BY <1>1
  <2> HIDE DEF m
  <2>2. Max(1..m) \in 1..m /\ \A x \in 1..m : x <= Max(1..m)
    BY <2>1, GreatestOf
  <2> QED
    BY <2>2 DEF m
<1> QED
  BY <1>2

FoldsFilter(fold, s, S) ==
  /\ Filter(s, S) = fold[1..Len(s)] /\ fold[{}] = <<>>
  /\ \A n \in Nat : n < Len(s) =>
       fold[1..(n + 1)] = IF s[n + 1] \in S THEN Append(fold[1..n], s[n + 1]) ELSE fold[1..n]

LEMMA FilterFolds ==
  ASSUME NEW E, NEW s \in Seq(E), NEW S
  PROVE  \E fold : FoldsFilter(fold, s, S)
<1> DEFINE D == 1..Len(s)
           V == Seq(E)
           pick == [t \in SUBSET D |-> Max(t)]
           Added(x, kept) == IF s[x] \in S THEN Append(kept, s[x]) ELSE kept
           op == [p \in D \X V |-> Added(p[1], p[2])]
           Kept(f) == [t \in SUBSET D |->
                         IF t = {} THEN <<>> ELSE Added(Max(t), f[t \ {Max(t)}])]
<1>1. Len(s) \in Nat /\ DOMAIN s = D /\ \A i \in D : s[i] \in E
  OBVIOUS
<1>2. Filter(s, S) = (CHOOSE f : f = Kept(f))[D]
  BY <1>1 DEF Filter, FoldLeft, MapThenFoldSet
<1>3. \A x \in D, v \in V : op[<<x, v>>] = Added(x, v) /\ Added(x, v) \in V
  BY <1>1
<1>4. /\ IsFiniteSet(D) /\ <<>> \in V
      /\ \A t \in SUBSET D : pick[t] = Max(t) /\ (t # {} => Max(t) \in t)
  <2>1. IsFiniteSet(D) /\ <<>> \in V
    BY <1>1, FS_Interval
  <2>2. \A t \in SUBSET D : t # {} => Max(t) \in t
    BY <1>1, GreatestOf
  <2> QED
    BY <2>1, <2>2
<1>5. \A f : /\ Kept(f) = [t \in SUBSET D |-> Kept(f)[t]] /\ Kept(f)[{}] = <<>>
             /\ \A t \in SUBSET D : t # {} => Kept(f)[t] = Added(Max(t), f[t \ {Max(t)}])
  OBVIOUS
<1> HIDE DEF pick, op, Kept, Added, V, D
<1>6. PICK fold \in [SUBSET D -> V] :
        /\ fold[{}] = <<>>
        /\ \A t \in SUBSET D : t # {} => fold[t] = op[<<pick[t], fold[t \ {pick[t]}]>>]
        /\ \A f : FoldsOn(f, D, V, <<>>, pick, op) => f = fold
  <2>1. CanFold(D, V, <<>>, pick, op)
    BY <1>3, <1>4 DEF CanFold
  <2> QED
    BY <2>1, FoldsOneWay
<1>7. \A t \in SUBSET D : t # {} => fold[t] = Added(Max(t), fold[t \ {Max(t)}])
  <2>1. SUFFICES ASSUME NEW t \in SUBSET D, t # {}
                 PROVE  fold[t] = Added(Max(t), fold[t \ {Max(t)}])
    OBVIOUS
  <2>2. Max(t) \in D /\ fold[t \ {Max(t)}] \in V /\ pick[t] = Max(t)
    BY <1>4, <1>6, <2>1
  <2> QED
    BY <1>3, <1>6, <2>1, <2>2
<1>8. fold = Kept(fold)
  <2>1. \A t \in SUBSET D : fold[t] = Kept(fold)[t]
    BY <1>5, <1>6, <1>7
  <2>2. fold = [t \in SUBSET D |-> fold[t]]
    BY <1>6
  <2> QED
    BY <1>5, <2>1, <2>2
<1>9. ASSUME NEW f, f = Kept(f) PROVE f = fold
  <2>1. f = [t \in SUBSET D |-> f[t]] /\ f[{}] = <<>>
    BY <1>5, <1>9
  <2>2. ASSUME NEW t \in SUBSET D, t # {}, f[t \ {pick[t]}] \in V
        PROVE  f[t] = op[<<pick[t], f[t \ {pick[t]}]>>]
    BY <1>3, <1>4, <1>5, <1>9, <2>2
  <2> QED
    BY <1>6, <2>1, <2>2 DEF FoldsOn
<1>10. (CHOOSE f : f = Kept(f)) = fold
  BY <1>8, <1>9
<1>11. ASSUME NEW n \in Nat, n < Len(s)
       PROVE  fold[1..(n + 1)] = Added(n + 1, fold[1..n])
  <2>1. n + 1 \in Nat /\ n + 1 <= Len(s) /\ n + 1 \in 1..(n + 1)
    BY <1>1, <1>11
  <2>2. 1..(n + 1) \in SUBSET D /\ 1..(n + 1) # {}
    BY <1>1, <2>1 DEF D
  <2> QED
    BY <1>7, <2>2, GreatestUpto
<1>12. FoldsFilter(fold, s, S)
  BY <1>2, <1>6, <1>10, <1>11 DEF Added, D, FoldsFilter
<1> QED
  BY <1>12

LEMMA FilterKeeps ==
  ASSUME NEW E, NEW s \in Seq(E), NEW S
  PROVE  /\ Filter(s, S) \in Seq(E \cap S)
         /\ (\A x \in E : x \in S) => Filter(s, S) = s
<1>0. PICK fold : FoldsFilter(fold, s, S)
  BY FilterFolds
<1>1. /\ Filter(s, S) = fold[1..Len(s)] /\ fold[{}] = <<>>
      /\ \A n \in Nat : n < Len(s) =>
           fold[1..(n + 1)] = IF s[n + 1] \in S THEN Append(fold[1..n], s[n + 1]) ELSE fold[1..n]
  BY <1>0 DEF FoldsFilter
<1> DEFINE N == Len(s)
<1>2. N \in Nat /\ \A n \in Nat : n < N => s[n + 1] \in E
  OBVIOUS
<1> DEFINE T == {n \in Nat : n <= N =>
                   /\ fold[1..n] \in Seq(E \cap S)
                   /\ (\A x \in E : x \in S) => fold[1..n] = SubSeq(s, 1, n)}
<1>3. 0 \in T
  <2>1. 1..0 = {} /\ SubSeq(s, 1, 0) = <<>> /\ <<>> \in Seq(E \cap S)
    OBVIOUS
  <2>2. fold[1..0] = <<>>
    BY <1>1, <2>1
  <2> QED
    BY <2>1, <2>2
<1>4. ASSUME NEW n \in Nat, n \in T PROVE n + 1 \in T
  <2> SUFFICES ASSUME n + 1 <= N
               PROVE  /\ fold[1..(n + 1)] \in Seq(E \cap S)
                      /\ (\A x \in E : x \in S) => fold[1..(n + 1)] = SubSeq(s, 1, n + 1)
    OBVIOUS
  <2>1. n < N /\ s[n + 1] \in E
    BY <1>2
  <2>2. /\ fold[1..n] \in Seq(E \cap S)
        /\ (\A x \in E : x \in S) => fold[1..n] = SubSeq(s, 1, n)
    BY <1>2, <1>4, <2>1
  <2>3. fold[1..(n + 1)] = IF s[n + 1] \in S THEN Append(fold[1..n], s[n + 1]) ELSE fold[1..n]
    BY <1>1, <2>1
  <2>4. SubSeq(s, 1, n + 1) = Append(SubSeq(s, 1, n), s[n + 1])
    BY <1>2, <2>1
  <2> QED
    BY <2>1, <2>2, <2>3, <2>4
<1>5. N \in T
  <2> HIDE DEF T
  <2>1. Nat \subseteq T
    BY <1>3, <1>4, StepByStep
  <2> QED
    BY <1>2, <2>1
<1>6. SubSeq(s, 1, N) = s
  OBVIOUS
<1> QED
  BY <1>1, <1>2, <1>5, <1>6

-----------------------------------------------------------------------------
(* Bodies.                                                                 *)

NotBlank(rawLines) == {raw \in ToSet(rawLines) : raw.fields # <<>>}

Line(raw, format) == IF format = "text" THEN ParseLine(raw.fields) ELSE raw.json

LinesOf(rawLines, format) == {Line(raw, format) : raw \in NotBlank(rawLines)}

LEMMA ParsedType ==
  ASSUME NEW rawLines, rawLines \in Seq(ToSet(rawLines)), NEW format
  PROVE  Parsed(rawLines, format) \in Seq(LinesOf(rawLines, format))
<1> DEFINE lines == Filter(rawLines, NotBlank(rawLines))
           X == LinesOf(rawLines, format)
<1>1. lines \in Seq(NotBlank(rawLines))
  <2>1. lines \in Seq(ToSet(rawLines) \cap NotBlank(rawLines))
    BY FilterKeeps
  <2>2. ToSet(rawLines) \cap NotBlank(rawLines) = NotBlank(rawLines)
    BY DEF NotBlank
  <2> QED
    BY <2>1, <2>2
<1>2. Parsed(rawLines, format) = [i \in DOMAIN lines |-> Line(lines[i], format)]
  BY DEF Parsed, NotBlank, Line
<1> HIDE DEF lines
<1>3. DOMAIN lines = 1..Len(lines) /\ Len(lines) \in Nat
      /\ \A i \in 1..Len(lines) : lines[i] \in NotBlank(rawLines)
  BY <1>1
<1>4. Parsed(rawLines, format) \in [1..Len(lines) -> X]
  BY <1>2, <1>3 DEF LinesOf
<1> QED
  BY <1>3, <1>4, SeqDef

(* What parse_limited_body takes is all there is, and what parse_body      *)
(* makes of it.                                                            *)
LEMMA AcceptedBody ==
  ASSUME NEW r, r.body \in Bodies, BodyStatus(r) = 200
  PROVE  /\ BodyLines(r) \in Seq(LinesOf(r.body.lines, BodyFormat(r)))
         /\ BodyLines(r) = ParseBody(r.body.lines, BodyFormat(r))
<1> DEFINE p == BodyLines(r)
           raws == r.body.lines
<1>1. p = Parsed(raws, BodyFormat(r)) /\ p \in Seq(LinesOf(raws, BodyFormat(r)))
  BY BodyAssumption, ParsedType DEF BodyLines
<1>2. RefusedAt(r) = {}
  <2> SUFFICES ASSUME RefusedAt(r) # {} PROVE FALSE
    OBVIOUS
  <2> DEFINE first == CHOOSE i \in RefusedAt(r) : \A j \in RefusedAt(r) : i <= j
  <2>1. RefusedAt(r) \subseteq Nat
    BY <1>1 DEF RefusedAt
  <2>2. \E i \in RefusedAt(r) : \A j \in RefusedAt(r) : i <= j
    BY <2>1, LeastNatural
  <2>3. first \in RefusedAt(r)
    BY <2>2
  <2>4. LineStatus(BodyLines(r)[first], first) # 200
    BY <2>3 DEF RefusedAt
  <2>5. BodyStatus(r) \in {413, LineStatus(BodyLines(r)[first], first)}
    BY DEF BodyStatus
  <2> QED
    BY <2>4, <2>5
<1>3. \A i \in DOMAIN p : p[i] # NoLine
  BY <1>2 DEF RefusedAt, LineStatus
<1>4. ParseBody(raws, BodyFormat(r)) = Filter(p, ToSet(p) \ {NoLine})
  BY <1>1 DEF ParseBody
<1> HIDE DEF p
<1>5. p \in Seq(ToSet(p))
  <2>1. DOMAIN p = 1..Len(p) /\ Len(p) \in Nat /\ p = [i \in 1..Len(p) |-> p[i]]
    BY <1>1
  <2>2. \A i \in 1..Len(p) : p[i] \in ToSet(p)
    BY <2>1 DEF ToSet
  <2> QED
    BY <2>1, <2>2
<1>6. \A x \in ToSet(p) : x \in ToSet(p) \ {NoLine}
  BY <1>3 DEF ToSet
<1>7. Filter(p, ToSet(p) \ {NoLine}) = p
  BY <1>5, <1>6, FilterKeeps
<1> QED
  BY <1>1, <1>4, <1>7 DEF p

-----------------------------------------------------------------------------
(* The sessions.                                                           *)

Sends(r) == r.query \in Queries /\ r.contentType \in ContentTypes /\ r.body \in Bodies

LEMMA NextRequest ==
  ASSUME Next
  PROVE  \/ \E r : r.kind = "templates" /\ Templates(r)
         \/ \E r : r.kind = "ingest" /\ Sends(r) /\ Ingest(r)
         \/ \E r : r.kind = "oneshot" /\ Sends(r) /\ TemplateOneshot(r)
<1>1. PICK t \in Presented, q \in Queries :
        \/ \E id \in Sessions :
             Templates([kind |-> "templates", token |-> t, query |-> q, session |-> id])
        \/ \E ct \in ContentTypes, b \in Bodies, id \in Sessions :
             Ingest([kind |-> "ingest", token |-> t, query |-> q, session |-> id,
                     contentType |-> ct, body |-> b])
        \/ \E ct \in ContentTypes, b \in Bodies :
             TemplateOneshot([kind |-> "oneshot", token |-> t, query |-> q,
                              contentType |-> ct, body |-> b])
  BY DEF Next
<1>2. ASSUME NEW id \in Sessions,
             Templates([kind |-> "templates", token |-> t, query |-> q, session |-> id])
      PROVE  \E r : r.kind = "templates" /\ Templates(r)
  BY <1>2
<1>3. ASSUME NEW ct \in ContentTypes, NEW b \in Bodies, NEW id \in Sessions,
             Ingest([kind |-> "ingest", token |-> t, query |-> q, session |-> id,
                     contentType |-> ct, body |-> b])
      PROVE  \E r : r.kind = "ingest" /\ Sends(r) /\ Ingest(r)
  BY <1>3 DEF Sends
<1>4. ASSUME NEW ct \in ContentTypes, NEW b \in Bodies,
             TemplateOneshot([kind |-> "oneshot", token |-> t, query |-> q,
                              contentType |-> ct, body |-> b])
      PROVE  \E r : r.kind = "oneshot" /\ Sends(r) /\ TemplateOneshot(r)
  BY <1>4 DEF Sends
<1> QED
  BY <1>1, <1>2, <1>3, <1>4

(* A body that is taken.                                                   *)
Takes(r) ==
  /\ r.kind = "ingest" /\ Sends(r) /\ BodyStatus(r) = 200
  /\ Push(r.session, BodyLines(r))
  /\ accepted' = Put(accepted, r.session,
                     Append(Held(accepted, r.session),
                            [lines |-> r.body.lines, format |-> BodyFormat(r)]))
  /\ request' = r /\ response'.status = 200 /\ response'.total = Len(index'[r.session])

(* Only an ingest that is accepted changes a session.                      *)
LEMMA OthersKeep ==
  ASSUME [Next]_vars
  PROVE  \/ UNCHANGED vars
         \/ UNCHANGED <<index, accepted>> /\ ~(request'.kind = "ingest" /\ response'.status = 200)
         \/ \E r : Takes(r)
<1>1. ASSUME NEW r, r.kind = "templates", Templates(r)
      PROVE  UNCHANGED <<index, accepted>> /\ ~(request'.kind = "ingest" /\ response'.status = 200)
  BY <1>1 DEF Templates, Refuse, Respond
<1>2. ASSUME NEW r, r.kind = "oneshot", TemplateOneshot(r)
      PROVE  UNCHANGED <<index, accepted>> /\ ~(request'.kind = "ingest" /\ response'.status = 200)
  BY <1>2 DEF TemplateOneshot, Refuse, Respond
<1>3. ASSUME NEW r, r.kind = "ingest", Sends(r), Ingest(r)
      PROVE  \/ UNCHANGED <<index, accepted>>
                /\ ~(request'.kind = "ingest" /\ response'.status = 200)
             \/ Takes(r)
  BY <1>3 DEF Ingest, Refuse, Respond, First, Takes
<1> QED
  BY <1>1, <1>2, <1>3, NextRequest

Sent ==
  [lines : {body.lines : body \in Bodies}, format : {"text", "ndjson"}]

Stored == UNION {LinesOf(sent.lines, sent.format) : sent \in Sent}

BodiesOf(bodies) ==
  [i \in DOMAIN bodies |-> ParseBody(bodies[i].lines, bodies[i].format)]

SessionInv ==
  /\ DOMAIN accepted = DOMAIN index
  /\ \A id \in DOMAIN index :
       /\ accepted[id] \in Seq(Sent) /\ BodiesOf(accepted[id]) \in Seq(Seq(Stored))
       /\ index[id] \in Seq(Stored) /\ index[id] = FlattenSeq(BodiesOf(accepted[id]))
  /\ request.kind = "ingest" /\ response.status = 200 =>
       response.total = Len(index[request.session])

LEMMA HeldOf ==
  ASSUME SessionInv, NEW id
  PROVE  /\ Held(accepted, id) \in Seq(Sent) /\ BodiesOf(Held(accepted, id)) \in Seq(Seq(Stored))
         /\ Held(index, id) \in Seq(Stored)
         /\ Held(index, id) = FlattenSeq(BodiesOf(Held(accepted, id)))
<1>1. CASE id \in DOMAIN index
  BY <1>1 DEF Held, SessionInv
<1>2. CASE id \notin DOMAIN index
  <2>1. Held(accepted, id) = <<>> /\ Held(index, id) = <<>>
    BY <1>2 DEF Held, SessionInv
  <2>2. BodiesOf(<<>>) = <<>> /\ FlattenSeq(<<>>) = <<>>
    BY DEF BodiesOf, FlattenSeq
  <2>3. \A S : <<>> \in Seq(S)
    OBVIOUS
  <2>4. <<>> \in Seq(Sent) /\ <<>> \in Seq(Seq(Stored)) /\ <<>> \in Seq(Stored)
    BY <2>3
  <2> QED
    BY <2>1, <2>2, <2>4
<1> QED
  BY <1>1, <1>2

(* What a body adds.                                                       *)
LEMMA BodyAdds ==
  ASSUME SessionInv, NEW r, Sends(r), BodyStatus(r) = 200, NEW id
  PROVE  LET sent == [lines |-> r.body.lines, format |-> BodyFormat(r)]
             bodies == Append(Held(accepted, id), sent)
         IN  /\ bodies \in Seq(Sent) /\ BodiesOf(bodies) \in Seq(Seq(Stored))
             /\ Held(index, id) \o BodyLines(r) \in Seq(Stored)
             /\ Held(index, id) \o BodyLines(r) = FlattenSeq(BodiesOf(bodies))
<1> DEFINE sent == [lines |-> r.body.lines, format |-> BodyFormat(r)]
           old == Held(accepted, id)
           bodies == Append(old, sent)
           X == Seq(Stored)
<1>1. /\ old \in Seq(Sent) /\ BodiesOf(old) \in Seq(X)
      /\ Held(index, id) \in X /\ Held(index, id) = FlattenSeq(BodiesOf(old))
  BY HeldOf
<1>2. sent \in Sent
  <2>1. r.body \in Bodies /\ BodyFormat(r) \in {"text", "ndjson"}
    BY FormatAssumption DEF Sends, BodyFormat
  <2> QED
    BY <2>1 DEF Sent
<1>3. BodyLines(r) \in X /\ BodyLines(r) = ParseBody(sent.lines, sent.format)
  <2>1. /\ BodyLines(r) \in Seq(LinesOf(r.body.lines, BodyFormat(r)))
        /\ BodyLines(r) = ParseBody(r.body.lines, BodyFormat(r))
    BY AcceptedBody DEF Sends
  <2>2. LinesOf(r.body.lines, BodyFormat(r)) \subseteq Stored
    BY <1>2 DEF Stored
  <2> QED
    BY <2>1, <2>2
<1> HIDE DEF sent, old
<1>4. /\ bodies \in Seq(Sent) /\ DOMAIN old = 1..Len(old) /\ Len(old) \in Nat
      /\ DOMAIN bodies = 1..(Len(old) + 1)
      /\ \A i \in 1..Len(old) : bodies[i] = old[i]
      /\ bodies[Len(old) + 1] = sent
  BY <1>1, <1>2, AppendProperties
<1> HIDE DEF X
<1>5. BodiesOf(bodies) = Append(BodiesOf(old), BodyLines(r))
  <2>1. Len(BodiesOf(old)) = Len(old) /\ DOMAIN BodiesOf(old) = 1..Len(old)
    BY <1>1, <1>4 DEF BodiesOf
  <2>2. /\ DOMAIN Append(BodiesOf(old), BodyLines(r)) = 1..(Len(old) + 1)
        /\ \A i \in 1..Len(old) : Append(BodiesOf(old), BodyLines(r))[i] = BodiesOf(old)[i]
        /\ Append(BodiesOf(old), BodyLines(r))[Len(old) + 1] = BodyLines(r)
    BY <1>1, <1>3, <2>1, AppendProperties
  <2>3. \A i \in 1..(Len(old) + 1) : BodiesOf(bodies)[i] = Append(BodiesOf(old), BodyLines(r))[i]
    BY <1>3, <1>4, <2>1, <2>2 DEF BodiesOf
  <2>4. /\ BodiesOf(bodies) = [i \in 1..(Len(old) + 1) |-> BodiesOf(bodies)[i]]
        /\ Append(BodiesOf(old), BodyLines(r))
             = [i \in 1..(Len(old) + 1) |-> Append(BodiesOf(old), BodyLines(r))[i]]
    BY <1>1, <1>3, <1>4, <2>2 DEF BodiesOf
  <2> QED
    BY <2>3, <2>4
<1>6. Append(BodiesOf(old), BodyLines(r)) \in Seq(X)
  BY <1>1, <1>3
<1>7. FlattenSeq(Append(BodiesOf(old), BodyLines(r))) = FlattenSeq(BodiesOf(old)) \o BodyLines(r)
  BY <1>1, <1>3, FlattenAppends DEF X
<1>8. Held(index, id) \o BodyLines(r) \in Seq(Stored)
  BY <1>1, <1>3 DEF X
<1> HIDE DEF bodies
<1>9. /\ bodies \in Seq(Sent) /\ BodiesOf(bodies) \in Seq(X)
      /\ Held(index, id) \o BodyLines(r) = FlattenSeq(BodiesOf(bodies))
  BY <1>1, <1>4, <1>5, <1>6, <1>7
<1> QED
  BY <1>8, <1>9 DEF X, sent, old, bodies

LEMMA SessionInit == Init => SessionInv
BY DEF Init, SessionInv

LEMMA SessionNext ==
  ASSUME SessionInv, [Next]_vars
  PROVE  SessionInv'
<1>1. CASE UNCHANGED vars
  BY <1>1 DEF vars, SessionInv, BodiesOf
<1>2. CASE UNCHANGED <<index, accepted>> /\ ~(request'.kind = "ingest" /\ response'.status = 200)
  BY <1>2 DEF SessionInv, BodiesOf
<1>3. ASSUME NEW r, Takes(r) PROVE SessionInv'
  <2> DEFINE s == r.session
             sent == [lines |-> r.body.lines, format |-> BodyFormat(r)]
             bodies == Append(Held(accepted, s), sent)
             lines == Held(index, s) \o BodyLines(r)
  <2>1. /\ bodies \in Seq(Sent) /\ BodiesOf(bodies) \in Seq(Seq(Stored))
        /\ lines \in Seq(Stored) /\ lines = FlattenSeq(BodiesOf(bodies))
    BY <1>3, BodyAdds DEF Takes
  <2>2. /\ index' = Put(index, s, lines) /\ accepted' = Put(accepted, s, bodies)
    BY <1>3 DEF Push, Takes
  <2> HIDE DEF bodies, lines
  <2>3. /\ DOMAIN index' = DOMAIN index \cup {s} /\ DOMAIN accepted' = DOMAIN index'
        /\ index'[s] = lines /\ accepted'[s] = bodies
        /\ \A id \in DOMAIN index : id # s => index'[id] = index[id] /\ accepted'[id] = accepted[id]
    BY <2>2 DEF Put, SessionInv
  <2>4. ASSUME NEW id \in DOMAIN index'
        PROVE  /\ accepted'[id] \in Seq(Sent) /\ BodiesOf(accepted'[id]) \in Seq(Seq(Stored))
               /\ index'[id] \in Seq(Stored)
               /\ index'[id] = FlattenSeq(BodiesOf(accepted'[id]))
    BY <2>1, <2>3 DEF SessionInv
  <2>5. response'.total = Len(index'[request'.session])
    BY <1>3 DEF Takes
  <2>6. \A id : BodiesOf(accepted[id])' = BodiesOf(accepted'[id])
    BY DEF BodiesOf
  <2> QED
    BY <2>3, <2>4, <2>5, <2>6 DEF SessionInv
<1> QED
  BY <1>1, <1>2, <1>3, OthersKeep

(* Whatever is refused in between, a session's lines are what the command  *)
(* line tool's parser makes of all bodies it took.                         *)
THEOREM AcceptedAreHeld == Spec => []SessionsHoldAccepted
<1>1. SessionInv => SessionsHoldAccepted
  BY DEF SessionInv, SessionsHoldAccepted, BodiesOf
<1> QED
  BY <1>1, SessionInit, SessionNext, PTL DEF Spec

(* A refused request changes no session, an accepted one only grows its    *)
(* own.                                                                    *)
THEOREM TakenAsAWhole == Spec => AllOrNothing
<1> DEFINE Whole == /\ response'.status # 200 => index' = index
                    /\ \A id \in DOMAIN index : IsPrefix(index[id], index'[id])
                    /\ \A id \in DOMAIN index' : id \in DOMAIN index \/ request'.session = id
<1>1. SessionInv /\ [Next]_vars => [Whole]_vars
  <2> SUFFICES ASSUME SessionInv, [Next]_vars, ~UNCHANGED vars PROVE Whole
    OBVIOUS
  <2>0. ASSUME NEW id \in DOMAIN index
        PROVE  /\ IsPrefix(index[id], index[id])
               /\ \A s \in Seq(Stored) : IsPrefix(index[id], index[id] \o s)
    <3>1. index[id] \in Seq(Stored)
      BY DEF SessionInv
    <3> HIDE DEF Stored
    <3> QED
      BY <3>1 DEF IsPrefix
  <2>1. CASE UNCHANGED <<index, accepted>> /\ ~(request'.kind = "ingest" /\ response'.status = 200)
    BY <2>0, <2>1
  <2>2. ASSUME NEW r, Takes(r) PROVE Whole
    <3> DEFINE s == r.session
    <3>1. BodyLines(r) \in Seq(Stored)
      <4>1. BodyLines(r) \in Seq(LinesOf(r.body.lines, BodyFormat(r)))
        BY <2>2, AcceptedBody DEF Sends, Takes
      <4>2. [lines |-> r.body.lines, format |-> BodyFormat(r)] \in Sent
        <5>1. r.body \in Bodies /\ BodyFormat(r) \in {"text", "ndjson"}
          BY <2>2, FormatAssumption DEF Sends, BodyFormat, Takes
        <5> QED
          BY <5>1 DEF Sent
      <4>3. LinesOf(r.body.lines, BodyFormat(r)) \subseteq Stored
        BY <4>2 DEF Stored
      <4> QED
        BY <4>1, <4>3
    <3>2. /\ DOMAIN index' = DOMAIN index \cup {s}
          /\ \A id \in DOMAIN index :
               index'[id] = IF id = s THEN index[id] \o BodyLines(r) ELSE index[id]
      BY <2>2 DEF Push, Put, Held, Takes
    <3>3. \A id \in DOMAIN index : IsPrefix(index[id], index'[id])
      BY <2>0, <3>1, <3>2
    <3>4. response'.status = 200 /\ request'.session = s
      BY <2>2 DEF Takes
    <3> QED
      BY <3>2, <3>3, <3>4
  <2> QED
    BY <2>1, <2>2, OthersKeep
<1> QED
  BY <1>1, SessionInit, SessionNext, PTL DEF Spec, AllOrNothing

-----------------------------------------------------------------------------
(* The fields of a line.                                                   *)

LEMMA RestIsSuffix ==
  ASSUME NEW E, NEW s \in Seq(E), NEW k \in 0..Len(s)
  PROVE  /\ SubSeq(s, k + 1, Len(s)) \in Seq(E) /\ Len(SubSeq(s, k + 1, Len(s))) = Len(s) - k
         /\ IsSuffix(SubSeq(s, k + 1, Len(s)), s)
<1> DEFINE t == SubSeq(s, k + 1, Len(s))
           N == Len(s)
           M == N - k
           R == Reverse(s)
           Q == Reverse(t)
<1>1. N \in Nat /\ k \in Nat /\ k <= N /\ M \in Nat /\ M <= N
  OBVIOUS
<1>2. t \in Seq(E) /\ Len(t) = M /\ \A i \in 1..M : t[i] = s[k + i]
  BY <1>1
<1> HIDE DEF t
<1>3. R \in Seq(E) /\ Len(R) = N /\ \A i \in 1..N : R[i] = s[(N - i) + 1]
  <2>1. R = [i \in 1..N |-> s[(N - i) + 1]]
    BY DEF Reverse
  <2>2. \A i \in 1..N : s[(N - i) + 1] \in E
    BY <1>1
  <2> QED
    BY <1>1, <2>1, <2>2
<1>4. Q \in Seq(E) /\ Len(Q) = M /\ \A i \in 1..M : Q[i] = t[(M - i) + 1]
  <2>1. Q = [i \in 1..M |-> t[(M - i) + 1]]
    BY <1>2 DEF Reverse
  <2>2. \A i \in 1..M : t[(M - i) + 1] \in E
    BY <1>1, <1>2
  <2> QED
    BY <1>1, <2>1, <2>2
<1>5. \A i \in 1..M : Q[i] = R[i]
  <2>1. SUFFICES ASSUME NEW i \in 1..M PROVE Q[i] = R[i]
    OBVIOUS
  <2>2. (M - i) + 1 \in 1..M /\ k + ((M - i) + 1) = (N - i) + 1 /\ i \in 1..N
    BY <1>1
  <2> QED
    BY <1>2, <1>3, <1>4, <2>2
<1> HIDE DEF Q, R, N, M
<1>6. SubSeq(Q, 1, M) = SubSeq(R, 1, M)
  <2>1. /\ SubSeq(Q, 1, M) \in Seq(E) /\ Len(SubSeq(Q, 1, M)) = M
        /\ SubSeq(R, 1, M) \in Seq(E) /\ Len(SubSeq(R, 1, M)) = M
        /\ \A i \in 1..M : SubSeq(Q, 1, M)[i] = Q[i] /\ SubSeq(R, 1, M)[i] = R[i]
    BY <1>1, <1>3, <1>4
  <2> QED
    BY <1>5, <2>1
<1>7. IsPrefix(Q, R)
  BY <1>1, <1>3, <1>4, <1>6 DEF IsPrefix
<1>8. IsSuffix(t, s)
  BY <1>7 DEF IsSuffix, Q, R
<1> QED
  BY <1>2, <1>8 DEF t, M, N

(* What a stored line keeps of the line it was made of.                    *)
Accounts(line, raw, format) ==
  IF format = "ndjson" THEN line = raw.json
  ELSE LET dropped == Len(raw.fields) - Len(line.timestamp) - Len(line.message)
       IN  /\ IsPrefix(line.timestamp, raw.fields) /\ IsSuffix(line.message, raw.fields)
           /\ IF line.level = None THEN dropped = 0
              ELSE /\ dropped \in 1..3
                   /\ LevelOf[raw.fields[Len(line.timestamp) + dropped]] = line.level

LEMMA LineAccounts ==
  ASSUME NEW raw, raw.fields \in Seq(Fields), NEW format \in {"text", "ndjson"}
  PROVE  Accounts(Line(raw, format), raw, format)
<1>1. CASE format = "ndjson"
  BY <1>1 DEF Accounts, Line
<1>2. CASE format = "text"
  <2> DEFINE f == raw.fields
             n == StampFields(f)
             levels == LevelFields(f, n)
             level == CHOOSE i \in levels : \A j \in levels : i <= j
             k == IF levels = {} THEN n ELSE level
             line == ParseLine(f)
  <2>1. /\ Len(f) \in Nat /\ DOMAIN f = 1..Len(f) /\ f \in Seq(Fields)
    OBVIOUS
  <2>2. n \in 0..Len(f) /\ n \in 0..2
    BY <2>1 DEF StampFields
  <2>3. levels # {} => level \in levels
    <3>1. levels \subseteq Nat
      BY <2>1 DEF LevelFields
    <3>2. levels # {} => \E i \in levels : \A j \in levels : i <= j
      BY <3>1, LeastNatural
    <3> QED
      BY <3>2
  <2>4. levels # {} => /\ level \in 1..Len(f) /\ level \in (n + 1)..(n + 3)
                       /\ f[level] \in DOMAIN LevelOf
    BY <2>1, <2>3 DEF LevelFields
  <2>5. line = [timestamp |-> SubSeq(f, 1, n),
                level |-> IF levels = {} THEN None ELSE LevelOf[f[level]],
                message |-> SubSeq(f, k + 1, Len(f))]
    BY DEF ParseLine
  <2> HIDE DEF n, levels, level, f
  <2>6. k \in 0..Len(f)
    BY <2>1, <2>2, <2>4
  <2>7. /\ SubSeq(f, 1, n) \in Seq(Fields) /\ Len(SubSeq(f, 1, n)) = n
        /\ IsPrefix(SubSeq(f, 1, n), f)
    <3>1. /\ SubSeq(f, 1, n) \in Seq(Fields) /\ Len(SubSeq(f, 1, n)) = n
          /\ SubSeq(SubSeq(f, 1, n), 1, n) = SubSeq(f, 1, n) /\ n <= Len(f)
      BY <2>1, <2>2
    <3> QED
      BY <3>1 DEF IsPrefix
  <2>8. /\ Len(SubSeq(f, k + 1, Len(f))) = Len(f) - k
        /\ IsSuffix(SubSeq(f, k + 1, Len(f)), f)
    <3> HIDE DEF k
    <3> QED
      BY <2>1, <2>6, RestIsSuffix
  <2> HIDE DEF line
  <2>9. /\ IsPrefix(line.timestamp, f) /\ IsSuffix(line.message, f)
        /\ Len(line.timestamp) = n /\ Len(line.message) = Len(f) - k
    BY <2>5, <2>7, <2>8
  <2>10. Len(f) - Len(line.timestamp) - Len(line.message) = k - n
    BY <2>1, <2>2, <2>6, <2>9
  <2>11. IF line.level = None THEN k - n = 0
         ELSE k - n \in 1..3 /\ LevelOf[f[n + (k - n)]] = line.level
    <3>1. CASE levels = {}
      BY <2>2, <2>5, <3>1
    <3>2. CASE levels # {}
      <4>1. line.level = LevelOf[f[level]] /\ line.level # None /\ k = level
        BY <2>4, <2>5, <3>2, FieldAssumption
      <4>2. k - n \in 1..3 /\ n + (k - n) = level
        BY <2>2, <2>4, <3>2
      <4> QED
        BY <4>1, <4>2
    <3> QED
      BY <3>1, <3>2
  <2>12. Line(raw, format) = line
    BY <1>2 DEF Line, line, f
  <2> HIDE DEF k
  <2> QED
    BY <1>2, <2>9, <2>10, <2>11, <2>12 DEF Accounts, f
<1> QED
  BY <1>1, <1>2

Accounted(lines, bodies) ==
  \A i \in DOMAIN lines : \E b \in DOMAIN bodies : \E raw \in ToSet(bodies[b].lines) :
    Accounts(lines[i], raw, bodies[b].format)

AllAccounted == \A id \in DOMAIN index : Accounted(index[id], accepted[id])

LEMMA AccountedSay == FieldsAccounted <=> AllAccounted
BY DEF FieldsAccounted, AllAccounted, Accounted, Accounts

LEMMA BodyAccounted ==
  ASSUME NEW r, r.body \in Bodies, NEW L, BodyLines(r) \in Seq(L),
         L = LinesOf(r.body.lines, BodyFormat(r)), BodyFormat(r) \in {"text", "ndjson"},
         NEW i \in DOMAIN BodyLines(r)
  PROVE  \E raw \in ToSet(r.body.lines) : Accounts(BodyLines(r)[i], raw, BodyFormat(r))
<1>1. BodyLines(r)[i] \in L
  OBVIOUS
<1>2. PICK raw \in NotBlank(r.body.lines) : BodyLines(r)[i] = Line(raw, BodyFormat(r))
  BY <1>1 DEF LinesOf
<1>3. raw \in ToSet(r.body.lines) /\ raw.fields \in Seq(Fields)
  BY <1>2, BodyAssumption DEF NotBlank
<1> QED
  BY <1>2, <1>3, LineAccounts

LEMMA AccountNext ==
  ASSUME SessionInv, AllAccounted, [Next]_vars
  PROVE  AllAccounted'
<1>1. CASE UNCHANGED <<index, accepted>>
  BY <1>1 DEF AllAccounted
<1>2. ASSUME NEW r, Takes(r) PROVE AllAccounted'
  <2> DEFINE s == r.session
             sent == [lines |-> r.body.lines, format |-> BodyFormat(r)]
             old == Held(accepted, s)
             held == Held(index, s)
             bodies == Append(old, sent)
             added == BodyLines(r)
             lines == held \o added
  <2>1. /\ old \in Seq(Sent) /\ held \in Seq(Stored) /\ Accounted(held, old)
    <3>1. CASE s \in DOMAIN index
      BY <3>1, HeldOf DEF Held, AllAccounted, SessionInv
    <3>2. CASE s \notin DOMAIN index
      BY <3>2, HeldOf DEF Held, Accounted
    <3> QED
      BY <3>1, <3>2
  <2>2. r.body \in Bodies /\ BodyFormat(r) \in {"text", "ndjson"}
    BY <1>2, FormatAssumption DEF Takes, Sends, BodyFormat
  <2>3. added \in Seq(LinesOf(r.body.lines, BodyFormat(r)))
    BY <1>2, AcceptedBody DEF Takes, Sends
  <2>4. sent \in Sent
    BY <2>2 DEF Sent
  <2>5. \A i \in DOMAIN added :
          \E raw \in ToSet(r.body.lines) : Accounts(added[i], raw, BodyFormat(r))
    BY <2>2, <2>3, BodyAccounted
  <2>6. sent.lines = r.body.lines /\ sent.format = BodyFormat(r)
    OBVIOUS
  <2> HIDE DEF sent, old, held, added
  <2>7. /\ DOMAIN bodies = 1..(Len(old) + 1) /\ Len(old) \in Nat /\ DOMAIN old = 1..Len(old)
        /\ bodies[Len(old) + 1] = sent /\ \A b \in DOMAIN old : bodies[b] = old[b]
    BY <2>1, <2>4, AppendProperties
  <2>8. /\ Len(held) \in Nat /\ Len(added) \in Nat
        /\ DOMAIN held = 1..Len(held) /\ DOMAIN added = 1..Len(added)
        /\ DOMAIN lines = 1..(Len(held) + Len(added))
        /\ \A i \in DOMAIN held : lines[i] = held[i]
        /\ \A i \in DOMAIN lines : i \notin DOMAIN held =>
             i - Len(held) \in DOMAIN added /\ lines[i] = added[i - Len(held)]
    BY <2>1, <2>3
  <2> HIDE DEF bodies, lines
  <2>9. Accounted(lines, bodies)
    <3>1. SUFFICES ASSUME NEW i \in DOMAIN lines
                   PROVE  \E b \in DOMAIN bodies : \E raw \in ToSet(bodies[b].lines) :
                            Accounts(lines[i], raw, bodies[b].format)
      BY DEF Accounted
    <3>2. CASE i \in DOMAIN held
      <4>1. PICK b \in DOMAIN old : \E raw \in ToSet(old[b].lines) :
              Accounts(held[i], raw, old[b].format)
        BY <2>1, <3>2 DEF Accounted
      <4>2. b \in DOMAIN bodies /\ bodies[b] = old[b] /\ lines[i] = held[i]
        BY <2>7, <2>8, <3>2
      <4> QED
        BY <4>1, <4>2
    <3>3. CASE i \notin DOMAIN held
      <4>1. PICK raw \in ToSet(r.body.lines) :
              Accounts(added[i - Len(held)], raw, BodyFormat(r))
        BY <2>5, <2>8, <3>3
      <4>2. Len(old) + 1 \in DOMAIN bodies /\ bodies[Len(old) + 1] = sent
        BY <2>7
      <4>3. lines[i] = added[i - Len(held)]
        BY <2>8, <3>3
      <4> QED
        BY <2>6, <4>1, <4>2, <4>3
    <3> QED
      BY <3>2, <3>3
  <2>10. /\ DOMAIN index' = DOMAIN index \cup {s}
         /\ index'[s] = lines /\ accepted'[s] = bodies
         /\ \A id \in DOMAIN index : id # s =>
              index'[id] = index[id] /\ accepted'[id] = accepted[id]
    BY <1>2 DEF Takes, Push, Put, SessionInv, lines, bodies, held, old, added, sent
  <2> QED
    BY <2>9, <2>10 DEF AllAccounted
<1> QED
  BY <1>1, <1>2, OthersKeep DEF vars

(* Of a stored line nothing is lost on the way in but a level token and at *)
(* most two fields before it.                                              *)
THEOREM NoFieldLost == Spec => []FieldsAccounted
<1>1. Init => AllAccounted
  BY DEF Init, AllAccounted
<1>2. SessionInv /\ AllAccounted /\ [Next]_vars => AllAccounted'
  BY AccountNext
<1> QED
  BY <1>1, <1>2, SessionInit, SessionNext, AccountedSay, PTL DEF Spec

-----------------------------------------------------------------------------
(* The command line.  Its options are read from the last argument back.    *)

Valued == {"--format", "--grouper", "--samples"}

OptionsAt(from, args, i) ==
  IF i > Len(args) \/ (i = Len(args) /\ args[i] \in Valued) THEN {<<>>}
  ELSE IF args[i] = "--json" THEN {Over(later, [input |-> "ndjson"]) : later \in from[i + 1]}
  ELSE IF args[i] = "--stats" THEN from[i + 1]
  ELSE {Over(later, set) : later \in from[i + 2], set \in CliSets(args[i], args[i + 1])}

ReadsArgs(from, args) ==
  /\ CliOptions(args) = from[1]
  /\ \A i \in 1..(Len(args) + 2) : from[i] = OptionsAt(from, args, i)

LEMMA ArgsAreRead ==
  ASSUME NEW args, Len(args) \in Nat
  PROVE  \E from : ReadsArgs(from, args)
<1> DEFINE N == Len(args)
           From(g, low) == [i \in low..(N + 2) |-> OptionsAt(g, args, i)]
           T == {k \in Nat : k <= N + 2 => \E g : g = From(g, (N + 3) - k)}
<1>1. 0 \in T
  <2>1. \A g : From(g, (N + 3) - 0) = <<>>
    <3>1. ((N + 3) - 0)..(N + 2) = {}
      OBVIOUS
    <3> QED
      BY <3>1
  <2> HIDE DEF From
  <2> QED
    BY <2>1
<1>2. ASSUME NEW k \in Nat, k \in T PROVE k + 1 \in T
  <2> SUFFICES ASSUME k + 1 <= N + 2 PROVE \E h : h = From(h, (N + 3) - (k + 1))
    OBVIOUS
  <2> DEFINE low == (N + 3) - (k + 1)
  <2>1. low \in Nat /\ low + 1 = (N + 3) - k /\ k <= N + 2
    OBVIOUS
  <2>2. PICK g : g = From(g, low + 1)
    BY <1>2, <2>1
  <2> DEFINE h == [i \in low..(N + 2) |-> OptionsAt(g, args, i)]
  <2>3. \A i \in (low + 1)..(N + 2) : h[i] = g[i]
    <3> HIDE DEF low
    <3>1. \A i \in (low + 1)..(N + 2) : g[i] = OptionsAt(g, args, i) /\ i \in low..(N + 2)
      BY <2>1, <2>2
    <3> QED
      BY <3>1
  <2> HIDE DEF h
  <2>4. ASSUME NEW i \in low..(N + 2) PROVE OptionsAt(h, args, i) = OptionsAt(g, args, i)
    <3>1. CASE i > N
      BY <3>1 DEF OptionsAt
    <3>2. CASE ~(i > N)
      <4>1. i + 1 \in (low + 1)..(N + 2) /\ i + 2 \in (low + 1)..(N + 2)
        BY <2>1, <3>2
      <4>2. h[i + 1] = g[i + 1] /\ h[i + 2] = g[i + 2]
        BY <2>3, <4>1
      <4> QED
        BY <4>2 DEF OptionsAt
    <3> QED
      BY <3>1, <3>2
  <2>5. h = From(h, low)
    BY <2>4 DEF h
  <2> HIDE DEF From
  <2> QED
    BY <2>5
<1>3. PICK g : g = From(g, 1)
  <2>1. N + 2 \in T
    <3> HIDE DEF T
    <3>1. Nat \subseteq T
      BY <1>1, <1>2, StepByStep
    <3> QED
      BY <3>1
  <2>2. (N + 3) - (N + 2) = 1 /\ N + 2 \in Nat /\ N + 2 <= N + 2
    OBVIOUS
  <2> HIDE DEF From
  <2> QED
    BY <2>1, <2>2
<1> DEFINE from == CHOOSE f : f = From(f, 1)
<1>4. CliOptions(args) = from[1]
  BY DEF CliOptions, OptionsAt, Valued
<1>5. from = From(from, 1)
  <2> HIDE DEF From
  <2> QED
    BY <1>3
<1> HIDE DEF from
<1>6. \A i \in 1..(Len(args) + 2) : from[i] = OptionsAt(from, args, i)
  BY <1>5
<1>7. ReadsArgs(from, args)
  BY <1>4, <1>6 DEF ReadsArgs
<1> QED
  BY <1>7

(* An option and its value, or nothing, in front of other options.         *)
Piece(name, value) == IF value = Unset THEN <<>> ELSE <<name, value>>

OptionFrom(next, name, value) ==
  IF value = Unset THEN next
  ELSE {Over(later, set) : later \in next, set \in CliSets(name, value)}

LEMMA PieceIsRead ==
  ASSUME NEW from, NEW args, Len(args) \in Nat, ReadsArgs(from, args),
         NEW i \in Nat \ {0}, NEW name \in Valued, NEW value,
         value # Unset => i + 1 <= Len(args) /\ args[i] = name /\ args[i + 1] = value,
         i <= Len(args) + 1
  PROVE  from[i] = OptionFrom(from[i + Len(Piece(name, value))], name, value)
<1>1. CASE value = Unset
  BY <1>1 DEF Piece, OptionFrom
<1>2. CASE value # Unset
  <2>1. i \in 1..(Len(args) + 2) /\ ~(i > Len(args)) /\ i # Len(args)
    BY <1>2
  <2>2. args[i] = name /\ args[i + 1] = value /\ name # "--json" /\ name # "--stats"
    BY <1>2 DEF Valued
  <2>3. from[i] = OptionsAt(from, args, i)
    BY <2>1 DEF ReadsArgs
  <2>4. from[i] = {Over(later, set) : later \in from[i + 2], set \in CliSets(name, value)}
    BY <2>1, <2>2, <2>3 DEF OptionsAt
  <2>5. Len(Piece(name, value)) = 2
    BY <1>2 DEF Piece
  <2> QED
    BY <1>2, <2>4, <2>5 DEF OptionFrom
<1> QED
  BY <1>1, <1>2

LEMMA PieceType ==
  ASSUME NEW E, NEW name \in E, NEW value \in E
  PROVE  /\ Piece(name, value) \in Seq(E)
         /\ value # Unset => /\ Len(Piece(name, value)) = 2
                             /\ Piece(name, value)[1] = name /\ Piece(name, value)[2] = value
         /\ value = Unset => Len(Piece(name, value)) = 0
BY DEF Piece

LEMMA ConcatAt ==
  ASSUME NEW E, NEW s \in Seq(E), NEW t \in Seq(E)
  PROVE  /\ s \o t \in Seq(E) /\ Len(s) \in Nat /\ Len(t) \in Nat
         /\ Len(s \o t) = Len(s) + Len(t)
         /\ \A i \in 1..Len(s) : (s \o t)[i] = s[i]
         /\ \A i \in 1..Len(t) : (s \o t)[Len(s) + i] = t[i]
OBVIOUS

LEMMA QueryIsRead ==
  ASSUME NEW r
  PROVE  LET q == r.query
             last == OptionFrom({<<>>}, "--format", q.format)
             all == OptionFrom(OptionFrom(last, "--samples", q.samples), "--grouper", q.grouper)
         IN  CliOptions(ArgsOf(r))
               = IF BodyFormat(r) = "ndjson" THEN {Over(later, [input |-> "ndjson"]) : later \in all}
                 ELSE all
<1> DEFINE q == r.query
           E == {"--json", "--format", "--grouper", "--samples", q.format, q.grouper, q.samples}
           A == IF BodyFormat(r) = "ndjson" THEN <<"--json">> ELSE <<>>
           B == Piece("--grouper", q.grouper)
           C == Piece("--samples", q.samples)
           D == Piece("--format", q.format)
           args == ArgsOf(r)
           a == Len(A) + 1
           b == a + Len(B)
           c == b + Len(C)
           d == c + Len(D)
<1>1. args = A \o B \o C \o D
  BY DEF ArgsOf, Piece
<1>2. /\ A \in Seq(E) /\ B \in Seq(E) /\ C \in Seq(E) /\ D \in Seq(E)
  <2>1. A \in Seq(E)
    <3>1. "--json" \in E
      OBVIOUS
    <3> HIDE DEF E
    <3> QED
      BY <3>1
  <2>2. B \in Seq(E) /\ C \in Seq(E) /\ D \in Seq(E)
    <3> HIDE DEF B, C, D
    <3>1. B \in Seq(E)
      BY PieceType DEF B
    <3>2. C \in Seq(E)
      BY PieceType DEF C
    <3>3. D \in Seq(E)
      BY PieceType DEF D
    <3> QED
      BY <3>1, <3>2, <3>3
  <2> QED
    BY <2>1, <2>2
<1>3. /\ q.grouper # Unset => Len(B) = 2 /\ B[1] = "--grouper" /\ B[2] = q.grouper
      /\ q.samples # Unset => Len(C) = 2 /\ C[1] = "--samples" /\ C[2] = q.samples
      /\ q.format # Unset => Len(D) = 2 /\ D[1] = "--format" /\ D[2] = q.format
  BY DEF Piece
<1>4. /\ BodyFormat(r) = "ndjson" => Len(A) = 1 /\ A[1] = "--json"
      /\ BodyFormat(r) # "ndjson" => Len(A) = 0
  OBVIOUS
<1> HIDE DEF A, B, C, D, E, args
<1>5. /\ Len(A) \in Nat /\ Len(B) \in Nat /\ Len(C) \in Nat /\ Len(D) \in Nat
      /\ Len(args) = Len(A) + Len(B) + Len(C) + Len(D)
      /\ \A i \in 1..Len(A) : args[i] = A[i]
      /\ \A i \in 1..Len(B) : args[Len(A) + i] = B[i]
      /\ \A i \in 1..Len(C) : args[Len(A) + Len(B) + i] = C[i]
      /\ \A i \in 1..Len(D) : args[Len(A) + Len(B) + Len(C) + i] = D[i]
  <2> DEFINE s == A \o B
             u == s \o C
  <2>1. /\ s \in Seq(E) /\ Len(s) = Len(A) + Len(B)
        /\ \A i \in 1..Len(A) : s[i] = A[i]
        /\ \A i \in 1..Len(B) : s[Len(A) + i] = B[i]
    BY <1>2, ConcatAt
  <2> HIDE DEF s
  <2>2. /\ u \in Seq(E) /\ Len(u) = Len(s) + Len(C)
        /\ \A i \in 1..Len(s) : u[i] = s[i]
        /\ \A i \in 1..Len(C) : u[Len(s) + i] = C[i]
    <3>1. s \in Seq(E) /\ C \in Seq(E)
      BY <1>2, <2>1
    <3> QED
      BY <3>1, ConcatAt
  <2>3. args = u \o D
    BY <1>1 DEF s
  <2> HIDE DEF u
  <2>4. /\ Len(args) = Len(u) + Len(D)
        /\ \A i \in 1..Len(u) : args[i] = u[i]
        /\ \A i \in 1..Len(D) : args[Len(u) + i] = D[i]
    <3>1. u \in Seq(E) /\ D \in Seq(E)
      BY <1>2, <2>2
    <3>2. /\ Len(u \o D) = Len(u) + Len(D)
          /\ \A i \in 1..Len(u) : (u \o D)[i] = u[i]
          /\ \A i \in 1..Len(D) : (u \o D)[Len(u) + i] = D[i]
      BY <3>1, ConcatAt
    <3> QED
      BY <2>3, <3>2
  <2>5. Len(A) \in Nat /\ Len(B) \in Nat /\ Len(C) \in Nat /\ Len(D) \in Nat
    BY <1>2
  <2>6. /\ Len(u) = Len(A) + Len(B) + Len(C)
        /\ Len(args) = Len(A) + Len(B) + Len(C) + Len(D)
    BY <2>1, <2>2, <2>4
  <2>7. \A i \in 1..Len(A) : args[i] = A[i]
    <3>1. \A i \in 1..Len(A) : i \in 1..Len(s) /\ i \in 1..Len(u)
      BY <2>1, <2>5, <2>6
    <3> QED
      BY <2>1, <2>2, <2>4, <3>1
  <2>8. \A i \in 1..Len(B) : args[Len(A) + i] = B[i]
    <3>1. \A i \in 1..Len(B) : Len(A) + i \in 1..Len(s) /\ Len(A) + i \in 1..Len(u)
      BY <2>1, <2>5, <2>6
    <3> QED
      BY <2>1, <2>2, <2>4, <3>1
  <2>9. \A i \in 1..Len(C) : args[Len(A) + Len(B) + i] = C[i]
    <3>1. \A i \in 1..Len(C) : Len(s) + i \in 1..Len(u)
      BY <2>1, <2>5, <2>6
    <3> QED
      BY <2>1, <2>2, <2>4, <3>1
  <2> QED
    BY <2>4, <2>5, <2>6, <2>7, <2>8, <2>9
<1>6. PICK from : ReadsArgs(from, args)
  BY <1>5, ArgsAreRead
<1>7. from[d] = {<<>>}
  <2>1. d = Len(args) + 1 /\ d \in 1..(Len(args) + 2) /\ d > Len(args)
    BY <1>5
  <2> HIDE DEF d
  <2>2. from[d] = OptionsAt(from, args, d)
    BY <1>6, <2>1 DEF ReadsArgs
  <2> QED
    BY <2>1, <2>2 DEF OptionsAt
<1>8. from[c] = OptionFrom(from[d], "--format", q.format)
  <2>1. c \in Nat \ {0} /\ c <= Len(args) + 1
    BY <1>5
  <2>2. q.format # Unset => c + 1 <= Len(args) /\ args[c] = "--format" /\ args[c + 1] = q.format
    BY <1>3, <1>5
  <2> HIDE DEF c
  <2>3. Len(args) \in Nat
    BY <1>5
  <2>4. from[c] = OptionFrom(from[c + Len(D)], "--format", q.format)
    BY <1>6, <2>1, <2>2, <2>3, PieceIsRead DEF Valued, D
  <2> QED
    BY <2>4
<1>9. from[b] = OptionFrom(from[c], "--samples", q.samples)
  <2>1. b \in Nat \ {0} /\ b <= Len(args) + 1
    BY <1>5
  <2>2. q.samples # Unset => b + 1 <= Len(args) /\ args[b] = "--samples" /\ args[b + 1] = q.samples
    BY <1>3, <1>5
  <2> HIDE DEF b
  <2>3. Len(args) \in Nat
    BY <1>5
  <2>4. from[b] = OptionFrom(from[b + Len(C)], "--samples", q.samples)
    BY <1>6, <2>1, <2>2, <2>3, PieceIsRead DEF Valued, C
  <2> QED
    BY <2>4
<1>10. from[a] = OptionFrom(from[b], "--grouper", q.grouper)
  <2>1. a \in Nat \ {0} /\ a <= Len(args) + 1
    BY <1>5
  <2>2. q.grouper # Unset => a + 1 <= Len(args) /\ args[a] = "--grouper" /\ args[a + 1] = q.grouper
    BY <1>3, <1>5
  <2> HIDE DEF a
  <2>3. Len(args) \in Nat
    BY <1>5
  <2>4. from[a] = OptionFrom(from[a + Len(B)], "--grouper", q.grouper)
    BY <1>6, <2>1, <2>2, <2>3, PieceIsRead DEF Valued, B
  <2> QED
    BY <2>4
<1>11. from[1] = IF BodyFormat(r) = "ndjson"
                   THEN {Over(later, [input |-> "ndjson"]) : later \in from[a]}
                   ELSE from[a]
  <2>1. CASE BodyFormat(r) = "ndjson"
    <3>1. a = 2 /\ 1 \in 1..(Len(args) + 2) /\ ~(1 > Len(args)) /\ args[1] = "--json"
      <4>1. Len(A) = 1 /\ A[1] = "--json" /\ 1 \in 1..Len(A)
        BY <1>4, <2>1
      <4>2. args[1] = A[1]
        BY <1>5, <4>1
      <4> QED
        BY <1>5, <4>1, <4>2
    <3>2. from[1] = OptionsAt(from, args, 1)
      BY <1>6, <3>1 DEF ReadsArgs
    <3>3. from[1] = {Over(later, [input |-> "ndjson"]) : later \in from[2]}
      BY <3>1, <3>2 DEF OptionsAt, Valued
    <3> QED
      BY <2>1, <3>1, <3>3
  <2>2. CASE BodyFormat(r) # "ndjson"
    BY <1>4, <2>2
  <2> QED
    BY <2>1, <2>2
<1>12. CliOptions(args) = from[1]
  BY <1>6 DEF ReadsArgs
<1> HIDE DEF a, b, c, d
<1> QED
  BY <1>7, <1>8, <1>9, <1>10, <1>11, <1>12 DEF args

(* What wants_json makes of a format and what an option left out means.    *)
LEMMA JsonWanted ==
  ASSUME NEW q
  PROVE  /\ q.format = Unset => WantsJson(q) = FALSE
         /\ q.format # Unset => WantsJson(q) = (Lower[q.format] = "json")
BY DEF WantsJson

LEMMA OptionGiven ==
  ASSUME NEW options, NEW name, NEW default
  PROVE  /\ name \in DOMAIN options => OptionOr(options, name, default) = options[name]
         /\ name \notin DOMAIN options => OptionOr(options, name, default) = default
BY DEF OptionOr

(* The options that say what a query says mean what the server reads in    *)
(* it, each whichever the others are.                                      *)
LEMMA OptionsMeanQuery ==
  ASSUME NEW r, r.query \in Queries, NEW options \in CliOptions(ArgsOf(r)),
         BodyFormat(r) \in {"text", "ndjson"}
  PROVE  /\ OptionOr(options, "input", "text") = BodyFormat(r)
         /\ OptionOr(options, "grouper", "drain") = ParseGrouper(r.query.grouper)
         /\ OptionOr(options, "samples", Unset) = r.query.samples
         /\ OptionOr(options, "json", FALSE) = WantsJson(r.query)
<1> DEFINE q == r.query
           last == OptionFrom({<<>>}, "--format", q.format)
           some == OptionFrom(last, "--samples", q.samples)
           all == OptionFrom(some, "--grouper", q.grouper)
<1>1. CliOptions(ArgsOf(r))
        = IF BodyFormat(r) = "ndjson" THEN {Over(later, [input |-> "ndjson"]) : later \in all}
          ELSE all
  BY QueryIsRead
<1>2. /\ {q.grouper, q.format} \subseteq DOMAIN Lower \cup {Unset}
      /\ \A w \in DOMAIN Lower :
           w \in DOMAIN Aliases \cup Groupers \cup {"json", "text"} => Lower[w] = w
  BY WordAssumption
<1>3. ASSUME NEW o \in last
      PROVE  DOMAIN o \subseteq {"json"} /\ OptionOr(o, "json", FALSE) = WantsJson(q)
  <2>1. CASE q.format = Unset
    <3>1. o = <<>> /\ DOMAIN o = {}
      BY <2>1 DEF OptionFrom
    <3>2. WantsJson(q) = FALSE
      BY <2>1, JsonWanted
    <3> HIDE DEF q
    <3>3. OptionOr(o, "json", FALSE) = FALSE
      BY <3>1, OptionGiven
    <3> QED
      BY <3>1, <3>2, <3>3
  <2>2. CASE q.format # Unset
    <3>1. PICK set \in CliSets("--format", q.format) : o = Over(<<>>, set)
      BY <2>2 DEF OptionFrom
    <3>2. q.format \in {"json", "text"} /\ set = [json |-> CliOutputs[q.format]]
      BY <3>1 DEF CliSets, CliOutputs
    <3>3. DOMAIN o = {"json"} /\ o["json"] = CliOutputs[q.format]
      <4>1. DOMAIN <<>> = {} /\ DOMAIN set = {"json"} /\ set["json"] = CliOutputs[q.format]
        BY <3>2
      <4> HIDE DEF q
      <4> QED
        BY <3>1, <4>1 DEF Over
    <3>4. Lower[q.format] = q.format
      BY <1>2, <2>2, <3>2
    <3>5. WantsJson(q) = (q.format = "json")
      BY <2>2, <3>4, JsonWanted
    <3>6. CliOutputs[q.format] = (q.format = "json")
      <4>1. CliOutputs["json"] = TRUE /\ CliOutputs["text"] = FALSE
        BY DEF CliOutputs
      <4>2. CASE q.format = "json"
        BY <4>1, <4>2
      <4>3. CASE q.format = "text"
        BY <4>1, <4>3
      <4> QED
        BY <3>2, <4>2, <4>3
    <3> HIDE DEF q
    <3>7. OptionOr(o, "json", FALSE) = CliOutputs[q.format]
      BY <3>3, OptionGiven
    <3> QED
      BY <3>3, <3>5, <3>6, <3>7
  <2> QED
    BY <2>1, <2>2
<1>4. ASSUME NEW o \in some
      PROVE  /\ DOMAIN o \subseteq {"json", "samples"}
             /\ OptionOr(o, "json", FALSE) = WantsJson(q)
             /\ OptionOr(o, "samples", Unset) = q.samples
  <2>1. CASE q.samples = Unset
    <3>1. o \in last
      BY <2>1 DEF OptionFrom
    <3> QED
      BY <1>3, <2>1, <3>1 DEF OptionOr
  <2>2. CASE q.samples # Unset
    <3>1. PICK later \in last, set \in CliSets("--samples", q.samples) : o = Over(later, set)
      BY <2>2 DEF OptionFrom
    <3>2. set = [samples |-> q.samples]
      BY <3>1 DEF CliSets
    <3>3. DOMAIN later \subseteq {"json"} /\ OptionOr(later, "json", FALSE) = WantsJson(q)
      BY <1>3, <3>1
    <3>4. /\ DOMAIN o = DOMAIN later \cup {"samples"} /\ o["samples"] = q.samples
          /\ "json" \in DOMAIN later => o["json"] = later["json"]
      <4>1. DOMAIN set = {"samples"} /\ set["samples"] = q.samples
        BY <3>2
      <4>2. "samples" \notin DOMAIN later
        BY <3>3
      <4> HIDE DEF q, last
      <4>3. /\ DOMAIN o = DOMAIN later \cup DOMAIN set
            /\ \A name \in DOMAIN later : o[name] = later[name]
            /\ \A name \in DOMAIN set \ DOMAIN later : o[name] = set[name]
        BY <3>1 DEF Over
      <4> QED
        BY <4>1, <4>2, <4>3
    <3> QED
      BY <3>3, <3>4 DEF OptionOr
  <2> QED
    BY <2>1, <2>2
<1>5. ASSUME NEW o \in all
      PROVE  /\ DOMAIN o \subseteq {"json", "samples", "grouper"}
             /\ OptionOr(o, "json", FALSE) = WantsJson(q)
             /\ OptionOr(o, "samples", Unset) = q.samples
             /\ OptionOr(o, "grouper", "drain") = ParseGrouper(q.grouper)
  <2>1. CASE q.grouper = Unset
    <3>1. o \in some
      BY <2>1 DEF OptionFrom
    <3> QED
      BY <1>4, <2>1, <3>1 DEF OptionOr, ParseGrouper
  <2>2. CASE q.grouper # Unset
    <3>1. PICK later \in some, set \in CliSets("--grouper", q.grouper) : o = Over(later, set)
      BY <2>2 DEF OptionFrom
    <3>2. GrouperKind(q.grouper) \in Groupers /\ set = [grouper |-> GrouperKind(q.grouper)]
      BY <3>1 DEF CliSets
    <3>3. /\ DOMAIN later \subseteq {"json", "samples"}
          /\ OptionOr(later, "json", FALSE) = WantsJson(q)
          /\ OptionOr(later, "samples", Unset) = q.samples
      BY <1>4, <3>1
    <3>4. /\ DOMAIN o = DOMAIN later \cup {"grouper"} /\ o["grouper"] = GrouperKind(q.grouper)
          /\ "json" \in DOMAIN later => o["json"] = later["json"]
          /\ "samples" \in DOMAIN later => o["samples"] = later["samples"]
      <4>1. DOMAIN set = {"grouper"} /\ set["grouper"] = GrouperKind(q.grouper)
        BY <3>2
      <4>2. "grouper" \notin DOMAIN later
        BY <3>3
      <4> HIDE DEF q, some
      <4>3. /\ DOMAIN o = DOMAIN later \cup DOMAIN set
            /\ \A name \in DOMAIN later : o[name] = later[name]
            /\ \A name \in DOMAIN set \ DOMAIN later : o[name] = set[name]
        BY <3>1 DEF Over
      <4> QED
        BY <4>1, <4>2, <4>3
    <3>5. q.grouper \in DOMAIN Aliases \cup Groupers /\ Lower[q.grouper] = q.grouper
      BY <1>2, <2>2, <3>2 DEF GrouperKind
    <3> QED
      BY <2>2, <3>2, <3>3, <3>4, <3>5 DEF OptionOr, ParseGrouper
  <2> QED
    BY <2>1, <2>2
<1> HIDE DEF all, q
<1>6. CASE BodyFormat(r) = "ndjson"
  <2>1. PICK later \in all : options = Over(later, [input |-> "ndjson"])
    BY <1>1, <1>6
  <2>2. /\ DOMAIN options = DOMAIN later \cup {"input"} /\ "input" \notin DOMAIN later
        /\ options["input"] = "ndjson"
        /\ \A name \in DOMAIN later : options[name] = later[name]
    <3>1. "input" \notin DOMAIN later
      BY <1>5
    <3> DEFINE set == [input |-> "ndjson"]
    <3>2. DOMAIN set = {"input"} /\ set["input"] = "ndjson"
      OBVIOUS
    <3>3. options = Over(later, set)
      BY <2>1
    <3> HIDE DEF set
    <3>4. /\ DOMAIN options = DOMAIN later \cup DOMAIN set
          /\ \A name \in DOMAIN later : options[name] = later[name]
          /\ \A name \in DOMAIN set \ DOMAIN later : options[name] = set[name]
      BY <3>3 DEF Over
    <3> QED
      BY <3>1, <3>2, <3>4
  <2> QED
    BY <1>5, <1>6, <2>1, <2>2 DEF OptionOr, q
<1>7. CASE BodyFormat(r) # "ndjson"
  <2>1. options \in all /\ BodyFormat(r) = "text"
    BY <1>1, <1>7
  <2>2. "input" \notin DOMAIN options
    BY <1>5, <2>1
  <2> QED
    BY <1>5, <2>1, <2>2 DEF OptionOr, q
<1> QED
  BY <1>6, <1>7

LEMMA OneshotMirrors ==
  ASSUME NEW r, Sends(r), BodyStatus(r) = 200, NEW run \in Cli(ArgsOf(r), r.body)
  PROVE  Answer(BodyLines(r), r.query) = run
<1>1. PICK options \in CliOptions(ArgsOf(r)) :
        run = [status |-> 200,
               lines  |-> ParseBody(r.body.lines, OptionOr(options, "input", "text")),
               config |-> Config(OptionOr(options, "grouper", "drain"),
                                 OptionOr(options, "samples", Unset)),
               json   |-> OptionOr(options, "json", FALSE)]
  <2> DEFINE taken == IF r.body.utf8 THEN CliOptions(ArgsOf(r)) ELSE {}
             Run(options) ==
               [status |-> 200,
                lines  |-> ParseBody(r.body.lines, OptionOr(options, "input", "text")),
                config |-> Config(OptionOr(options, "grouper", "drain"),
                                  OptionOr(options, "samples", Unset)),
                json   |-> OptionOr(options, "json", FALSE)]
  <2>1. run \in {Run(options) : options \in taken}
    BY DEF Cli
  <2>2. taken \subseteq CliOptions(ArgsOf(r))
    OBVIOUS
  <2> HIDE DEF taken, Run
  <2>3. \E options \in CliOptions(ArgsOf(r)) : run = Run(options)
    BY <2>1, <2>2
  <2> QED
    BY <2>3 DEF Run
<1>2. BodyFormat(r) \in {"text", "ndjson"}
  BY FormatAssumption DEF Sends, BodyFormat
<1>3. BodyLines(r) = ParseBody(r.body.lines, BodyFormat(r))
  BY AcceptedBody DEF Sends
<1>4. /\ OptionOr(options, "input", "text") = BodyFormat(r)
      /\ OptionOr(options, "grouper", "drain") = ParseGrouper(r.query.grouper)
      /\ OptionOr(options, "samples", Unset) = r.query.samples
      /\ OptionOr(options, "json", FALSE) = WantsJson(r.query)
  BY <1>1, <1>2, OptionsMeanQuery DEF Sends
<1> QED
  BY <1>1, <1>3, <1>4 DEF Answer, ConfigFromQuery

(* What both front ends accept they template alike: the same lines, with   *)
(* the same configuration, in the same format.                             *)
THEOREM ServerMirrorsCli == Spec => []MirrorsCli
<1>1. Init => MirrorsCli
  BY DEF Init, MirrorsCli
<1>2. MirrorsCli /\ [Next]_vars => MirrorsCli'
  <2> SUFFICES ASSUME MirrorsCli, [Next]_vars PROVE MirrorsCli'
    OBVIOUS
  <2>1. CASE UNCHANGED vars
    BY <2>1 DEF vars, MirrorsCli
  <2>2. ASSUME NEW r, r.kind # "oneshot", request' = r PROVE MirrorsCli'
    BY <2>2 DEF MirrorsCli
  <2>3. ASSUME NEW r, r.kind = "oneshot", Sends(r), TemplateOneshot(r) PROVE MirrorsCli'
    <3>1. request' = r
      BY <2>3 DEF TemplateOneshot, Refuse, Respond
    <3>2. response'.status = 200 =>
            BodyStatus(r) = 200 /\ response' = Answer(BodyLines(r), r.query)
      BY <2>3 DEF TemplateOneshot, Refuse, Respond, First
    <3> QED
      BY <2>3, <3>1, <3>2, OneshotMirrors DEF MirrorsCli
  <2>4. ASSUME NEW r, Templates(r) PROVE request' = r
    BY <2>4 DEF Templates, Refuse, Respond
  <2>5. ASSUME NEW r, Ingest(r) PROVE request' = r
    BY <2>5 DEF Ingest, Refuse, Respond
  <2> QED
    BY <2>1, <2>2, <2>3, <2>4, <2>5, NextRequest
<1> QED
  BY <1>1, <1>2, PTL DEF Spec
=============================================================================
