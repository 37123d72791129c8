# A TLA+ model of codag-drain

The repository groups log lines into templates. It has three layers:

- `drain3_rust`: the Drain engine (a prefix tree, a similarity score, a cluster
  store that may be bounded) and an asynchronous pipeline around it;
- `codag-drain`: the template compressor, which lexes a batch of lines, groups them
  with one of several groupers and derives templates and slot summaries; an
  append-only `TemplateIndex` over it; an input parser and a command line tool;
- `examples/server`: an HTTP service with per-session indexes, a TTL sweeper and a
  one-shot endpoint on a bounded blocking pool.

This directory holds TLA+ modules translated from that code, TLC configurations that
check them on small instances, and proofs, checked by TLAPS, that hold for every value
of the constants. `PROJECT.json` lists the components, the runs, the source lines each
definition stands for, the hazards and the theorems.

## 1. Inventory

| Component | State | Operations | Interacts with | What makes it correct |
|---|---|---|---|---|
| Drain engine (`drain.rs`, `node.rs`) | prefix tree of cluster ids, counter | `add_log_message`, `match_log` | similarity, store | a cluster's size and template are those of the lines assigned to it; members stay admissible; every live cluster is in one leaf; the `unwrap` on the wildcard child cannot fail; an ingested line is matched |
| Token similarity (`similarity.rs`) | none | `get_seq_distance`, `create_template` | engine | generalising one line at a time gives the least general template of them all |
| Cluster store (`storage.rs`, `cluster.rs`) | map, or LRU cache | insert, get_mut, touch, peek, contains | engine | capacity; the cluster forgotten is the one that got no line for longest |
| Masking (`masking.rs`) and tokenisation | regex list | `mask`, `get_content_as_tokens`, `drain_tokens` | engine, groupers | lines that differ in numbers only are grouped; the same view of a line when it is ingested and when it is matched |
| Pipeline (`pipeline.rs`, `parse_event.rs`) | bounded mpsc channel, updater task, oneshot replies | `add_log_message`, `shutdown`, drop | engine (owned by the updater) | each sent line ingested once, in each caller's order; answers go to their own call; the `expect`s fail only if the engine panicked; shutdown drains |
| Session store and handlers (`session.rs`, `routes.rs`) | `RwLock<HashMap<id, {index, last_touch}>>` | ingest, templates | sweeper, template index | acknowledged lines are stored; a request computes from one state of its session |
| TTL sweeper (`main.rs`) | interval | sweep | session store | evicts what expired, and nothing touched within the TTL; gets the lock in the end |
| One-shot service (`routes.rs`) | semaphore, blocking pool | `POST /v1/template` | compressor | permits are neither lost nor released twice; every request is answered |
| HTTP surface (`routes.rs`, `session.rs`) | auth token, limits | auth, query, body | input parser, sessions | a refused request changes nothing; what is stored is what was sent; it templates as the command line tool does |
| Input parsing (`input.rs`), CLI (`bin/codag-drain.rs`) | none | `parse_line`, `parse_body`, options | compressor | no field of a line disappears but the metadata |
| Groupers (`grouper.rs`) | clusters of a batch | three Drain groupers, full search, statistical | lexer, engine | every line in one group; template = what members share; joined groups stay anchored |
| Lexer, template derivation, placeholder regex (`lex.rs`, `template.rs`) | none | `lex_tokens`, `derive_lex_template`, LCS, captures | compressor | the template matches its members and captures their values |
| Profiles (`profile.rs`, `compress.rs`) | none | slot statistics, samples, rendering | template derivation | the statistics are of the captured values, each counted once per member |
| Template index (`stream.rs`) | list of lines | push, `templates_with` | sessions | append only |
| Benchmarks and evaluation | none | measurement | | not modelled |

The hard behaviours: a template generalised by one line at a time, with routing and
eviction decided from intermediate states; ids that outlive their clusters in the tree;
futures that are dropped at any await; a channel at its capacity; an engine that panics
with events in the channel; a sweeper that reads
the clock before it waits for a lock; jobs that outlive the request that spawned them;
two independent implementations (the engine and the full-search grouper) of one
scoring rule, and two of the front end (server and command line). `PROJECT.json` lists
them one by one under `hazards`.

## 2. Modules

```
Similarity ── TemplateMiner (abstract)        SessionStore    TemplateService    Input
     │             ▲  ▲                                                            │
     │   refines   │  └────────── StatisticalGrouper                           Requests
     └── Drain ── DrainProperties
           ▲  ▲
           │  └── FullSearchGrouper (refines Drain with a flat tree)
           ├───── ConcurrentDrain ── PipelineProperties
           └───── Templater ──┬── Profiles ── LexTemplate
                              └── Masking
```

`MC*` modules give the instances TLC checks. `*Proofs` modules extend the module they
are about: `DrainProofs`, `PipelineProofs`, `ServerProofs` on the session store and the one-shot service,
`RequestsProofs`, `GrouperProofs` on the statistical grouper, `FullSearchProofs` and `TemplaterProofs`.
`DataLemmas` has the facts about numbers, finite sets, recursion, folds and queues that they share.

### Similarity, TemplateMiner, Drain

`Similarity` has `get_seq_distance` and `create_template`. The code divides the number
of matching positions by the length and compares `f64`s; scores the code compares with
each other have the same length, so the model compares counts, and compares with
`sim_th` = `SimNum / SimDen` by cross multiplication.

`Drain` is the engine with its store. One call of `add_log_message` is one step:

- `SearchLeaves`, `TreeSearch`, `FastMatch` are `tree_search` and `fast_match`: a token's
  own child, else the wildcard child; the most similar cluster, then the one with more
  wildcards, then the first; then `sim_th`. A line without tokens takes the cluster its
  leaf lists.
- `UpdateCluster` is the branch in which a cluster matched: `create_template`, size + 1,
  promotion in the LRU list by `get_mut` and `touch`.
- `CreateCluster` is the other branch: the counter, `LruCache::put` with the eviction it
  may cause, and `add_seq_to_prefix_tree` with its clean-up of ids that are no longer
  live. Where the code unwraps a wildcard child that is not there, the action is not enabled
  and `InsertPanics` holds.
- `MatchLog` is `match_log`, which changes nothing. Where the code visits the children
  of a `HashMap`, `FullSearch` returns every answer the order permits.

State: `idToCluster` (the store), `recency` (the LRU list, as the call that promoted each
entry last), `tree` (node → ids listed there; a node is a token count and a path of
keys; an interior node lists none), `clustersCounter`, and the history `log` of which
line went where with which answer. A leaf's `Vec` is ascending, because fresh ids are
appended, so a set stands for it. Masker and tokeniser are the constants `MaskedTokens`
and `RawTokens`: `add_log_message` uses the first, `match_log` the second. `extra_delimiters`
are part of the tokeniser.

`TemplateMiner` says what an incremental miner promises without saying how it finds a
cluster: what it reports of a live cluster is the number and the least general template
of the lines assigned to it, an id is never used again, and at most one cluster is
forgotten per call, only when another is opened.

### ConcurrentDrain

The pipeline, with the engine as `Engine == INSTANCE Drain`: `Apply` is a whole
`AddLogMessage` step. `Call`, `Admit`, `Send`, `Return` are the stages of a call between
its awaits (waiting for a slot of the channel, having one, having sent, having the
answer); `Cancel` drops the future at any of them; `Receive`, `Apply`, `Reply`, `Stop`
are the updater. `waiters` is the order in which tokio's semaphore serves senders, and
`inbox` is the oneshot channel of each caller's present call.

The end of a pipeline: `Shutdown` and `ShutdownReturns` are `shutdown`, `Drop` drops the
pipeline without it. Both consume or end the pipeline and so start only when no call borrows
it; both drop the sender, after which the updater drains the channel and stops.

The fault: a line whose insertion hits the missing wildcard child (`max_children` 0) panics
the engine. `Panic` ends the updater, drops its receiver and with it every event in the
channel, reply senders included (`lost`). `Fail` is a caller whose `expect` then panics,
on the send or on the reply. A caller that had its slot before the panic still sends, into a
channel nobody reads; it waits for an answer as long as the pipeline is borrowed
(`Stranded`).

### SessionStore

The `RwLock` serves its waiters in order (tokio's is fair): readers enter together, a
writer waits for them, nobody overtakes a waiting writer. `RequestIngest` and
`RequestTemplates` bring a handler to its await of the lock, `ServeIngest` is all of ingest
from there, which does not await again, `ServeTemplates` answers 404 or starts to compute
under the read lock, and `AnswerTemplates` ends that. `Disconnect` drops a handler that
waits. The sweeper is `SweepTick` (a tick of the interval, `now`, joining the queue) and `Sweep`
(`retain` under the lock). Time is counted in sweep intervals; as the code only compares
`now.duration_since(last_touch)` with the TTL, the model keeps the two durations, `age`
from the present and `since` from the sweeper's earlier `now`, and stops counting at TTL.
Requests that are refused before the lock (auth, query, body) change nothing and
are in `Requests`.

### TemplateService

`POST /v1/template`: `Accept` takes a permit and spawns the blocking job, `Start` and `Finish`
are the pool (a job may panic), `Elapse`, `Answer`, `TimeOut` are the handler's await under a
timeout, which looks at the job first, and `DropHandler` drops the handler. Permits
belong to jobs: a timed-out request's job keeps its permit until it ends, so 429 counts
jobs, not requests. A request refused with 4xx or 429 changes nothing.

### Input, Requests

`Input` is the parser both front ends share: `ParseLine` takes a timestamp of one or two
fields and a level among the next three, and drops what precedes the level; `ParseBody`
skips blank lines and what is not JSON. A raw line is its fields, beside what `serde_json`
makes of it; sizes in characters and bytes are kept, because the limits are about them.

`Requests` is the server request by request: the bearer token and its two environment
variables (503 without, 401 with another), the query, the body format from query
or `Content-Type`, `parse_limited_body` with each of its limits in the order the code tests
them, then ingest, templates or the one-shot route. Every early return is a `Refuse`, with
its status. `Cli` is what the command line tool does with a sequence of arguments on the
same body: a set, empty when it exits with an error. Handlers are atomic in this module; their
interleaving is the subject of the two modules above.

### Masking, LexTemplate, Profiles, Templater

`Masking` is `LogMasker` with its default instructions on a line of characters: addresses, then
hex literals, then numbers, each pattern as the places where a match that starts at a
character can end, and `replace_all`, leftmost and longest. Addresses need no word boundary, as in
the code; numbers do.

`LexTemplate` is what happens to a group of lines: `Lex`, `DeriveLexTemplate`, the alignment
`LcsMatches` with `DerivePairTemplate` and `DeriveMultiTemplate` for ragged members, and the
anchored regex with its lazy captures. Here the text itself matters, because a template keeps
the blanks between tokens and the regex matches characters, so a line is a sequence of
characters, of which only the class matters. Opcodes are kept as the matches they are made of.
The table `dp`, the backtracking and the regex are recursive functions on pairs of places.

`Profiles` is what is said of a slot: the values captured, the numbers in them, minimum,
median and maximum when at least half are numbers, the unit, the distinct count and the
samples, with the caps of `TemplaterConfig`. `Clip` cuts a template, a placeholder counting for three
characters; of one the cut divides the model leaves out the rest. Numbers are in tenths and a fraction keeps
one digit, so that they are integers; the median is doubled. `Sorted` says which number is in
a given place of the sorted copy `median` makes, without sorting.

`Templater` is `template_logs` with the groupers that run an engine: each `GroupLine` is a step of
the engine (`INSTANCE Drain` without a bound on the store) on the line's `DrainTokens`, which
depend on the grouper's mode (masked words, words between delimiters, lexical tokens of a
compact line), and `TemplateGroups` is `finalize`, `Profile::build` and the slot summaries.

### FullSearchGrouper, StatisticalGrouper

A step groups the next line of a batch. The full-search grouper has the engine's
scoring in code of its own. The statistical grouper joins a line to the cluster that
shares the heaviest anchors with it; the idf weights are given as rounded integers in
the order of the logarithms, anchors and their alphanumeric lengths as constants. A
line without anchors, or with fewer than `MinStaticChars` anchor characters, is never
joined, not even by an identical line. The code's `remaining_anchors` is always its `match_count`;
the model has one operator for both. `finalize`, which sorts the groups of every grouper for
output, is in `Templater` and left out here.

## 3. What is checked

| Run | Instance | Shows |
|---|---|---|
| `drain_tree` | 7 lines, all sequences of 5, one routing token, 3 children per node, unlimited | engine = miner (`MinerSpec`), no drift (`MembersStayAdmissible`), the `unwrap` is safe (`NeverPanics`), ingested lines match (`IngestedLinesMatch`), a repeated line changes nothing (`RepeatIsNoop`) |
| `drain_lru` | 6 lines, all sequences of 6, two routing tokens, 2 children, 2 clusters | with evictions and stale ids: `LiveAreMostRecent`, one leaf per cluster (`LeafHomes`), and `MinerInv`, the inductive invariant of the proofs |
| `match_masked` | 3 lines, a masker | violation, see Findings |
| `pipeline` | 2 callers × 2 calls, 2 slots, an engine one line of which can panic (`max_children` 0) | `ExactlyOnce`, `AnswersAreOwn`, `ProgramOrder`, `ExpectsHold`, `ShutdownDrains`; `CallsEnd`, `SentIsApplied`, `ShutdownEnds`; no deadlock |
| `sessions` | 2 clients, 2 sessions, TTL of 2 intervals, 2 ingests, any number of reads | `AckedIsStored`, `OnlyExpiredEvicted`, `ReadersSeeOneState`; `RequestsEnd`, `SessionsExpire`; no deadlock |
| `idle_get` | the same | violation, see Findings |
| `requests` | 2 requests, 2 sessions, 9 bodies, 7 queries, both content types, 3 settings of the token, small limits | `SessionsHoldAccepted` and `AllOrNothing`: what a session holds is the accepted bodies, whole; `MirrorsCli`: the server templates what the tool would; `FieldsAccounted`: parsing drops metadata only |
| `template_service` | 3 clients, 2 permits, 1 thread, 4 accepted requests | `PermitsHeldByJobs`, `RequestsAnswered`, `PermitsReturn` |
| `full_search` | 8 lines, batches of 5 | `IsFlatDrain`: the grouper is the engine with a tree that does not route |
| `statistical` | 9 lines, batches of 1 to 4 | the grouper is a miner (`GroupsAreMined`), `JoinedStayAnchored`, `EqualNeighboursGrouped` |
| `templater` | 17 lines, batches of up to 3, each of the three Drain groupers | `SlotsAreWords`: of members that read alike each placeholder captures the word that varies; `NumbersShareAGroup`: lines that differ in numbers share a group; `SummariesSpeakForMembers`: median, range and counts are of all captured values, and the samples are the first distinct ones in the members' order, up to the cap (two, of up to three values): reordered, repeated, missing or uncapped samples violate it; `AlignmentIsLongest` |
| `template_unvalidated` | 3 lines with single blanks | violation, see Findings |

Every property of a passing run has a mutant under `mutants`: a plausible bug in the
code, written as an operator next to the one it replaces, with which the property fails
under the run's own configuration.

**Bounds.** Five calls are enough for the tree: one to open a numeric line's wildcard
child, two to fill a node, one to be routed away from its cluster, one to come back to
it; the lines of `MCLinesTree` were chosen for these cases. Six calls on two slots evict
up to four times, open an evicted line's cluster again, and insert into a leaf that lists
stale ids. Two callers with two calls each have an abandoned event in the channel while
the caller makes its next call, and both a full channel and an admitted sender when the
updater panics. With `max_children` 0 the pipeline's lines are one that takes the wildcard
child, so that the engine works, and one that does not, so that it panics: either way round. A TTL of two intervals
separates a session that is young at the sweeper's `now` from one that is not, and lets
both change while the sweeper waits. Two requests are what it takes to ingest into a
session and then to be refused, to grow it, or to read it; each limit is exceeded by some body. One pool thread and two permits make a job time
out before it starts, and let jobs nobody waits for hold all the permits. The lines of
`templater` differ in one word, in two with and without a static token between, in blanks,
in commas, in their order and in the number of lexical tokens, and have numbers, units, fractions,
an address and a hex literal; three members are one more than
the derivation from a pair can see, and give a median over an even and an odd number of values.
`MaxCalls`,
`CallsEach`, `MaxIngests`, `MaxRequests` and `MaxLines` bound histories and counters; the
code has no such limits. The runs with bounded input that just stops have
`CHECK_DEADLOCK FALSE`; the pipeline and the session store are checked for deadlock.

**Fairness** is weak and only on what the runtime or the clock does: tokio polls a woken
task (the updater, a sender with a slot, a receiver with its answer or whose sender is gone,
whoever the lock
wakes, a handler whose timer fired), the blocking pool runs what it was given, time passes,
and the grouping of a finite input ends. Clients need not do anything: calls,
cancellations, disconnects, requests, shutdown and drop have no fairness. That one sender or one
waiter cannot be passed for ever is not assumed; it follows from the queues.

## 4. What is proved

The proofs assume of the constants only what the modules name: `LinesAssumption` (tokens of a
line are a sequence), `ThresholdAssumption` (sim_th a fraction from 0 to 1), `TreeAssumption`
(a node depth of at least one, `max_children` a number, 0 included), `StoreAssumption` (a capacity is positive),
`BoundAssumption`; `PipelineAssumption` (finitely many callers, a channel with a slot) and `EngineAssumption` (the engine's, of the ones inside the pipeline and the templater),
`SessionAssumption` (a positive TTL, a sweeper that is no client), `ServiceAssumption` (a permit and a thread),
`BatchAssumption` (tokens of a line are a sequence; the batch is bounded), `AnchorAssumption` (the mark of a varying
position is no anchor) and `WeightAssumption` (idf weights are numbers: the code's are never negative); the
front ends' `LimitsAssumption` (limits are numbers),
`FormatAssumption` and `FieldAssumption` (two body formats; a level token has a level), `BodyAssumption` (a body is a
sequence of lines, a line one of fields, and a blank line is not JSON) and `WordAssumption` (the names
the front ends know are in lower case); and of the templater `CharacterAssumption`, `ProfileAssumption` (a digit's value is from 0 to 9)
`MaskingAssumption` (digits are word characters; a sign, a dot, a mask is none; `x` is no digit), `InkAssumption` (nothing the masker
matches is blank, nor is a mask; the lexer has digits in words), `CompactAssumption` (a compact line has a punctuation mark)
and `TemplaterAssumption` (lines are sequences of characters). Each is an ASSUME of a module some run extends, so TLC evaluates it there.
`PROJECT.json` lists the theorems with the property each establishes.

**The engine** (`DrainProofs`)

- `Typing`: `Spec => []TypeOK`.
- `MinerInvariance`: `Spec => [](TypeOK /\ MinerInv)`. `MinerInv` strengthens "what is
  stored is what the log says" (`ReportsExact`) to something inductive. That a chosen cluster
  has the line's length needs `ListedLengths`, because a cluster is found
  through the tree; that one `put` evicts at most one cluster needs `RecencyDistinct`.
- `Refinement`: `Spec => MinerSpec`. The engine with its tree and bounded store implements the
  template miner. The step that carries it is `CreateTemplateExtends`: generalising the
  least general template of a set of lines by one more line is the least general template
  of the larger set.
- `NoDrift`: `Spec => []MembersStayAdmissible`. When a line joins, the positions that stay
  static are those that matched, and they reach `sim_th` (`StaticEnough`, inductive); and by
  `ReportsExact` every member has every static token.
- `LeastRecentlyUsed`: `Spec => []LiveAreMostRecent`. `LruInv` says that an entry's recency is
  the index of the last line it got (`LastUse`), that forgotten clusters got theirs earlier
  (`ForgottenBefore`), and that something is forgotten only from a full store (`Capacity`).

**The tree** (`DrainProofs`, second half)

- `UnwrapFinds`: `Spec => []NeverPanics`. The inductive invariant `RoomForWildcard` is what the
  code's comparisons of `children.len()` keep: a node has at most `max_children` children,
  and while it has no wildcard child it has room for one. Then a line that must take the
  wildcard child finds it or can make it.
- `Homes`: `Spec => []LeafHomes`. `HomesInv` says that every live cluster is listed in one node
  (`OneHome`) whose path its template still has, or a wildcard where a token varied. An
  update only puts wildcards into the template; an insertion puts the new id into one leaf and removes
  from it only ids that are not live.
- `IngestedMatch`: `Spec => []IngestedLinesMatch`, if `RawTokens = MaskedTokens` (the run `match_masked`
  shows why that is needed). A member's cluster covers it (`MembersCovered`), so it scores the full length;
  among the clusters of that token count there is a best one (`BestExists`), and it scores no less.
- `RepeatsChangeNothing`: `Spec => RepeatIsNoop`. `RepeatInv` says of every state that the last line would be
  sent to its cluster again. After an insertion that is so because the search takes the way of the insertion
  (`InsertedIsFound`, `SearchUnique`) and no other cluster there is the line itself; for the latter the
  tree must contain the way to each of its nodes (`TreeClosed`), so that the line would have found that cluster
  before. After a join the cluster's score for the line is unchanged and it is no less general (`UpdateRepeats`).

**The pipeline** (`PipelineProofs`): `PipelineTyping`, `AppliedExactlyOnce`, `CallsInOrder`,
`ExpectsNeverFail`, `DrainedAtEnd` and `AnswersBelong`. The first five follow from one invariant, `PipelineInv`. `FlowInv` puts all events
that were ever sent and not lost in one sequence, `Pipe` (applied, then held by the updater, then in the channel),
and says that it is in the order of each caller's calls, hence without repetitions; a send appends to
it, a receive and an apply leave it as it is. That a new event is later than those of abandoned calls
is `Earlier`. `CallerInv` has the queue of senders without repetitions, `SlotInv` the slots
promised, `LogInv` the engine's log, `ExpectInv` where the reply sender of each waiting call is.
Nothing about the engine is needed for these but that a step logs its line.
`AnswersBelong` (`Spec => []AnswersAreOwn`) composes the two: the instance `EngineProofs` of `DrainProofs`
gives what the engine reports of the line it just ingested (`LatestEntry`, from `ReportsExact`), and
`AnswerInv` follows that answer from the updater's hands through the oneshot channel to the caller, while
later lines change the cluster and abandoned calls are replaced by new ones.

**The sessions** (`ServerProofs`): `SessionTyping`, `AckedStored`, `ExpiredOnly`,
`OneStateRead`, from `SessionInv`: `QueueInv` (each waiter of the lock waits once), `ClockInv` (what the
sweeper's earlier `now` makes of a touch is never more than its age), `RequestInv` (a reader's session is live)
and `StoreInv` (the batches stored are older than the one their client waits to ingest, `Behind`).

**The one-shot service** (`ServerProofs`, second half): `ServiceTyping` and `PermitsAccounted`, from `ServiceInv`,
which adds that a job waits for a thread at most once and does not run meanwhile.

**The statistical grouper** (`GrouperProofs`): `GrouperMines`, `Spec => GroupsAreMined`, so the
statistical grouper and the engine implement the same abstract miner. `GrouperInv` is the
grouper's `ReportsExact`; all that is needed of scores and weights is that a cluster that admits a line has
its length, and the step is again `CreateTemplateExtends`, with `Merge` for `create_template`.
- `JoinedAnchored`: `Spec => []JoinedStayAnchored`. The property is inductive with `GrouperInv`. The anchors of the merged template
  are those the line shared with the old one (`AnchorsOfMerge`), so what `Admits` asked of the shared ones
  holds of the result. `Required` is about the joining line alone; as that line's count is among those the property takes
  the minimum of (`CountsGrow`), what it requires is enough for the line with the fewest, whichever it is (`RequiredIsEnough`).
- `NeighboursGrouped`: `Spec => []EqualNeighboursGrouped`. The invariant is `NeighbourInv`: the
  log is a prefix of the batch and, of every state, the last line would go to its cluster again (`LastWouldStay`). That
  needs three facts about the choice: weights are numbers (`WeightType`, a sum over a finite set), of
  several clusters exactly one is best (`OnePrecedes`; `PrecedesOrders` is the total order), and a join neither takes an
  anchor the line shares from its cluster nor touches another (`JoinKeepsChoice`). A line opens a cluster
  only if none admits it, and the new one does if the line is strong enough (`OpenIsChosen`).

**The full-search grouper** (`FullSearchProofs`): `FullSearchIsFlatDrain`, `Spec => IsFlatDrain`: the grouper's own code
for scores and ties implements the engine, with a tree that does not route (`max_node_depth` 1, so that a leaf holds
what has one length, `LeafIsLength`) and no bound on the store. `JoinIsUpdate` and `OpenIsCreate` map each step to
`AddLogMessage`; `SameMatch` and `EmptyMatch` map the choice of the cluster. For lines without tokens the engine takes
a cluster its leaf lists without comparing, the grouper the best one; they agree because there is never
more than one such cluster (`OneWithoutTokens`, part of the inductive `FlatInv`): every such line after the first
joins it.

**The front ends** (`RequestsProofs`)

- `AcceptedAreHeld`: `Spec => []SessionsHoldAccepted`. `SessionInv` says that `index` and `accepted` have the same sessions, and
  each holds the parsed bodies one after another. The server refuses a body at its first bad line,
  the tool drops bad lines; a body the server accepts has none, so the filter keeps all of it (`AcceptedBody`, from
  `FilterKeeps`), and flattening one body more appends its lines (`FlattenAppends`).
- `TakenAsAWhole`: `Spec => AllOrNothing`, from the same invariant.
- `NoFieldLost`: `Spec => []FieldsAccounted`. `LineAccounts` is about `parse_line` alone, for lines of any length: the level
  found is among the three fields after the timestamp, so at most three are dropped and the rest is a suffix. The
  invariant (`AllAccounted`) keeps it for each stored line, and a growing list of bodies keeps its witness.
- `ServerMirrorsCli`: `Spec => []MirrorsCli`. `ArgsAreRead` unfolds the tool's loop over its arguments;
  `QueryIsRead` follows it through the arguments that say what a query says, whichever of the four options are there;
  `OptionsMeanQuery` compares the result with what the server read in the query.

**The templater** (`TemplaterProofs`)

Two invariants say what the state is: `LinesLogged` (the engine's log holds lines of the batch) and `ProfilesBuilt`
(each profile is `ProfileOf` a group of them that is not empty). What the properties say is then about the functions
that make a profile, for any characters, lines and order of calls.

- `Alignment`: `Spec => []AlignmentIsLongest`. `TableHolds` gives the equations of the table, `MatchesFollow` those of the
  backtracking. By induction on what is left of both token lists, an alignment of suffixes is no longer than the entry of the
  table, and the backtracking is exactly that long (`Aligned`): taking an equal pair costs nothing, because
  any alignment that avoids it can be changed to use it and not be shorter.
- `Summaries`: `Spec => []SummariesSpeakForMembers`. Every derivation gives a text (`TemplateIsText`), a match captures as many texts as
  the template has placeholders (`CapturesFit`), so a summary's values are the captures of the members that match, in their order
  (`SlotValuesHold`). The number in place k of the sorted values exists (`SortedIsThere`), with fewer than k below it; the two
  middle ones therefore halve the members (`NumbersSpeak`). Whatever is at a place was first seen there or before
  (`FirstOccurs`), and the first places are listed in order, so before a sample there are only values of earlier ones
  (`FirstSamples`).
- `Slots`: `Spec => []SlotsAreWords`. The template is a member's line with some tokens replaced (`BuiltUp`). Matching it against any
  member, the regex has no choice in what is static (`StaticToken`). At a placeholder the lazy group could end early, but what
  follows a word is no word character (`NotInTheWord`), and the template goes on with it, as the token after a varying one
  is static; so the first place where the rest matches is the end of the word (`DynamicToken`). From the last token back to
  the first, the captures are the words that vary (`WordsCaptured`).
- `Numbers`: `Spec => []NumbersShareAGroup`. Two texts are `Apart` when there is a blank, or nothing, where they meet. Each pattern of
  the masker is `Local`: what it matches is ink, so a match in texts apart is in one of them, and it is there for the one
  by itself, because next to a blank and next to no text at all there is a word boundary alike. So `replace_all`
  takes texts apart one after the other (`ReplacedDistributes`), and so do delimiters, the lexer and the words. What a
  function of that kind makes of a line it makes of the line's words (`WordsDecide`), and every word that is a number
  is masked to `<NUM>` (`NumberMasked`). A compact line is not masked, but it is one word, and a number is not compact. Hence
  lines alike but for numbers have the same tokens (`AlikeTokens`). The engine's proofs are used through `INSTANCE DrainProofs`, with
  the grouper's tokens as the masked ones: `JoinsTheLast` says that a line with the tokens of the line before it joins its cluster.

**Recursion.** The library's induction theorems take an operator as parameter, which no installed prover instantiates.
`DataLemmas` states induction with a set in place of the predicate (`StepByStep`), and gets from it that a recursion over a
finite set has exactly one solution and takes it element by element (`FoldsOneWay`). What the proofs say of sums (`MapThenSumSet`),
of filters (`FoldLeft`), of `FlattenSeq` and of the tool's options rests on that; it holds for inputs of any length. `Recursion` does the same
for a function whose value depends on places of lower rank: one that satisfies the equations exists, and `ByRank` proves a fact of every place.
The table, the backtracking, the regex, `replace_all` and the value of a number are such functions.

Every safety property of a passing run is a theorem. Only model-checked: all liveness (`CallsEnd`, `SentIsApplied`, `ShutdownEnds`, `RequestsEnd`,
`SessionsExpire`, `RequestsAnswered`, `PermitsReturn`), which needs ENABLED and is out of the prover's reach.

## 5. Findings

Three runs are expected to end in a violation, because a comment of the repository says
something else than the code does.

- `match_masked`. `Drain::match_log` tokenises the line unmasked, while `add_log_message`
  masks it; the comment at `drain.rs:164` says the masker is "applied before
  tokenization". With a masker that turns `7` into `<NUM>`, the line `a 7` is ingested as
  `a <NUM>` and not found by `match_log`, by any strategy.
- `idle_get`. `session.rs:5` says "sessions idle longer than `SESSION_TTL` are evicted". The
  `templates` handler does not set `last_touch`, so a session that is only read is evicted
  30 minutes after its last ingest, however recently it was read.
- `template_unvalidated`. `template.rs:11-15` says every derived template is validated downstream
  by matching the members of its group and by `is_useful_template`, and discarded if it fails.
  `Profile::build` does neither, and nothing calls `is_useful_template`. When two neighbouring words
  vary, `derive_lex_template` drops the second placeholder but not the blank before it: the
  template of `a x y b` and `a y x b` is `a <*>  b`, its regex matches neither line, and the
  group is reported with slots that have no values.

## 6. Not modelled

- Rendering (`render`, `fmt_slot`, `fmt_num`) and the JSON of the responses: formatting of what
  `Profiles` computes.
- `/health`, routing and extraction by the web framework, the environment variables of
  the limits, reading standard input and printing: no state, no decision the properties tell apart.
- Maskers other than the default instructions, and `extra_delimiters`, which no caller sets.
- More than one fractional digit of a number, and floating point in general: equal idf sums added in another
  order may differ in the last bit.
- The panics of the engine other than the missing wildcard child; `LeafHomes` and `NeverPanics` rule
  out those its own asserts and unwraps could raise.
- Memory growth of sessions and of stale tree nodes: the code promises no bound.
- Text with commas or several varying words in a row: the captures there are modelled, but the
  code says nothing about them that could be checked beyond the third finding.
- Helpers nothing calls (`is_useful_template`, `template_matches_line`), benchmarks and
  the evaluation on public data sets.

## 7. Plan

Done, in this order: the engine and its abstract specification; its proofs; the pipeline;
the sessions and their sweeper; the one-shot service; the two other groupers; templates and
captures, composed with the engine; masking and slot statistics; the two front ends; the
pipeline's panic and its end without shutdown; the proofs of the tree, the pipeline, the sessions and
the server, that the statistical grouper is a miner and keeps its members anchored and neighbours together, that the
full-search grouper is the flat engine, what the front ends store and answer, and of the alignment, the
captures, the summaries and the masked numbers of the templater.

What could come next:

1. The session store with the content of `Requests` in place of batches, so that one module has both
   the interleavings and the limits.
2. Captures with commas, once the code says what they should be.
