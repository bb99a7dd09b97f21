# KernelGate in TLA+

Specifications of the KernelGate endpoint agent (`src/`, C++20) and of its mock
control plane (`backend/main.py`), model-checked with TLC and, for the parts
that matter most, proved with TLAPS. Paths below are relative to the repository
root; `AuditStore.cpp:67` means line 67 of `src/AuditStore.cpp`.

## The system

KernelGate is two short-lived programs and a service.

* The **agent** (`main.cpp`) reads a policy and a file of events, stores every
  event, evaluates it, correlates the suspicious ones by pid into incidents,
  stores those with the rule matches that explain them, and may upload each
  incident.
* The **fanotify program** (`fanotify_demo.cpp`) does the same with file
  accesses that the kernel reports during a watch window, and uploads nothing.
* The **control plane** keeps the uploaded incidents in a list in memory.

Both programs are single-threaded. Concurrency comes from outside: several runs
may use one SQLite file (both programs take `--db`), the control plane handles
requests in a thread pool and after the client has given up, a run may be
killed, or refused by SQLite, between any two of its statements, and the kernel
and the observed processes go on while a capture reads about them.

### Components

| Component | State | Operations | What makes it correct |
|---|---|---|---|
| Run of the agent, `runDefaultPipeline` | run id, loaded events, results so far, position in the incident loop | run id, reset, open and initialize, policy, events, one insert per event, correlate, inserts and upload per incident | what is reported is on record; what is on record is never without its grounds; exit 0 means everything is stored; every run ends |
| Run of the fanotify program | the same | the same, with the policy before the store | the same |
| `AuditStore` | the open file, its tables and rows, progress of `initialize` | open, `CREATE TABLE IF NOT EXISTS` × 3, `ensureColumnExists` × 3, three inserts, close | after `initialize` all tables have `run_id`, whatever old or half-migrated file was there and whoever migrates at the same time |
| `RiskEvaluator` | the policy | `evaluate` | score and verdict follow from the matches; the stored row explains them |
| `Correlator` | open incident per pid | `correlate` | nothing lost, invented or mixed up; score equals the points of the matches; numbering; verdict not below that of any event |
| `Incident` | a record | `buildChainSummary` | the documented demo chain |
| Run identity | clock, time zone | `generateRunId` | rows of one id belong to one run (they need not: see Findings) |
| `UemClient` | one request | `uploadIncident`, 5 s timeout, no retry | "uploaded" can be believed, nothing is listed twice, the wait ends |
| Control plane | `received_incidents` | `/incident`, `/incidents`, `/reset`, `/fleet/summary` | answers are consistent although a handler is not atomic |
| `FileTelemetry` | events captured so far, the notification group | `captureFileEvents` | a bounded number of events, each access once and in order, no loss without a reason or before the end, descriptors closed, the watch ends |
| `ProcEnricher` | the call of `inspectPid` | open, read and readlink on `/proc` | the identity is never older than the access, and complete if nothing happened and the kernel refused nothing |
| Policy and event loaders | events loaded so far | JSON decoding and encoding, all or nothing | what was loaded says what the file says; what is written can be read |
| Command lines, `--inspect-pid` | position, options | `parseArgs`, the choice of the mode, the reset | options are as meant; nothing is removed unasked |
| eBPF and shell demos | none | printing | not about state |

They interact by calls within a run, by the SQLite file between runs, and by
HTTP between a run and the control plane. There are no callbacks and no shared
memory except the control plane's list.

### What is hard

Nothing in a run is a transaction: every insert and every DDL statement commits
by itself, so the order of the calls in `runDefaultPipeline` is the only thing
that keeps the database meaningful after a crash. The migration inspects a table
and alters it in two steps, without a lock. `--reset-db` unlinks a path that
another run may have open. Upload outcomes are uncertain: a timeout says nothing
about whether the request was received. Run ids have the resolution of a second.
A capture learns of an access after it: the file may have another name by then,
the process may run another program or be gone and its pid be given away, and the
kernel's queue may have overflowed. Scores, pids and ports are `int`s that JSON
numbers need not fit into.
The hazards, each with its line and the properties aimed at it, are listed in
`PROJECT.json`.

## Modules

```
RiskEvaluator ──┬─► Loaders ─► Startup ─► MCStartup
                │                 └─► StartupProofs
                ├─► RiskEvaluatorProofs ─► (CorrelatorProofs, StartupProofs)
                ├─► Correlator ─► MCCorrelator
                │          └─► CorrelatorProofs
Incidents ──────┤
                └─► Agent ─► AgentLedger ─► MCAgent
AuditStore ──┬────►   │           │ (implements EvidenceLedger and AuditSessions)
             │        │           └─► AgentLedgerProofs
             │        └─► AgentProofs
UemClient ───┼────► (Agent)
             └─► AuditSessions ─► MCAuditSessions
                        └─► AuditSessionsProofs (used by AgentLedgerProofs)
ProcEnricher ─► FanotifyCapture ─► MCFanotifyCapture
                        │ (implements AccessReport)
                        └─► FanotifyCaptureProofs
UemBackend ─► MCUemBackend
           └─► UemBackendProofs
```

* **`RiskEvaluator`** is the pure evaluation as operators. A text is a sequence
  of tokens, enough for `startsWith` and `containsText` to mean what they do;
  the reason text of a match is the position of the pattern it would quote. An
  UNKNOWN event has no matcher, as in the code's `default` branch. Sums wrap at
  the width of `int` (`Wrap`, constant `IntMax`). It also has what the row of an
  event keeps of it: `insertRawEvent` writes an absent optional as `""` or −1 and
  binds texts by `c_str()`, which ends them at their first NUL (`BoundText`).
* **`Loaders`** is the JSON decoding and encoding of events and policies as
  operators: for each a condition under which the code throws and a value
  otherwise. A JSON value is a pair of a kind and what it holds; which values
  there are is the constant `Json`, of which the module only assumes that texts
  hold tokens, numbers integers, and arrays and objects other values of `Json`. What the JSON library does (any number or boolean converts to `int`
  and keeps its low bits, `value` rejects null) is modelled from its use here.
* **`Startup`** is what both programs do before there is anything to work on: one
  action per argument, the choice between help, inspection and the pipeline, the
  reset, and the loading of the policy and of one event at a time. An exception
  anywhere loses what was loaded.
* **`Incidents`** defines what `correlate` computes without its loops: which
  pids get an incident, from which events, with which rule matches, which score
  and number.
* **`Correlator`** is the event loop of the pipeline and the two loops of
  `correlate`, one iteration per action. `by_pid` is `incidents_by_pid`. Its
  properties compare it with `Incidents` after every iteration, not only at the
  end.
* **`AuditStore`** has the path, the files behind it, their schemas and rows and,
  per run, the open handle and the progress of `initialize`. A file is named by
  the run that created it. One action is one SQL statement; `ensureColumnExists`
  is two, and its loop, which ends on anything but `SQLITE_ROW`, may find the
  column missing because the database was busy.
* **`AuditSessions`** composes stores of several runs on one path: reset,
  constructor, `initialize`, inserts, close, and a stop at any moment. It is
  where the migration race is studied; that whole runs use their stores like this
  is the refinement `ImplementsSessions` of module `AgentLedger`.
* **`UemClient`** is one request: sending it, the control plane's handling at any
  later time, the response in time, the timeout, and resets of the list. Its
  state is per report, so requests overtake each other freely.
* **`Agent`** composes all of it: any number of runs of either program, each with
  its program counter (`pc`, the stages of `runDefaultPipeline`), on one path and
  one control plane. An action is the code up to and including one call that
  others can observe; what only the run itself sees (evaluation, correlation) is
  part of the action before or after it, and given by `Incidents`. The rule
  matches of an incident are inserted one at a time in their order.
* **`EvidenceLedger`** is the abstract specification of the agent, as seen by
  who reads the database and the control plane's list: a ledger on which runs note
  events in order, then open incidents in order of pid, each followed by its
  evidence in order and at most one report. It knows no stages, files, schemas,
  failures or clocks. **`AgentLedger`** is the refinement mapping from `Agent`:
  what is on record is read off the rows of all files, the linked and unlinked
  ones. Its second mapping, to `AuditSessions`, keeps the store as it is and the
  rows of `raw_events`, and reads off stage and handle where a run is with its
  store (`SessionOf`).
* **`ProcEnricher`** is `inspectPid`, one action per open, read or readlink,
  beside processes that execute, exit, are reaped and whose pids are used again.
  What a process is while it runs one program is an image, and the images of a
  pid are numbered, so that "older" and "newer" are `<`. Any of the calls may fail
  for a reason of its own (no descriptor left, no permission, a thread of the
  kernel without an executable): `refused` remembers that the kernel refused what was there.
* **`FanotifyCapture`** is `captureFileEvents`: the group, the loop with its two
  conditions, poll, read, the batch with its descriptors, and each inspection;
  beside the kernel's queue, which merges and drops, and files that get other
  names. `excused` collects the accesses that the code may miss: dropped by the
  kernel, or to a file that had another name at some time before it was handled.
  Closing the group, at the end of the loop or before a throw, empties the queue;
  `discarded` is what was in it. A throw also loses the events captured so far.
* **`AccessReport`** is what a capture promises to its caller: the report lists
  accesses in their order, one more at a time and up to a bound, goes past an
  access only if that one may be missing, and nothing listed is called missing
  afterwards. When it is complete, accesses later than all on the list may be
  missing too, and a capture that fails lists none. It knows no queue, buffer,
  names or deadline.
* **`UemBackend`** is the control plane from inside: one action per operation on
  the shared list, as threads of the pool interleave them under the interpreter
  lock. Iterating over the list goes by position, as Python's list iterator
  does, and sees what is appended or cleared meanwhile.
* **`MC…`** modules give the constants values; the `.cfg` files pick a scenario.

A definition marked *Mutant* beside the one it alters is a plausible mistake in
that code. It is used by no specification; it exists to show that the property
named for it in `PROJECT.json` would notice.

## Runs

| Run | Configuration | Checks |
|---|---|---|
| `correlator` | five policies (shipped; two rules per event with thresholds met exactly; unordered thresholds with a worthless and an unusable rule; negative points and an empty pattern; points whose sums overflow in an event, an incident or only the run) × all files of up to three of twelve events, two with a NUL in a text, three pids | grouping, scores, the aggregate, numbers, verdicts against `Incidents`; stored rows explain the matches; the demo of README.md:102-115 |
| `audit_sessions` | three runs, one with `--reset-db`, five prior databases, one row each, symmetry over the two that are alike | `InitializedIsCurrent`, `RaceHasAWinner`, `RowsStayTogether` |
| `agent` | an uploading agent and a resetting fanotify program on one path, prior file half migrated or absent, the clock advances at most once | `EvidenceBeforeReport`, `NoOrphanRows`, `OnlyLastIncidentPartial`, `DoneMeansComplete`, `NoDoubleReport`, `UploadedWasReceived`, `JoinExplainsIncident`; the action properties `OnlyResetDropsRows` and `EveryStepCounts`; the refinement `ImplementsSessions` |
| `agent_liveness` | two uploading agents, one of which resets, the clock stands still | `EveryRunEnds`; the refinement `ImplementsLedger` |
| `backend_reset` | three threads, three uploads, all requests | `SummaryCountsWhatStayed`; `UndisturbedSummaryAddsUp`, `UndisturbedListHasItsCount` of handlers that no reset disturbed |
| `fanotify_capture` | two files, one process, `max_events` 2, two notifications per read and in the queue, up to four accesses, renames, every call may fail | `CapturedIsBounded`, `NoDescriptorLeak`, `EachReportedOnce`, `OnlyExcusedAreMissing`; the refinement `ImplementsAccessReport` |
| `fanotify_identity` | one file, a pid with up to three images and one that is reported as 0, two accesses, every call may fail, fairness | `IdentityIsNotStale`, `StableProcessIsIdentified`, `WatchEnds` |
| `startup` | both programs with all command lines of up to four of nine arguments; ten policy files × 160 event files of up to two of twelve items, good and bad; `Json` is these files and what is in them | `OptionsAreMeant`, `OnlyMeantIsRemoved`, `LoadedSaysWhatFilesSay`, `RoundTrip`, `PatternsAreArmed` |
| `agent_run_ids`, `agent_success`, `backend_summary`, `fanotify_max_events` | as above | one claim of the documentation each, violated (Findings) |

### Bounds, and why they suffice

* *Runs: two or three.* What a run can do to another goes through the path, the
  schema of a file and the list of the control plane; two runs show every pair
  of steps, and the migration is checked with three because one run can undo the
  path between two others. The theorems hold for any number.
* *Events: up to three per file, two per run.* They are enough for two processes,
  two events of one process, two rules on one event, an event no rule names, and
  the pid −1 of an event without one.
* *`MaxClock` = 1* lets two runs start in the same second or not. `MaxRows` = 1
  row per session: a second row would go the same way.
* *`IntMax` = 8191* keeps the pids and ports of the examples as they are and lets
  two matches of one event, or events of one incident, overflow. Nothing in the
  code depends on the width but the wrapping.
* *Two notifications per read and a queue of two* show a full batch, a partial
  one, an overflow, and an overflow followed by more accesses; `max_events` = 2
  is reached exactly, or passed within a batch; a fourth access can still be queued, and lost, when the loop
  ends. Three images are what the three
  reads of `/proc` can tell apart; two accesses let a process be looked up twice. The bounds are theorems for any limits.
* *Four arguments* hold two flags with operands, or a flag whose operand looks
  like a flag between two others.
* *Three uploads* for the control plane: fewer would not let an append, a reset
  and an iteration meet in one summary.

### Fairness

`agent_liveness` assumes `WF(Step(x) \/ Throw(x))` for every run: a scheduled
process goes on to its next call, which returns or fails. This is justified
because no call of a run waits for another run (no busy timeout is set, so
SQLite refuses at once) and an upload waits at most 5 seconds
(`CURLOPT_TIMEOUT`, UemClient.cpp:80), which is the action `GiveUp`. Nothing is
assumed of the control plane, of crashes or of the clock. Removing the timeout
makes the property fail, which is its mutant.

`fanotify_identity` assumes that the capture goes on to its next call, which is
justified because `poll` returns after half a second and the descriptor is
non-blocking (`FAN_NONBLOCK`, FileTelemetry.cpp:29, 70), and that time passes
until the deadline. Nothing is assumed of accesses and processes.

### Findings

Four statements of the repository are not what the code does:

1. `README.md:41` promises "`run_id` grouping"; ids are local time in seconds,
   so two runs can share one (`RunContext.cpp:22`). The query that joins rule
   matches to incidents then mixes them; without a shared id it is exact, which
   is the invariant `JoinExplainsIncident`.
2. The agent prints "UEM upload completed successfully" and returns 0 when every
   upload has failed (`main.cpp:282-303`).
3. `/fleet/summary` counts the high risks and reads the total later, so with a
   `/reset` in between it reports more high risks than incidents
   (`main.py:80-88`). Without resets the order of the two reads makes it right
   (`UndisturbedSummaryAddsUp`), and reading them the other way round would not be.
4. The capture's `int max_events = 5` (`include/FileTelemetry.hpp:14`) is only
   compared before each read (`FileTelemetry.cpp:66-69`): one read full of events
   goes past it, up to `max_events - 1` and one read (`CapturedIsBounded`).

Not a disagreement with any text, but worth knowing: a pattern list in a policy
that is no array, say `"restricted_ports": 4444`, is silently taken as empty
(`PolicyLoader.cpp:16, 33`), so that the rule never matches; numbers that do
not fit into an `int` become others without an error, so that an event can match a
port nobody listed (`PatternsAreArmed` says that this is the only way); a text is
stored up to its first NUL, so that a row may not show why its event matched
(`AuditStore.cpp:177-188`); and accesses still queued when `max_events` or the deadline
is reached are lost with the group (`FileTelemetry.cpp:134`).

## Proofs

The prover shows for all values of the constants what the runs show for some.

**`AuditSessionsProofs`** (any number of runs, any old schemas): types;
`InitializedIsCurrent`, by an invariant that says which tables of the open file
exist and are current at each position of `initialize` – schemas only move from
absent or legacy to current, so no other run can take that back; `RaceHasAWinner`,
from the observation that a column found missing and then present was added by a
run on the same file that has moved past it;
and `RowsStayTogether`.

**`AgentProofs`** (any runs of either program, any events, rules and pids):

* `TypeInv` strengthens `TypeOK` with what a run has opened and recorded.
* `RunInv(x)` says for one run, stage by stage, which of its rows exist: nothing
  about incidents before correlation; afterwards everything before the current
  incident is complete and nothing after it has been begun (`Progress`,
  `AtStage`); and, at every stage including the failed and crashed ones, that
  reports are backed by complete incidents, rule matches have incidents, and
  incidents are in order. The last part alone is not inductive: the stages are
  needed to know that the current incident is complete when it is uploaded.
* Each action of the run keeps `RunInv` (one lemma each), and `StepIsLocal` shows
  that steps of other runs do not touch it, because rows and requests carry the
  name of their run.
* `UemInv` adds the control plane: what is or was listed has been handled, and by
  `Progress` a run posts only what it never requested, hence no report is listed
  twice and "uploaded" implies listed.
* `OnlyResetDropsRows` follows from `RowSteps`, which says what a step can do to
  the path and the rows, and from every row being in a file.
* `JoinExplainsIncident` follows from `OwnFile`, that a run's rows are in the one
  file it has open, and from incident numbers being injective (`NumbersDiffer`):
  the number of a pid is a cardinality, strictly larger for a larger pid.
* `RunsAlwaysProgress` is about `EveryStepCounts`: each step of a run, whether
  it works, fails or crashes, makes `Work`, what the run has left to do, smaller in the
  lexicographic order of its four parts (stages, items of the stage, calls for the
  item in hand, rule matches of the incident), and no other step changes it. The measure is
  numbers in every reachable state (`WorkIsAlwaysCounted`, from `AgentInv` and the
  finiteness of a run's pids and rule matches), and the lexicographic order of four
  numbers is well-founded (the lemma `LessEndsSomewhere`, a fact about the order
  alone). So a run cannot go on for ever, an upload that fails is
  not tried again, and all that `EveryRunEnds` needs besides is that a run which is not
  over can take a step, and fairness.

**`AgentLedgerProofs`** shows `AgentImplementsLedger`, that every behaviour of
`Agent` is one of `EvidenceLedger` under the mapping. It rests on the invariants of
`AgentProofs` and on one more, `RowInv`, that every row is of a known table, run
and key (`AgentRows`). A step of a run changes at most one of the three sets of
records, which the lemmas of the inserting actions turn into `Note`,
`OpenIncident` or `Prove`; `StartUpload` is `Send`, the control plane's handling
`List` or `Drop`, a reset of its list `Forget`, and everything else – schemas,
resets of the database, stages, failures, the clock – is a stutter.

The same module shows `AgentImplementsSessions`: every behaviour of `Agent` is
one of `AuditSessions`. It needs `StoreInv` (`AgentStores`), that a run has no file
open before the reset and that from the event file on, or in the agent from the
policy on, `initialize` has returned; without it a run could return without an
initialized store. The end of the last incident's loop is `Close`, a throw or a
kill at any stage is `Stop`, and stages that the store does not see stutter.
With the theorems of `AuditSessionsProofs`, used under the mapping, whole
runs then inherit what is proved of stores alone (`AgentStoresAreCurrent`): once
`initialize` has returned, no insert can meet a table without `run_id`, and the
`raw_events` rows of a run are one per recorded event, in one file. The proof must
show that the assumptions of `AuditSessions` hold under the mapping, and that the
two instances of it, one of the module and one of its proofs, are the same.

**`FanotifyCaptureProofs`** (any limits, files, pids, any number of accesses):
types; `CapturedIsBounded`, by following which length can go with which stage of
the loop; `NoDescriptorLeak`, because what is open is in the batch; and
`IdentityIsNotStale` with `StableProcessIsIdentified`, whose invariant says of
the call in progress which of its fields are known and that the access, the
fields read so far and the process as it is now are in order of age, and that a field
which could have been read and was not has left `refused` behind.
`EachReportedOnce` follows from `OrderInv`: what is reported, in the buffer and
in the queue are three stretches of the kernel's numbering, one after the other.
`OnlyExcusedAreMissing` follows from it and `ExcuseInv`, which accounts for
every access and adds that what the loop will filter, because the file has
another name by now, is excused already; without that part the step that drops
it could not be justified; and from `CutInv`, that only a closed group has
discarded anything, at the end of the loop with an empty batch and one of its two
conditions false. `CaptureImplementsAccessReport` is the refinement: a
batch's next event extends the report by an access that is younger than all
in it, with every one before it listed or excused (`NumbersAhead`, from `OrderInv`
and `ExcuseInv`), the end of the loop is `Complete` with the discarded queue as what
is cut off, a throw is `Fail`, and every other step is an access, an excuse, or a stutter.

**`RiskEvaluatorProofs`** is the library of `CorrelatorProofs` and `StartupProofs`. The models
sum with `SumFunctionOnSet`, which is a fold over a recursive function on
subsets. The induction theorems of the standard library take an operator as a
parameter and cannot be used; instead, an induction is stated over the *set* of
the arguments for which a fact holds (`Induction`, `FiniteInduction`), which
rests on every set of naturals having a least element, and that on a
well-foundedness theorem for finite sets. From there: the recursive function exists
(`SolutionExists`), any element may be taken out of a sum or added to it, and
sums over renamed, concatenated and agreeing sequences are equal. Then the
evaluator: `Wrap` is the one residue that fits, so partial overflows do not
matter to the final value; the loop over the rules collects each rule that
matches once, in order; the points of the matches add up. `EvaluationIsExact`
states it for the reader: what `evaluate` returns are exactly the rules that the
event hits, each with the first pattern hit. Its first part is what `Agent`
assumes of an evaluation (`ResultsAreMatches`).

**`CorrelatorProofs`** (any policies, any files of events of any length, any
width): the six properties of the run `correlator` but the demo.
`CorrelatorInv` says how far each of the three loops is: what is evaluated is
the results of a prefix of the events, what is open is what module `Incidents`
defines of the first `folded` of these, the score of an open incident is
its events' points in an `int` (`Balanced`), and what is numbered is an initial part of the
open incidents by pid, each with its own number and verdict. That a verdict is
not below that of its events needs that points are not negative and their sum
fits, and does not need the thresholds to be in order. That stored rows explain
the matches rests on two facts: a text without NUL is stored whole, and the stored
part of any text is a prefix of it, so what an execution's row starts with or contains, the
event did too (`StoredExecHits`); a recorded match is found by its rule
(`MatchedRulesAreHit` of `RiskEvaluatorProofs`).

**`UemBackendProofs`** (any number of threads, any finite set of uploads):
`BackendInv` adds to the three properties of the control plane's answers what an
iteration has counted, for which its position is not enough, since the list is
cleared and grows again under it: some set of uploads, each counted once, that
has no member ahead of the iteration and with what is ahead contains everything
that stayed listed (`Tallied`). `InStep` says that a handler which no reset
disturbed is never ahead of the list.

**`StartupProofs`** (any command lines, any files): all six properties of the
run `startup`.

* `ArgsInv` makes `OptionsAreMeant` inductive: the loop stands at a flag, and a
  numeric option is a number. Which arguments are flags is given by an equation
  for the function `IsFlag`, for which a solution must be shown to exist
  (`FlagsExist`), by induction over the length.
* `ResetInv` says at which stages something can have been removed, and that the
  choice of the mode came before (`OnlyMeantIsRemoved`).
* `LoadInv` says that what is loaded is what a prefix of the items and the
  policy file decode to, and that none of these throws. With it, `RoundTrip`,
  `LoadedSaysWhatFilesSay` and `PatternsAreArmed` are about operators only. A decoded
  event or policy is typed (`EventIsTyped`, `PolicyIsTyped`); what is written of
  a typed one has known members (`EventWritten`, `RuleWritten`, `PolicyWritten`);
  reading them gives it back (`EventRoundTrip`, `PolicyRoundTrip`), because its
  numbers fit already; and a member of the file that fits is repeated. For
  `PatternsAreArmed` both directions are shown by type of event (`FilesAreArmed`,
  `PortsAreArmed`): the loaded list has exactly the file's patterns, and two ports that are
  integers and fit are equal after loading only if they were before.

The theorems are listed in `PROJECT.json`. They rest on the named assumptions of
the modules only, which TLC evaluates on the runs:

* names of files differ (`NamesDiffer`), prior schemas are schemas
  (`PriorAreSchemas`), reports are pairs of run and pid, pids are integers, events
  are sequences, evaluation yields a sequence of matches (`ResultsAreMatches`), the
  clock's seconds have local times, and the limits of a capture are numbers;
* there are finitely many uploads (`IncidentIsFinite`);
* an `int` has a largest value (`IntMaxIsNatural`), points and thresholds are
  integers, patterns and the texts of events sequences of tokens, and events have
  their fields (`InputsAreTyped`), as the structs of
  `include/Policy.hpp` and `include/Event.hpp` say;
* JSON values are typed (`JsonIsTyped`), files hold such values, arguments are
  texts and each run is of one of the programs (`InputsAreTexts`), an absent
  optional is no text and no number (`NoValueIsNone`), the names of enumerators
  are texts (`CodeTokens`; the prover has no type for literals), and the
  default thresholds fit into an `int` (`DefaultsFit`).

Every invariant and action property of a passing run is the statement of a
theorem, except `DemoScenario`, which is about one policy and one file and which
TLC therefore settles. The three refinements, `ImplementsLedger`,
`ImplementsSessions` and `ImplementsAccessReport`, are proved, too.
Model-checked only are the two liveness properties, `EveryRunEnds` and `WatchEnds`:
the prover has no rule for fairness. What is proved towards the first is that steps of a run
run out. The four runs that find a violation need a
counterexample and no proof.

## Abstractions to know about

* A row is its table and a key; columns other than `run_id` are not modelled
  (`StoredRowsExplainMatches` is about the optional ones).
* Any statement of the store may be refused at any time. This includes what
  SQLite does for real: a lock held by another run, a full disk, or a database
  file that was unlinked while open, which recent versions refuse to write.
* A signed sum that overflows is undefined in C++; the model has what the
  addition of the builds does, which is to wrap. A float that does not fit into an
  `int` is left out. Printing, the payload's layout and the incidents' JSON form,
  which nothing calls, are left out.
* The fields of `/proc/<pid>/status` are read together and are one value. Reading
  a file of a process that is gone since it was opened fails silently, as the
  stream does.
* A capture of module `Agent` may report anything; what it can report is the
  subject of `FanotifyCapture`.
* Building an upload's payload may throw before the request is made: `payload.dump()`
  rejects ill-formed UTF-8, which `--device-id` can carry. `Agent` lets any run throw there,
  whatever its texts are.
* In the row of a `FILE_ACCESS` event a NUL in the path can hide a match or show one that
  was not recorded, since the code compares paths as a whole; `StoredRowsExplainMatches` says nothing of
  that case, and nothing of a match hidden in an execution's row.
* The kernel is assumed to open a descriptor for each notification that is read
  and no overflow; that it fails to (`fd` = `FAN_NOFD` for another reason) is left out.
* The result of a capture that throws is lost, as the vector is; that a run of the
  fanotify program then fails before it stores any event is in `Agent`.
* Both programs have a database of their own by default; the runs that mix them
  on one path stand for runs with the same `--db`.

## Plan

Done: the modules above, their runs, and the proof of every safety property
and every refinement that a run checks, with the exception of `DemoScenario`.

Not modelled: the eBPF script and the shell scripts, which only start programs or
print; `incidentToJson`, which nothing calls; the build.

Next, in this order:

1. The module `Agent` takes what evaluation yields as a constant, of which it
   assumes what `EvaluationIsExact` proves of `Evaluate`. An instance of it by
   `Evaluate` could say that its stages use exactly what the loops of
   `Correlator` compute.
2. `Startup` composed with the ledger, so that what is on record is traced back
   to the files.
