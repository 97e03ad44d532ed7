# Zhilu in TLA+

Zhilu (知路) turns a goal into a plan: it interviews the user, researches Zhihu,
has a model draft a roadmap, and then keeps the plan while the user edits it,
reports events and discusses it in a chat.  Nothing a model says reaches the
plan unconfirmed, and everything is kept in JSON files by one Node process.

This directory holds TLA+ modules for it: the HTTP handlers with the locks they
take and the files they share; the calls of models and of child processes; the
login and the progress of long requests; and the rules by which plans, research
and schedules are accepted.  With them come the configurations TLC checks and
theorems TLAPS proves.  Lines below are of the
files as named; `index.ts` is `apps/server/src/index.ts`, `repository.ts` its
neighbour.

## 1. Inventory

### Components, their state and their operations

| Component | State | Operations | What makes it correct |
| --- | --- | --- | --- |
| Project handlers (`index.ts`) | `live.busy`, one set of ids for projects and interviews, in memory | edit (PATCH, DELETE, POST nodes), events, replan, diff/apply, live baseline, live evidence, demo research, revise, baseline/apply, chat, chat/apply, chat/discard, GETs | no confirmed change is lost; only what was previewed is confirmed; a draft is of the plan it claims; the lock is always freed |
| Plan store (`repository.ts`) | per project `plan.json`, `commits/`, `pending/`, `baseline-proposals/`, `chat.json`, research snapshots; `interviews/` | one atomic rename per file, `rm`, `readdir` then `readFile` | one line of history; every version has its commit unless a write failed |
| Interview (`interview.ts`, `advanceInterview`) | session file: questions, answers, drafts, status, wish to finish, last failure, project | create, view, draft, answers, next, finish, become a project | saved answers survive everything; budgets; finishing is final; one project |
| Roadmap chat (`roadmap-chat.ts`) | messages and the latest proposal | message (with up to two model calls, one research, one correction), apply, discard | the conversation says what happened to the plan |
| Baseline revision (`baseline-revision.ts`) | the draft it replaces | revise | one draft to confirm; the old id cannot confirm the new draft |
| Plan engine (`packages/plan-engine`) | none (pure) | validatePlan, applyPatch, applyBaselineProposal, createCommit, restoreVersion, calculateImpact, projectView | version check, manual fields kept, hard dependencies acyclic |
| Agent runtime (`packages/agent-runtime`) | none (pure) | createResearchReadyPlan, route and schedule compilation, event replan, evidence aggregation, query policy | dates, capacity and citations at their boundaries |
| Research controller (`research-controller.ts`) | one run's budget, rounds, coverage, deadline | plan, research rounds, supplement | budgets hold, completed work is reported on failure |
| Providers (`zhihu-`, `zhida-`, `roadmapper-provider.ts`) | a child process or HTTP call each | start, timeout, abort, cleanup, settle | settle exactly once; nothing runs on afterwards |
| Operation progress (`operation-progress.ts`, `request-progress.ts`) | map of at most 500 operations, 15 minutes; a page's timer and poll | run, get, prune; poll, answer, stop | an entry tells how its own run ended; polling ends with the request |
| Authentication (`auth.ts`) | session map, single-use OAuth state | start, callback, logout, requireIdentity | a state is used once, in time, by the browser that asked for it |
| M3 replay (`m3-replay.ts`) | output files | one sequential command | (a developer's tool) |
| Python pipeline (`packages/zhihu`) | evidence cache files, call budgets | plan, retrieve, screen, rank, compile | budgets, cache validity |
| Web front end, CloudBase gateway | views; a stateless proxy | | |

### How they interact

A request is a chain of callbacks on one event loop: between two `await`s it
runs alone, at every `await` any other request may run.  Handlers meet in two
places only: the files of the store, and `live.busy`, which a handler asks
(`has`), enters (`add`) and leaves (`delete` in `finally`).  Where the question
and the entry are in one stretch without `await` this is a lock; where they are
not (chat, creation of a project from an interview) it is not quite one.
Providers are called inside the locked section and always end
(`ProviderCall`).  A restart empties `live.busy` and forgets requests; files stay.

### What is hard here

- *Interleaving at awaits.*  Replans, live research and revisions read the plan
  before they hold the lock, call a model for minutes, and look at the version
  again before they save.  Events and demo research hold no lock at all.
- *Check, await, act.*  The chat handler awaits the body between `has` (275)
  and `add` (278); project creation awaits the interview before it asks (229).
- *Several files, no transaction.*  plan, commit and the draft's removal or the
  conversation are written one after the other (302-306, 396-398, 585-586,
  647-648, 249-252); any write can fail and the process can die in between.
- *Every path out.*  Early returns, thrown errors, aborts, failed writes: each
  must free the lock, and only its own.
- *Durable answers.*  Answers are saved before the model is called; retries,
  failures and another tab must not lose or change them.
- *Budgets over time.*  Questions, text questions and attempts are bounded over
  all rounds, not in one of them; so are the queries of a research.
- *One promise, many events.*  Data, exit, close, errors, two or three timers and
  the caller's signal race to settle a call, and a child must not live on unseen.
- *Streams.*  Bytes come in any pieces; what was shown cannot be taken back.
- *Names that come back.*  An OAuth state or an operation's id may be used again
  after it has been spent, evicted or forgotten.
- *Data at its edges.*  Cycles, archived targets, locked dates, short last weeks
  and hours shared by the day, in whatever order plans were changed before.

`PROJECT.json` lists each of these hazards at its line with the properties that
would notice it going wrong.

## 2. Modules

| Module | What it is |
| --- | --- |
| `ProjectServer` | the handlers of one project, its files and its lock |
| `PlanHistory` | what `plan.json` and `commits/` promise together: the abstract specification |
| `Interview` | the handlers of one interview, its session file and its lock |
| `PlanEngine` | the content of a plan, and every patch that may change it |
| `ProviderCall` | what a provider's call promises its handler: the abstract specification |
| `ZhihuProvider`, `ZhidaProvider`, `RoadmapperProvider` | one call of each provider |
| `ResearchEvidence` | what is made of the cards a research returns (functions only) |
| `ResearchRun` | the research controller: rounds, budget, deadline, report |
| `Authentication` | sessions, OAuth states and cookies |
| `OperationProgress` | the tracker of long requests and the page that polls it |
| `RouteCompiler` | what a model's route must look like and the nodes it becomes (functions only) |
| `EventReplan` | a plan's schedule, from the confirmed route through edits and replans |
| `Providers`, `FrontDoor` | one call of whichever provider; login and progress on one clock |
| `MC...` | the instances TLC checks |
| `...Proofs` | theorems about the module of that name |
| `Totals` | the sum over a finite set, which routes and replans count hours with |
| `DataLemmas` | lemmas on numbers, finite sets, sums and sequences that several proofs need |

The modules meet where the code does.  `ProjectServer` takes a draft as given:
`PlanEngine` says what a draft may do to a plan, `RouteCompiler` and
`EventReplan` which drafts of a model are accepted at all.  The handlers wait
for providers: that they get exactly one answer is `ProviderCall`, which
`ResearchRun` and the fairness of the handlers rest on and the three providers
implement.

### ProjectServer

Each request of the constant `Requests` is sent at most once, as one of `Kinds`;
that a client repeats itself is two requests of the same kind.

| In the module | In the code |
| --- | --- |
| `plan` | `plan.json`: `version` and the set of changes applied so far; two plans differ for the properties when these do |
| `commits` | files of `commits/`; the file name is the version, so a second commit of a version overwrites the first |
| `pending`, `proposals` | `pending/` and `baseline-proposals/`, each draft with its id, base version and preview |
| `chat` | the proposal in `chat.json`; messages are left out |
| `busy` | membership of the project in `live.busy` |
| `pc`, `kind`, `target`, `seen`, `hand`, `stale` | where a handler is, what it is, the id its body names, the plan it read, the draft it read or made, the drafts it is about to delete |
| `holders`, `barged`, `faulted` | history, read by properties only (`holders` also says whether a `finally` deletes the entry, which the code knows by its `try` block or `lockedId`) |

An action is the code between two awaits.  Its name is what it ends with: `Acquire` asks
and enters; `CheckChat` and `TakeChat` ask and enter in two steps; `PeekPlan`
reads without the lock (`existingLivePlan`, `getPlan` of events and demo
research); `ReadPlan` reads under it and makes the version check of `applyPatch`
and `applyBaselineProposal`; `Recheck` is a model's answer and the look at the
version after it; `ListProposals` and `LoadProposals` are `readdir` and the
`readFile`s of `getBaselineProposals`, which returns an empty list when a file
has gone; the `Save...` and `Remove...` actions are one file operation each, in
the order of the handler.  `Reject` is every way out before the first write
(400, 404, 409, 422, 499, 5xx), `WriteFails` a file operation that throws,
`Crash` the end of the process.

A model's answer is a draft (one new change of the plan the handler read) or
nothing; validation that rejects it is a `Reject`.  A patch is one change; an
edit's patch is made and applied in one request, so its base version is always
that of the plan it read.

`barged` is the one gap the code leaves: a chat request entered while another
request was inside.  After that nothing is promised, which `server_stale` shows to be
necessary; until then, and on a server without chat requests for ever (theorem
`OnlyChatBarges`), everything below holds.

### Interview

The session is the number of questions asked, those of free text, the answers
(each named by the request that submitted it), the drafts, the status, the wish
to finish, the last failure and the project.  `Generate` is one call of the
model: a round within the budgets, a summary, an answer that is rejected and
retried, or the end of the attempts.  Creation writes the file before it enters
`live.busy` (139-140); as nobody can know the id by then (a history request
that lists the file answers some awaits later), this is one step.

### PlanHistory

The plan grows by one new change at a time; the history only ever records the
plan of the moment.  `ProjectServer` implements it with `history <- commits`
(`KeepsHistory`), checked in `server_serial` and proved as `HistoryIsKept`.

### PlanEngine

A plan is its nodes (type, status, milestone, reason of adjustment, the fields
set by hand), its dependencies and its weekly hours; a change is the list of
operations that `applyPatch` validates and applies.  `Edit`, `Archive` and `Add`
are the user's handlers, `ReportEvent` the rules for events, `ProposeInChat` a
model's proposal with `validateChatProposal`, `Confirm` and `Discard` what
becomes of a draft, `ConfirmBaseline` the one replacement of the whole plan by
the route that research leads to (`pending` is whether the plan's evidence still
says that research is to come).  Requests run one at a time and one draft
waits at a time: their interleaving is `ProjectServer`'s.

- Bodies are constants, `Changes` and `NewNodes`, and may name any field: the
  server does not validate them, and `Object.assign` copies what they bring.  A
  PATCH may rename a node, change its type or replace its `manualFields`; the
  fields it names are marked afterwards.  Of a model's bodies `ChatMay` keeps those
  `roadmap-chat.ts` lets pass.  Values are of their field's type: that the server
  also takes a number for a status is left out.
- `typed` remembers what is the user's: the fields his edits name and those his
  bodies list in `manualFields`.  A list in a body replaces the marks, so what it
  leaves out is his no more, unless the same body names it.  What a new node's
  body says without listing it is not protected by the code (`node.manualFields ??
  []`; the page lists the title only, `App.tsx:178`), and not counted here; a
  model may change it.  DELETE archives without marking the status, so it claims
  nothing.  A baseline replaces all nodes and with them all marks.
- A dependency is known by its ends and kind, which stands for its id.  A chat's
  checks of goal, target date and schedule, and the citations of evidence, are
  left out: they can only refuse more.
- A chat may not archive a task edited by hand (`roadmap-chat.ts:79`), but it may
  set that task's status to archived as long as the status itself is not manual
  (`update_node`); the module has both as the code has.

### The providers

Each event handler is one action, and events come in any order the runtime
allows: data, exit, close, failure to start, timers, the caller's signal.
`ZhihuProvider` reads stderr by atoms (the head and tail of a diagnostic line, a
newline), so that cut, oversized and repeated lines are all there is; killing
the process group succeeds or not (the branch for Windows is that choice too).
`ZhidaProvider` reads frames of pieces of text, with the block of sources and
code fences that must not be shown; any chunk may be the one beyond the limit.
A tag of sources may be cut in two; a fence is one piece, though the code
also holds back the beginning of one (`zhida-provider.ts:130`).  Of an answer that
reports a failure on stdout `ZhihuProvider` keeps the failure and not the
upstream's code in it (`zhihu-provider.ts:230`), so what is said about diagnoses
is said of those from stderr.
`RoadmapperProvider` is a race of the request with one deadline.  A check of
`signal.aborted` right after the listener is added is left out: nothing runs
between the two.

`ProviderCall` is the promise to the handler: it settles once, answers only when
the work ended by itself, and fails while work is running only after telling it
to stop; and it settles.

### ResearchRun and ResearchEvidence

A run is a planner's batch of questions, the requests they become, at most one
supplementary round, a deadline, and the report that is saved however it ends.
Queries have a normal form that several spellings share.  Both evidence
policies are modelled; the server always allows insufficient evidence.  Counts
of attempted searches and cache hits, durations and the renaming of route ids
are left out.

`ReportTellsTheTruth` says what the report's coverage means.  One case is
less than a reader may expect: a strict run measures the coverage of what it has
before it fails with `partial_research` (`research-controller.ts:93-101`), so if the
partial answer was to the last request and all of its evidence suffices, the
report of the failed run is called sufficient.  The test that names this
failure "without claiming complete coverage" (`research-controller.test.ts:147`) has a
second request that was not executed.  The property allows this case and no other;
the server itself never runs strictly.

### Authentication and OperationProgress

A state is named by the session that carries it (one UUID each).  The two
awaits of the callback (token, profile) are one wait.  Requests of a browser and
the cookies they are answered with may overtake one another, so `held` is every
cookie a browser has been given, and a request carries any of them or none.
That is more than one browser can do in most cases, never less.  A login ends the
session of the cookie it carries and no other (`auth.ts:79`): two overlapping
logins leave both states alive, and either may be used, each once.  What a
login or logout has ended is remembered in `dropped`.
`OperationProgress` has both sides of a poll: the page's timer, its
poll on the way, the tracker's map with expiry and eviction, and runs that go on
after their entry is gone.  An entry is the run that made it, as in the code the
map refers to the object the work holds on to.  Texts of steps and the note that
the connection is lost are left out.

### RouteCompiler and EventReplan

Days are counted from the day of the research, hours in hundredths as the code
rounds them.  A plan starts as a confirmed route, is edited and ticked off, and
is replanned after a change of weekly hours, which affects all open tasks.
Proposal and confirmation are one step here; `ProjectServer` has what may happen
between.  Texts, the user's own facts and the comparison of two routes are left
out, as are checkpoints, which plans made from routes do not have.  Of what may
happen to a plan between replans these are left out: tasks that are archived or
added, edits of hours, and the locks left by patches that change nothing.

## 3. What TLC checks

| Run | Instance | Result |
| --- | --- | --- |
| `server_serial` | 4 requests of all kinds but the chat's | types, mutual exclusion, no lost update, confirmations as previewed, linear and complete history, no stale draft saved, one baseline draft, refinement of `PlanHistory`; 182 thousand states |
| `server_chat` | 4 requests: chat, edits, events, replans, confirmations of patches | the chat tells the truth about its proposals, no lost update; 231 thousand states |
| `server_live` | 3 requests, fair | the lock is freed, the history catches up; 113 thousand states |
| `server_stale` | 3 requests, chat and edits, fair | **violated**: an old proposal is applied over an edit |
| `interview` | 4 requests, 3 questions, 2 a round, 1 text, 2 attempts | types, lock, durable answers, budgets, finishing, frozen summary, drafts; 156 thousand states |
| `interview_live` | 3 requests, fair | the session is freed; 57 thousand states |
| `interview_double` | 4 requests | **violated**: one interview becomes two projects |
| `plan_engine` | a milestone, a task and a third id; bodies that name each field; one baseline; 3 versions, chats of 2 operations | plans and previews are sound, agents keep the user's work, the impact is a closure, the view shows each node once; 144 thousand states, 90 seconds |
| `providers` | one call of each provider, fair | leftover processes are reported, a diagnosis is from one line, what is shown stays, each call implements `ProviderCall`; 929 thousand states |
| `research` | 5 cards, 5 queries (2 of them one), 10 batches, 5 packs, both policies | the query budget, the report, the evidence of routes; 6 thousand states |
| `front_door` | 2 browsers; 2 requests and 3 runs | a state is used once, an entry is its runs', polling ends; 1.4 million states |
| `replan` | 3,600 drafts of routes; two plans replanned three times | routes and replans are sound, no sound replan is refused; 21 thousand states, 2 minutes |

**Bounds of the handlers.**  The only unbounded thing in the code is how many requests come.
Every hazard above needs two or three: one that makes a draft, one that
confirms or discards it, one that edits or writes beside them; the fourth lets
two drafts compete or the confirmation be repeated, and adds the request that
runs after a crash.  Three questions in rounds of two let the second
round be cut by the budget (30 and 5 in the code), one text question lets
the second be refused (3 in the code), two attempts give one retry (3 in
the code).  A change or an answer is known by the request that made it, so
nothing else is bounded.  Requests are interchangeable until they choose a
kind, so symmetry is sound for safety; it is off in the liveness runs.

**Bounds of the others.**

- `plan_engine`: the milestone depends on its task, a chat may add a hard
  dependency, one of the task and one of the milestone, so there are chains,
  forks and cycles; three versions let a proposal follow an edit, an edit follow a
  proposal and either follow a baseline, and two operations let one of a proposal
  spoil the other.  The third id is of a node to come, or one to be renamed to.
  One body replaces the marks while it names another field.
- `providers`: one atom of output is within the limit of Zhihu's stdout, two
  chunks within the Roadmapper's; lines of two atoms are whole or oversized, and
  six atoms of stderr hold two diagnostics or one between others.  The texts are all of three
  pieces, where a block of sources is open or not begun, and four that have
  whole, cut, nested and repeated blocks with fences.
- `research`: limits are scaled (8 cards to 3, 6 wanted to 2, 2 per source and 3
  per author to 1, 6 queries to 4) so that each of them binds.
- `front_door`: a state lives 2 ticks of 3 and 4 ids are given out, so that one can
  expire, be ended by another login, overlap with one, and be presented by the
  other browser; 2 entries (500)
  and 3 runs let an id be evicted and run again.  The two components share
  the clock only, so a behaviour looks at one of them.
- `replan`: weeks of 2 days (7), 3 of them (52), at most 3 tasks in one (4).
  A plan of 3 days has a short last week.  Drafts are all weeks, hours and
  dependencies of four tasks and all uses of two cards; replanned plans have two
  tasks that depend on each other, in one week or in two, and the model may move them to any
  day or pair of days, to longer spans and to spans that are no spans.

**Deadlock** is not checked: when all requests have been answered the server
rightly waits; so does a call that is over, a run that has been reported and a plan
whose bound is reached.  That a request inside does not wait for ever is
`LockReleased` and `SessionReleased`; that a call does not is `CallSettles`.

**Fairness.**  `FairSpec` of the handlers lets every request that can take a step take one:
the event loop is a queue, file operations end, provider calls settle
(`CallSettles`), and
a body that does not come is ended by the HTTP server's own time-out.  Nothing
is assumed of clients (`Arrive`) or of crashes.  Of a provider it is assumed
that its call is made and that its timers fire, nothing of the child, the
network or the caller.

### The two disagreements

*An old proposal over a new edit* (`server_stale`).  `docs/ROADMAP_CHAT.md:13`
says that after a direct edit a proposal of an older version cannot be applied.
A chat apply that passes the look at `live.busy` (275) waits for its body (276)
and then enters without looking (278).  If an edit has entered meanwhile, the
chat reads the plan before the edit writes it, finds its proposal current, and
writes the preview over the edited plan; both answer success.  The window is
the time the body takes to arrive.

*Two projects of one interview* (`interview_double`).  Creation reads the
session (229), and then decides by it and by the lock (231-232).  A request
whose read happened before another's last write, and which goes on
after that one's `finally`, passes both.  The window is narrow (a read of a
small file must finish late), and the code allows it.

## 4. What TLAPS proves

Everything is proved for all values of the constants, under the assumptions
named, which TLC evaluates in every run.  Every safety property of the runs that
pass is a theorem.

### The handlers (`ProjectServerProofs`)

For any set `Requests` and any
`Kinds`, from `KindsAssumption` (kinds are those the server knows) and
`NoneAssumption` (the absent record is none of the others).

| Theorem | Says |
| --- | --- |
| `TypeCorrect` | `TypeOK` |
| `LockIsExclusive` | `MutualExclusion` |
| `PlanOnlyGrows` | `NoLostUpdate`: each step of `plan.json` adds one new change to the plan on disk |
| `HistoryIsLinear`, `HistoryIsComplete` | commits and plan are one line of history, with no gap unless a file operation failed |
| `HistoryIsKept` | without the chat's kinds, `Spec` implements `PlanHistory` |
| `ConfirmationIsPreview` | what a confirmation writes is what its draft previewed |
| `DraftsAreCurrent` | a draft of a model call under the lock is saved only while the plan is the one it was made from |
| `OnlyChatBarges` | without the chat's kinds `barged` never happens |
| `BaselineDraftIsOne` | `OneBaselineDraft`: between requests one baseline draft waits at most, unless a file operation failed or demo research ran |
| `ConversationIsTrue` | `ChatTellsTheTruth`: applied proposals are in the plan, discarded ones are not |

**The argument.**  None of the properties is inductive: that the plan on disk is
the one a handler read depends on nobody else being inside, which depends on
which steps are inside, which depends on which kinds get there.  `IInv` has one
layer for each:

1. `Control`: types, which kinds of request reach which step (`KindsInv`), and
   what a request has read by then (`LocalsInv`).
2. `Locking`: the holders are exactly the requests `Inside` their section
   (`HoldersInv`), and there is at most one (`MutualExclusion`).  Two steps make
   this work: `Acquire` is atomic, and every way out releases.
3. `Growth`, until a chat request barges in: every change of the plan belongs
   to a request that is `Spent` (it will make no other), every draft on disk or
   in hand is older than the plan or is the plan with the one change it lacks
   (`Grows`), and a request between its read and its write has seen the plan on
   disk (`SeenInv`).
4. `WritesInv`: the three properties about what is written, which follow from
   the first three step by step but speak of an earlier state.

The key step is `NextPlanGrows`: what `savePlan` writes, in each kind of
request, is the plan on disk and one change it did not have; for a confirmation
because the version check makes the draft's preview that very plan
(`ConfirmedPlan`).  `CompleteInv` extends the invariant for the
complete history, and `HistoryIsKept` maps `SavePlan` to `Publish` and
`SaveCommit` to `Record`: that no other commit of that version is overwritten is
`HistoryLinear`.

`DraftInv` stands on `IInv`.  `OriginInv` says which kinds of request a draft may come from, so
that no patch or baseline ever carries the change of a chat's proposal.
`BaselineInv` says that drafts are one, but for what the request that
is `Replacing` them has still to delete, which it listed (`stale`) or was
named (`target`) while nobody else could add one.  `TalkInv` says that a
request about to write the conversation has the one on disk in hand, and
`SaidInv` that a proposal which is in the plan is called applied, or somebody is
about to call it so (`Applying`).

### The interview (`InterviewProofs`)

For any requests, kinds and budgets: `TypeCorrect`, `LockIsExclusive`
(`SessionLocked`), `AnswersAreSavedFirst`, `BudgetIsKept` (`WithinBudget`),
`DraftsAreOpen` (`DraftsArePending`), `AnswersAreKept`, `FinishingIsFinal`,
`CompleteStays` (`CompleteIsFrozen`): every safety property of the runs that pass.

The session on disk is changed by whole-file writes of what a request read
before a model was called, so `IInv` says of each step between the two what the
request has in hand (`WorkOK`): the session on disk with the drafts, the
answers, the round or the failure that the next write will add.  That needs the
lock (`LockInv`) and that the file is there (`BirthInv`).  One handler writes
what it read without the lock, the one that makes a project; what it has
in hand is still the session on disk because it is complete, and a complete
session changes no more.  From this every step lets the session only grow
(`SessionGrows`, proved with the invariant), which gives the three action
properties.

### The plan engine (`PlanEngineProofs`)

For any ids, bodies, texts, hours, links and baselines, and any first plan that
`validatePlan` accepts (`FirstPlanIsValid`), from `EngineConstants`: the ids are
finitely many, bodies have values of their fields' types, and the absent value is
none of the others.

| Theorem | Says |
| --- | --- |
| `EveryPlanIsSound` | `PlanIsSound`: whatever is saved or previewed has no cycle of dependencies, nothing started too early and no reference to nothing |
| `AgentNeverOverwrites` | `AgentKeepsUserWork`: a confirmed proposal loses no node and no mark and changes no field that is the user's, a chat's nothing of a closed node |
| `ImpactIsAlwaysClosure` | `ImpactIsClosure`: the search of `calculateImpact` finds exactly what depends on the event's nodes |
| `ViewAlwaysShowsEachOnce` | `ViewShowsEachOnce`: the groups of the view are a partition |

**The argument.**  A patch is a sequence of operations, each applied to what the
one before it left: `Steps` is a recursive function over the operations, and
`StepsStay` carries whatever one operation keeps over to all of them.  So it is
enough to say of one operation that it keeps the plan a plan, the
relations within its nodes, the fields set by hand and the closed nodes.  The
walk of `hasCycle` and the search of the impact are recursions over sets that
grow or shrink; `MaximalSubset` (a finite set has a greatest
subset with a given property) gives their end and what they find.
`IInv` has three parts: plans and previews are sound (`PlanIsSound`),
what is the user's is marked (`MarksInv`), and a waiting draft either holds a
rule's operations, which are validated again when they are confirmed, or follows
the version it was made for and keeps what is marked and closed in it
(`DraftInv`).  Without `DraftInv` a confirmation could write anything; without
`MarksInv` the engine's refusal to overwrite marked fields would say nothing
about what is the user's.  Proposals never rename nodes or touch marks (`Narrow`):
for rules by what they are, for models because of `roadmap-chat.ts`'s list of
fields.  A user's edit does both, and `MarksInv` follows it because the fields an
edit names are marked after its body has been assigned.

### The providers (`ProvidersProofs`)

For any limits and texts, from `ProviderLimits`: limits are numbers, a
diagnosis fits into a line that is kept, and the names of outcomes differ.  The
theorems of one provider (`Zhihu...`, `Zhida...`, `Roadmapper...`) speak of its
own specification; those of `Providers` follow, as a call of one leaves the
state of the others alone.

| Theorem | Says |
| --- | --- |
| `ZhihuKeepsItsPromise`, `ZhidaKeepsItsPromise`, `RoadmapperKeepsItsPromise`, `CallsKeepTheirPromise` | every step of a call is a step of `ProviderCall` or none: the safety half of `CallSettles` |
| `LeftoversAreReported` | `LeftoverIsReported`: a call that is over while its child runs has said so |
| `DiagnosesAreFromOneLine` | `DiagnosisIsFromOneLine`: an error carries a diagnosis only if the child wrote one of them, in one whole line |
| `ShownIsAlwaysKept` | `ShownIsKept`: what was shown of an answer is the beginning of what is kept of it |
| `ZhihuTypeCorrect`, `RoadmapperTypeCorrect` | types, and that no stream is kept beyond its limit |

**The argument.**  The invariants say which of the racing parts has won: before
`finish` nothing is settled or killed, a `finish` that waits has killed its child
and settled nothing, any other has settled (Zhihu); a failure is set once the
child was signalled, and a call that is over while its child runs has given up
(Zhida); the side that settles has aborted the other (Roadmapper).

The scanner of stderr is compared with what it has read by an invariant that
splits the atoms read so far at the last newline: what follows is the line in
hand or was thrown away because it was too long, what precedes are
whole lines whose diagnoses were counted.  For the text of Zhida, removing
the sources and looking for a safe prefix are recursive functions over
the pieces; by induction over the pieces, both agree as long as no block of
sources or code has begun, and what has been shown before one began is a prefix
of what remains after it is removed, however the text goes on.

### The front door (`FrontDoorProofs`)

For any browsers, accounts, lifetimes, requests and capacity (`BothParameters`).
`StatesAreUsedOnce`: a state that was used or ended has no session any more, so
no other callback finds it, and a browser has cookies of its own states only.
`EntriesAreTheirRuns` and `PagesGoQuiet`: a run enters the map as the
last of its id, and eviction leaves one place less than the capacity (an
injection of the kept entries into the numbers below it); a page that
has ended has no timer, and a late answer sets none.  `DoorUsesStatesOnce`,
`DoorEntriesAreTheirRuns` and `DoorPagesGoQuiet` are the same of `FrontDoor`.

### The research (`ResearchRunProofs`)

For any planner, any packs that a provider may return, any budget and limits
(`RunConstants`, `EvidenceLimits`): `QueriesAreWithinBudget`
(`QueriesWithinBudget`), `ReportsTellTheTruth` (`ReportTellsTheTruth`),
`EvidenceIsAlwaysSupported` (`EvidenceIsSupported`) and `RunTypeCorrect`.

**The argument.**  `RunInv` has four parts: types (`RunTyped`); which round it
is, and that what was charged to the budget are the queries of the first
scheduled requests, those with a pack and the one that waits for its own
(`Rounds`); that *all* queries that are scheduled are within the budget and
differ (`ScheduleOK`), which the guard of a round establishes and the
supplement must establish again beside the first round's; and that the
report is the one of the packs at hand, sufficient with a partial answer only once
the run is over (`ReportOK`).  `QueriesWithinBudget` is of
what was executed and is not inductive without `ScheduleOK`: executing a
request adds queries that were judged when the round began.

The evidence is a function of the packs: the cards of all packs in turns
(`Interleaved`), the contents in the order they are first seen (`Seen`), and
after each turn what is selected (`Selection`).  Induction over the cards shows
that `Seen` has one card of each content; induction over the turns that the
selection keeps the limits of sources and authors, that it only grows, and that
when it ends early there was room for no other content.  A route is kept with
all its citations, each known by the card that stands for it, and these are
among the cards that serve its request.

### Routes and replans (`EventReplanProofs`)

For any routes the model may propose, any spans it or the user chooses, any days
of events and budgets, from `RouteBounds` and `ScheduleBounds`: what `parseRoute`
leaves of a route (`IsRoute`: weeks counted from 1, hours not negative), dates
are whole days, and hours are counted in parts of `1 / Scale`, a common multiple of the
lengths a task that is replanned can have.  The last stands for the exact
division of the code's numbers, which tolerate a rounding of a millionth.

| Theorem | Says |
| --- | --- |
| `PlanTypeCorrect` | `TypeOK`: the plan has the nodes of its accepted route, in their milestones, and every span is a span |
| `RoutesAreSound` | `RouteIsSound`: an accepted route is in an order in which it can be done, and fits its weeks and milestones |
| `ReplansAreSound` | `ReplanIsSound`: a confirmed replan leaves alone what is fixed and is sound day by day |
| `NoSoundReplanIsRefused` | `NoSoundReplanRefused`: the compiler refuses none that is sound |

**The argument.**  `Order` is the loop of `parseRoute` that takes the first ready
task of the earliest week.  By induction over the turns it is a queue
(`OrderIsQueue`): what it holds are different tasks, each after what it depends
on, and never a ready task of an earlier week is left.  That the weeks never
go back (`QueueGoesWeekByWeek`) is not inductive by itself, since a task that becomes
ready late might belong to an earlier week; it needs that no task depends on one of
a later week, and takes the least counterexample.  The hours of a week are
summed by the code over places of the list and by the property over nodes that
start on a day: both are one sum under a renaming.

A replan is compared with `Sound` clause by clause.  Both ends of a milestone are
the hull of its tasks, that is the least and the greatest of their days
(`StoneAroundTasks`).  The code's comparison of two spans says the same as that of
all their days (`TurnIs`).  The code multiplies a task's hours by an overlap, the
property adds the days of a week one by one; shares divide without rest
(`SharesAdd`), and the two sums are the rows and the columns of one table (`WeekWorkIs`).
`CompilesIs` and `SoundIs` bring both to the same three parts, so one equivalence
(`CompiledIsSound`, `SoundMoves`, `SoundCompiles`) gives the two theorems.  They
need `TypeOK` of the plan *before* the replan: after edits
a milestone need not surround its tasks, and the proof uses no more than that the
plan has its route's nodes and spans that are not upside down.

### The lemmas on data (`DataLemmas`)

The induction theorems of the library take an operator as a parameter.  Those
here take a set in its place: `SegmentInduction` is induction over
`0 .. n` for `{k : ...}`, and `RecursionExists` says that a function defined by
`f[k] == IF k = 0 THEN a ELSE ... f[k - 1] ...` exists and satisfies its equation,
given the steps as a function on a set of results.  This is why the modules that
are proved about use recursive functions where the code has a loop.  The rest is
about sums over finite sets (`Total` satisfies its equation, does not depend on the
order, splits, and may be renamed or exchanged with another sum) and
about sequences: places of a concatenation, `FlattenSeq`, the set of a sequence's
elements, and the first among the greatest of a finite set of numbers.

### Only model-checked

- Liveness (`LockReleased`, `HistoryCatchesUp`, `SessionReleased`, and of
  `CallSettles` that a call settles), which under fairness is out of the prover's
  reach.
- The two properties that are violated.

## 5. What is not modelled

- The demo project, which the first reader who misses `plan.json` creates
  (`repository.ts:82-90`): two first readers may both write it.
- `GET /api/projects/:id`, which reads four files one after the other and may
  show drafts of another version than the plan; it changes nothing, and a
  confirmation checks versions again.
- The texts of plans, research, prompts and messages, and how a model's JSON is
  parsed: an answer that has not the right shape is a rejection.
- Several processes: the repository's README says one instance with one
  writable version, and `live.busy` is in memory.
- Accounts: each has its own directory and its own ids.
- `restoreVersion` of the plan engine, which no handler calls.  Its patch need not be
  accepted once a baseline has replaced nodes and evidence.
- The Python pipeline and its evidence cache: one child process per request that
  works in sequence; the server sees of it what `ZhihuProvider` models.
- M3 replay and the gateway, which share no state with the server; of the front end only the
  polling is modelled, otherwise it is any client that names drafts it has seen.

## 6. Plan

Done: the handlers and the plan store, the interview, the plan engine, the
providers and the research that calls them, login and progress, routes and
replans, and the theorems above.  What would come next:

1. The call budget and the evidence cache of the Python pipeline (atomic
   replacement, time to live, a reader beside a writer).
2. The lazy creation of the demo project beside a first edit.
3. The schedule and target-date checks of a chat's proposal, with
   `RouteCompiler`'s calendar.
4. Composition of `ResearchRun` with the handlers: the saved snapshot and report
   of a run that fails beside a running chat.
