# Vanta Deep Research API: a TLA+ development

Vanta takes a research question over HTTP, queues it, lets a worker search,
read and write in rounds with the help of a language model, and stores a report
with citations. This directory holds specifications of that system, the TLC
configurations that check them, and proofs that TLAPS checks. Every definition
is translated from the source; `PROJECT.json` maps each one to its lines.

## 1. Inventory

| Part | State it keeps | Operations | What is hard about it |
|---|---|---|---|
| Jobs (`api/routes/research.py`, `core/queue`) | rows `research_jobs`, `reports`, `usage_records`; arq's message | submit, cancel, run, publish, fail, fire webhook | API and worker write the same row under READ COMMITTED; arq runs a job again after a restart; timeouts raise `CancelledError` |
| Research engine (`core/research/engine.py`, `planning/`) | `ResearchState`: plan, round, findings, queries | plan, coordinate, search, draft, report progress, stop | five ways to stop, cancellation seen only between rounds, answers of any shape |
| Inside a round (`process_url`, `LLMClient`, `MemoryStore`) | a semaphore, the prompt cache, the token totals | fetch, trust, recall, extract, gather | concurrent tasks over one cache without a lock; pages that fail alone |
| Report pipeline (`agents/synthesizer` to `quality/gate.py`) | `ReportOutput`: body, citations, warnings, status | synthesize, verify claims, verify citations, edit, gate | each stage fails alone; three numberings of sources |
| LLM gateway (`core/llm/gateway.py`) | attempt, reservation token | complete, with retries | eight outcomes of a call, cancellation at any await |
| Rate limiter (`core/llm/rate_limiter.py`) | Redis counters and windows | reserve, release, cool down | scripts are atomic, the rest is not; keys expire during calls |
| Circuit breaker (`core/llm/circuit_breaker.py`) | state per provider and credential | is_open, record_success, record_failure | calls that were begun in one state report in another |
| Event stream, poll, pages of sources | last event; cursor | read the job, count sources, send; next page | several SELECTs over changing rows; filters on what is sent |
| Webhooks (`core/webhooks`, `deliver_webhook_job`) | arq messages, dedup ids | fire, post, try again | partial firing, crashes between post and retry |
| Agents for search, extraction, validation, contradiction, challenge | none of their own | one LLM call each | parsing whatever a model writes |
| Job policy (`core/sentinel/policy.py`) | none | admit or refuse a request | a cap that only looks upwards |
| Research console (`frontend/.../ResearchConsole.tsx`) | current job, its interval, the report shown | launch, poll, show, cancel, reset | handlers await; answers outlive their interval; one handle for all intervals |
| Budget, credentials, auth, audit log, export, chat, other pages, CLI output, plugins, deployment | none that others wait for | | not modelled, see section 7 |

How they interact: `POST /research` commits the row and enqueues the message;
the worker's `run_research_job` calls `run_research`, which calls back
`on_progress` after each round and the gateway (through `LLMClient`) for every
step of every agent; the final transaction writes the report, the bill and the
status; `fire_webhook` enqueues one delivery for each endpoint. `DELETE` only
writes the row; the callback notices it. Readers see the rows and nothing else;
the console is one of them, and submits and cancels as well.

What makes each part correct: *jobs* - one report, one bill, one verdict, and an
end; *engine* - it ends, reads a page once, and reports what it stored; *rounds* -
concurrency changes neither findings nor bill;
*pipeline* - status, warnings, citations and text agree; *gateway and limiter* -
limits hold, slots come back, every call ends; *circuits* - open means closed to
calls for a while; *followers* - a whole, consistent picture, and an end;
*webhooks* - the same verdict for all, all attempts made, none beyond them;
*console* - it shows the current job, stops when that ends, and polls once.

## 2. Modules

    JobStatus            the statuses
    JobRecord            abstract: what the rows of a job promise
      JobLifecycle         transactions, arq, faults; implements JobRecord
        JobLifecycleProofs   theorems
      JobView              stream, poll and pages, over JobRecord's rows
    WebhookDelivery      deliveries and their attempts
      JobClients           JobRecord's worker with JobView and WebhookDelivery
        JobClientsProofs     theorems
    ReportPipeline       findings to report
      ReportPipelineProofs theorems
      ResearchEngine       plan and search loop, then ReportPipeline
        ResearchEngineProofs theorems, from those of the pipeline
    SearchRound          abstract: what the search of a round promises
      PageRound            its concurrent tasks; implements SearchRound
        PageRoundProofs      theorems
    Console              the page of the frontend
      ConsoleProofs        theorems
    RateLimiter          Redis keys and scripts
    CircuitBreaker       one circuit
      Gateway              calls through both, with retries and cancellation
        GatewayProofs        theorems

`MC...` modules instantiate them for TLC. A definition named `X_Y` is a mutated
form of `X`, a bug the code could have; no specification uses it.

**JobLifecycle.** `status`, `finished`, `report`, `usage` are the rows; a report
is named by the execution that wrote it. Every transaction is a read of the row
and a commit with anything in between. `Assign` is SQLAlchemy's rule that an
unchanged value is not written. `pc` is the worker's place in
`run_research_job`; `Raise` goes to its `except` clause, whose own transaction
may collide with an existing bill and be undone as a whole. `Timeout` leaves by
`CancelledError` past every handler; `Restart` makes arq deliver again, at most
`MaxTries` times. `Faults` chooses what may go wrong. API and worker overwrite each
other in several ways, all in the model: a cancellation that read the job while it was
active commits over the verdict, one that reads `completed_with_warnings` does so at any
time later (`ApiFinal`), the worker's first transaction replaces a "cancelled"
committed after its read by "running", and its last one publishes over "cancelled".

**JobRecord** has five actions on three rows, without processes. JobLifecycle
implements it with the identity as refinement mapping and `Execution` for
`Executions`; JobClients is built on it instead of on all of JobLifecycle.

**ReportPipeline.** A body is the set of its citation tags (a tag is the set of
numbers in one pair of brackets), a length class and the topics the gate looks
for; these are all the stages look at. What the model writes is any member of
`Bodies`. One action per stage and one per way it fails. `draft` and `edited`
are history variables.

**ResearchEngine** starts from a request that `validate_job_policy` has admitted,
whose rounds `submit_research` and `run_research` have capped in turn; negative
numbers pass both, and then no round is searched. `Plan` makes the brief and the
plan with their fallbacks (the model may leave either empty); `PlanRaise` is an
answer of a shape that breaks the joins outside of the `try` blocks, and `EngineRaise`
an exception of a round outside of them. The loop of
`run_research` follows in the order of the code: budget, rounds and cancellation tests (`LoopHead`, `MustStop`), `Search`,
`Draft`, `OnProgress`, `Advance`; then ReportPipeline's `ReportNext`. The rounds
of the four modes are the registry's numbers. In `Search` the model proposes any
queries, any unused ones of which may count as novel; `Issued` is the search
agent's choice among them. What a page comes to (not fetched, not trusted,
extracted) is any member of `Pages`; `Extracted` has the sequences of findings that
hold each page's, page by page in the order of the URLs.

**PageRound, SearchRound.** `Search` of ResearchEngine is one step; in the code it
is up to ten tasks in a semaphore. PageRound has those tasks (`Enter`, `Fetched`,
`Recalled`, `Answered`, `CallFails`), each step ending at an await of
`process_url`, and the gather at both ends. SearchRound has two actions, `List`
and `Gather`, which together are what ResearchEngine does in one; PageRound
implements it with `urls` for `listed`. What the queries return is any sequence of
URLs; `Unseen` has the places in it that are neither repeats nor pages with findings,
and the first `FetchCap` of them are listed. A call of `LLMClient` is two steps: the
look into the cache, and the answer, which is cached and counted at once. The
extractor's prompt holds the time of the fetch, so only the validator's prompts
are ever found in the cache. `Bill` is either transaction that writes the usage:
the engine returns or raises between rounds only, where no task is alive.

**Console.** The state is what the handlers of the page read after an await:
`loading`, `jobId`, the report shown, `pollRef` and the intervals that run. Each
`fetch` is a step that sends, one in which the API serves, one that continues the
handler, and one that fails. The API and the worker change the rows as JobRecord
lets them, reduced to the two statuses `startPolling` knows an end by. `calm`
records whether the user has cancelled anything or an answer has come after its
interval: then a report of an earlier job may indeed appear, as TLC shows when
`calm` is taken out of `ShownIsCurrent`. One mounted component is modelled (section 7).

**RateLimiter, CircuitBreaker, Gateway.** A call is the program it has still to
do: a sequence of operations, one step each, which the provider's answer
extends (`Aftermath`) and cancellation or a Redis error replaces (`Leaves`): from
within `try` a call goes on to release its slots, from elsewhere it is gone, and if it
had slots (`Exposed`) they stay taken, which `abandoned` records. The tables `Checking`,
`Success`, `Failure` and `Rejection` name the operation on each of the two circuits,
`Taking`, `Looking` and `Returning` that on each of the two slot counters. Without Redis the limiter's operations are not in a program at all
(`WithRedis`). The two Lua
scripts are single steps; the provider's and the job's counters are read in one
step and written in another. The limiter's windows end by actions of their own.
With Redis, calls belong to many workers; the code accepts that the last write
of a circuit wins, so a read may find any state and no circuit is kept. Without
Redis the limiter passes everything and a circuit's operation is one step,
since it awaits nothing.

The key of the provider's or the job's counter lives 300 s from the last reservation,
and a call may outlive it: the timeout of `_overall_timeout` is one of an HTTP request,
and an adapter makes up to six of them within one reservation and sleeps between them
as long as `Retry-After` says. So a key with a TTL (`expires`) may disappear at any time
(`SlotKeyEnds`), also between the GET and the DECR of a release; the DECR then makes a
new key of -1, without TTL. Such a counter undercounts, by at most one for each call
(`TypeOK`), and no limit on the provider's or the job's calls follows from it. What does
hold is `SlotsReturned`: it never says that a slot is taken when no call is left.
A Redis error (`RedisRaises`) may meet every operation of the limiter and the circuits.

**JobView, WebhookDelivery, JobClients.** The readers take one step per SELECT.
The order of sources, `(fetched_at, id)`, is a number; a new source may get any
free one, since clocks of two workers differ. A delivery counts its posts; arq
drops a first message whose id it still knows (`held`), until `keep_result` is
over (`Forget`). A worker that crashes in a delivery makes arq run it again.
A behaviour has followers of one kind only, because they do not influence each
other or the job.

## 3. Runs

| Run | Question | Bounds |
|---|---|---|
| `jobs_faults` | Do the rows keep their promises under every fault? | 2 executions, 2 rounds, 2 cancel requests, all six faults |
| `jobs_quiet` | Does every accepted job end with one verdict, which only a cancel request replaces, when nothing cuts it short? | the same, `research` and `webhook` raise |
| `report` | Do status, warnings, citations and text agree? | 2 findings that may be near-identical, every body over 3 numbers with at most two tags |
| `engine` | Whatever is planned and asked for, does the loop end in every mode, and report what it stored? | requests for -1, 0, 2, 5 and 6 rounds, 2 queries, 3 URLs, 2 fetched a round, 2 empty rounds |
| `round` | Do concurrent tasks of a round do what the engine takes for one step, pay once, bill all, and end? | 2 rounds, 2 queries of 2 results, 3 pages, 2 permits |
| `gateway` | Do limits, slots and circuits survive concurrent, retried and cancelled calls, Redis errors and keys that expire? | 2 calls, every limit 1, 1 retry, thresholds 2, the provider's key may expire |
| `clients` | Is what followers see whole, and does following end? | 2 executions, 2 rounds, 4 sources on pages of 2, 2 endpoints, 2 attempts, 1 crash |
| `console` | Whatever crosses on the wire, does the page show the current job, poll once and stop? | 2 launches, 1 lost request, 1 cancel request of a job at a time |
| `jobs_cancel`, `report_citations`, `engine_brief`, `clients_stream` | Four statements of documents and comments | the least that shows each one false |

Why the bounds are enough. *Jobs*: two executions are the least with a
re-execution after each commit; a third repeats the second, which finds the rows
as the first left them. Two cancel requests race each other and the worker.
*Report*: two findings make a duplicate; three numbers make one without a
source. *Engine*: three URLs with two fetched leave one for a later round; two queries
are used up before the longest mode ends, so that a round must repeat. *Round*: two
queries may return one page, three pages wait for two permits, and in the second
round one may come back with its prompt in the cache. *Console*: two launches are the
least in which answers of one job meet the other; the second meets the state of any
later one.
*Gateway*: with limits of one, two calls meet in every check; two failures open
a circuit, so one failure leaves it closed; one call that leaves while exposed
suffices, because it switches the slot property off. `Expiring` lets the key of the
provider disappear; the two counters are handled alike but for the rollback, which
only the provider's has, and the theorems of section 5 hold for any `Expiring`. *Clients*: two pages, two
endpoints of which one has heard, an attempt that is not the last one. Bounds
that are in actions are marked `bound` there: rounds of an execution, findings,
one crash of a delivery, one exposed cancellation, no progress in behaviours
whose followers are webhook endpoints.

### What the four counterexamples show

* `jobs_cancel` - a cancel request reads a running job, commits "cancelled" and is
  answered 204; the worker's final transaction then reads "cancelled", publishes the
  report and overwrites it with `completed`. (The property speaks of jobs read as running,
  since a queued one may also lose its cancellation to the worker's first transaction.)
* `report_citations` - behind a dropped duplicate, numbers in the text and in
  the citation list differ.
* `engine_brief` - the coordinator concludes before the search of the last
  round, so a one-round brief never searches.
* `clients_stream` - the stream of a `completed_with_warnings` job never ends.

Two behaviours that no document denies are in the models all the same: a job cut
short by `job_timeout` stays `running` for good (`Timeout` of JobLifecycle, which
is why `EveryJobEnds` is asked of `jobs_quiet` only), and reconciling tokens after
a window's end with Redis leaves a counter without expiry (`Released`).

## 4. Fairness

`FairSpec` of JobLifecycle: the worker's coroutine goes on when its await is
over (WF on `Worker`), arq polls (WF on delivery and finish), a request that has
begun is served. Nobody must submit or cancel and no fault must happen. Engine:
WF on its step; model calls and fetches have timeouts. Gateway: WF per call on
everything but beginning and leaving by cancellation or a Redis error; every operation has a timeout and
`asyncio.sleep` returns. Windows, cooldowns and circuits need not age: calls end
because attempts are counted. Clients: WF on the worker, on deliveries (arq
polls deferred messages) and on a stream whose client stays; turning pages or
polling is the client's choice and gets none. Round: WF on every task and on the
gather; fetches, model calls, embeddings and queries have timeouts. Console: WF on
the interval, on the API's answers and on the handlers they continue; nobody must
press anything, and the network may lose `MaxLosses` requests. No strong fairness is
assumed.

## 5. Proofs

`JobLifecycleProofs` proves, for every `MaxTries > 0`, every `MaxRounds`,
`Clients` and `Faults` (the named assumptions of JobLifecycle), that
`Spec` implies

* `[]TypeOK` (`TypeCorrect`), variable by variable;
* `[]ReportIsBilled`, `[]DoneHasReport`, `[]CompletionCarriesReport`,
  `[]OneLateRound`, from one inductive invariant `IInv`;
* `ImplementsRecord`: each step is a step of JobRecord or a stutter;
* `RowsWrittenOnce`, as a consequence of that refinement.

None of these properties is inductive. `DoneHasReport` breaks on a commit that
assigns what it read, and `Assign` writes nothing then: one must know that what
an open transaction has `seen` being done implies a report. `ReportIsBilled`
needs that an execution under way has a number (`pc # "idle"` implies
`tries # 0`), and that the worker does nothing before the submission is accepted.
`CompletionCarriesReport` needs that `pc = "notify"` implies a report.
`OneLateRound` needs that a worker which searches after it stored a late round
sees "cancelled" in the row, so that its next callback stores nothing, and that no
round is late while a callback's transaction that will store is open. `ExecutionInv`, `RowsInv`
and `LateInv` say these things; each is preserved in a lemma of its own, with one
step per group of actions.

Two more hold where the database answers, no execution is cut off by `job_timeout`
and no worker restarts (`Quiet`, a hypothesis on `Faults` that `jobs_quiet`
satisfies; research, the webhook's queue and the submission's may still fail):
`[]OneVerdict` (`QuietVerdict`) and `VerdictIsKept` (`QuietVerdictKept`), from
`QuietInv`. `OnceInv`: the message is delivered once, and until the worker is
through nothing has been told and no verdict is in the row. `BilledInv`: the handler
is entered either with nothing told, or after the webhook of a completed job has
raised; then there is a bill, so the handler's own transaction collides and tells
nothing: the verdict is single there because a job has one bill. `VerdictIsKept` says which
cancel requests may replace a verdict; `RequestsInv` is what it needs: a request about to
commit has read the job while it was active, or it has read `completed_with_warnings`, and
then the row still says so or says "cancelled", and the job has its report and its bill, so
no transaction can bring another verdict.

`ConsoleProofs` proves, for any number of launches and of lost requests
(`LaunchesAssumption`, `LossesAssumption`), that `Spec` implies

* `[]ConsoleTypeOK` (`ConsoleTypeCorrect`): that only a stored report is shown needs
  `ReportInv`, which says that a row, or a poll on its way back, tells of
  completion only where there is a report;
* `[]OneInterval` (`OneIntervalRuns`), which is inductive, and `[]SpinnerHasReason`
  (`SpinnerReasoned`), which is so on the types;
* `[]ShownIsCurrent` (`ShownCurrent`), which is not: an answer may put its report on
  the page after the current job has changed, unless one knows that a calm page
  waits for one thing at a time. `CalmInv` says that: one launch, or the current
  job's interval, and no report before that is over.

`PageRoundProofs` proves, for any set of pages and any numbers of queries, results,
permits, tasks and rounds (`CountsAssumption`),

* `[]BillIsComplete` (`BillComplete`). It says nothing before the bill, so its step
  needs that no task is alive where `Bill` is possible: `TasksInv`, outside of the
  pages of a round every task is idle or done, which `Gather` establishes by waiting
  for all;
* `[]PaidOnce` (`PromptsPaidOnce`), no prompt is paid for twice over a cache without a
  lock. It holds because two tasks never wait for the same prompt: `PagesInv`, the
  pages of a round are different ones, which is what the search's `seen` set is for;
  `CallsInv`, a task asks about its own page and what it asks is not in the cache.
  Lemma `PromptsDiffer` joins them;
* `ImplementsRound` (`RoundsImplementSearch`): `Search` maps to `List`, `Gather` to
  `Gather`, every step of a task to a stutter.

`ReportPipelineProofs` proves, for any findings, bodies and texts, the types and
`[]WarningsAreReleased`, `[]DanglingIsEditors`, `[]SingleCitationsSurvive`. All three
speak of the returned report, so their content is what the stages pass on:
`WarningsInv`, a report on its way has no warning that the run has not, and a
status other than `completed` has one behind it; `TagsInv`, the draft's brackets
stay until they are verified, after that the single ones of a known number are left,
and a plain `completed` report that nobody edited has no number out of bounds. Lemma
`CleanBody` says what the citation verifier does to a body.

`ResearchEngineProofs` proves, for any queries, URLs and requests, the types and
`[]OneRoundPerUrl` (`EnginePagesOnce`), `[]ReportedIsStored` (`EngineStoresReported`),
`NoSearchAfterCancel` (`EngineStopsSearching`), and that the pipeline's three
properties hold of it too (`EngineReleases`): every step before the pipeline leaves
a state in which the pipeline may begin. `StoredInv` is the point: a finding is
stored, or it belongs to the round whose callback is still to come, or to the last
round, whose callback found the job cancelled. `OneRoundPerUrl` rests on
`SearchFinds`: what a search adds comes from URLs without findings.

`JobClientsProofs` proves, for any executions, rounds, sources, page sizes,
endpoints and attempts, the types and `[]CompletionTold`, `[]CompletedPollHasReport`,
`[]PagesAreWhole`, `[]FullEffort`, `[]EndpointsAgree`. Each kind of follower has its
invariant over the rows (`RowsInv`: a job that is done has its report and all of its
progress).

* `StreamInv`: between its two SELECTs the stream holds an old row, and it leaves out
  what equals the last event. Progress of 100 it has read either together with
  `completed`, or from a job that is never to be completed again; without that, the
  event that tells of completion could be the one left out.
* `PagesInv`: everything from the cursor on that was there at the beginning has been
  seen, although sources are added meanwhile. Its step takes the least source of a
  page, which exists by well-founded induction on `<` (`LeastNumber`, from `WFMin`),
  and counts with cardinalities that a short page is the last (`LastPage`).
* `VerdictInv`: all deliveries of an execution carry its verdict, and one that works
  has none yet. `EffortInv`: the posts of a delivery are the attempts behind it, and
  one more if a crash repeats one.

`ClientsImplementRecord` closes the composition: JobClients, whose worker takes one
step per transaction and whose readers need progress, sources and webhooks beside
the rows, changes the rows by the same five actions of JobRecord as JobLifecycle with
its transactions in two steps. (That its rows include all those of JobLifecycle is not
proved; it would need a mapping of the worker.) The proof needs of `RowsInv` that
whoever writes is an execution there is.

All of these assume that executions are numbered from 1 (`ExecutionsAssumption`: arq's
`job_try`) and that the sources are finitely many (`SourceKeysAssumption`).

`GatewayProofs` proves, for any finite set of concurrent calls (`CallsAssumption`) and
any limits, thresholds and retries, the types, `[]CallsWithinLimit`
(`CredentialLimit`), `[]SlotsReturned` (`SlotsComeBack`) and `OpenCircuitRests`
(`OpenCircuitHolds`). The state of a call is the rest of its program, so the
invariant is about programs: `ProgramsInv`, what is left is always in order, complete
(what takes a slot is followed by what returns it) and framed by its circuit checks;
a call holds a slot exactly if its rest begins after the taking and before the
return (`HoldsCred`, `HoldsProv`, `HoldsJob`). `SlotsInv` relates the counters to these
sets, for calls with Redis.

* The credential's counter has no TTL: it is the number of holders, or at least that
  number once a call has left while exposed (`Covers`).
* The key of the provider's or the job's may disappear, so its counter can be anything
  below. The set to compare it with is that of the calls that will still decrement it
  (`Armed`): the holders, without those that are about to return their slot and have read
  that there is none. The counter is never above their number, unless a call has left
  while exposed, and never below it by more than the number of calls (`Tallies`). Both
  survive the expiry, which sets the counter to zero, and each is preserved by adding
  and removing single members of a finite set (`TalliesFollow`).

`QuietInv`: without Redis nothing is counted. The bound in `TypeOK` is the lower half of
`Tallies`. `SlotsReturned` follows, since without calls nobody holds or is armed;
`CallsWithinLimit`, since the Lua script tests and takes at once. No such theorem holds of the job's counter, which is
tested in one command and taken in another.

Only model-checked: the liveness properties `EveryJobEnds`, `RunEnds`, `CallsEnd`,
`StreamFollows`, `DeliveriesEnd`, `RoundEnds` and `EndIsSeen` (no prover here does
fairness or ENABLED), and the four counterexamples. Every other property of a
passing run has a theorem.

## 6. Plan

1. *Done*: jobs, pipeline, engine with its planning, rounds with their abstract
   specification, gateway, followers, console; theorems for every safety and action
   property of theirs.
2. *Next, refinements*: a counting semaphore that Gateway implements as long as no
   call is abandoned, for which `SlotsInv` is already the mapping; a report's promise
   that ReportPipeline implements.

## 7. What is not modelled

* *Text*: prompts, parsing, HTML extraction, embeddings, PDF export, query
  sanitizing, the report planner and the reasoning, evidence and verification models,
  which only make data classes and text for prompts.
* *What nothing calls*: `revoke` of the credential broker,
  `search_global_memory` within a job, subscribers of the message bus, plugins.
* *Credentials*: a key is stored under a fresh random id at each submission and
  restored under it by the worker that runs the job, so no two parties contend for
  an entry. JobLifecycle has the outcome only, a backend or none (`llm`).
* *Budget*: `run_research` attaches the unlimited one, whose limits never bite.
* *URL policy*: `fetch_url` asks `check_url_policy`, whose refusal is one of the reasons
  why a page is not fetched (`Unfetched`); which URLs it refuses is left out.
* *A second mounted console*: another page unmounts `ResearchConsole` (`App.tsx`), whose
  cleanup removes a listener and leaves the interval running; mounted again, it has a
  new `pollRef` and state. `OneInterval` is about one mounted component; together with an
  earlier one that has been unmounted, two intervals do run.
* *Reading one row*: chat, knowledge graph, export, lists, health, audit log,
  authentication. *Operations*: migrations, deployment, scripts, other pages.
* *The outside*: providers, SearXNG and fetched pages are nondeterministic; Redis
  and PostgreSQL are their atomic commands and READ COMMITTED transactions, and
  losing their data is outside. Signatures and the delays between attempts of
  webhooks are left out: no property depends on time there.
