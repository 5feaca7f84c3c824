# Dallo: a verification project in TLA+

Dallo is a security analysis service. A FastAPI server accepts source code, runs static
analysers over it, asks an LLM for patches, validates the patches, stores the result in a
database and in a file, and shows it in a React dashboard; jobs run in threads of the server or,
when Redis is there, in Celery workers. A GitHub workflow runs the same analysis on pull requests.

This directory models the parts of Dallo in which something can go wrong between steps: threads
that share a dict without a lock, results that are written while they are read, workers that die,
retries that share a counter, maps keyed by ids that are not unique. It holds TLA+ modules, TLC
configurations (`*.cfg`, each with an `MC*` module), proofs for TLAPS (`*_proofs.tla`), and
`PROJECT.json`, which maps every definition to the lines it models, and lists runs, mutants,
hazards, findings and theorems.

    tlc -config jobs.cfg MCAnalysisJobs         # one run; PROJECT.json lists them all
    tlapm AnalysisJobs_proofs.tla               # the proofs of one module

## 1. The system

| part | state | operations | talks to |
|---|---|---|---|
| job store, `api/services/analysis_jobs_store.py` | the dict `analysis_jobs` | `cleanup` by age and by number | called first by every job handler |
| job service, `api/routers/analyze.py`, `analysis_pipeline.py` | the entries of the dict | submit (text, file), status, `execute_analysis_job` | thread pool, event loop, pipeline |
| analyze view, `AnalyzeView.jsx` | what it shows of its job | submit, poll every 1000 ms | job service |
| Celery detection, `celery_detector.py` | two cached verdicts, two pairs of handles | detect once | Redis |
| Celery jobs, `tasks.py`, `celery_app.py` | broker queue, result backend | `delay`, the task, two status handlers | Redis, pipeline |
| results, `db/service.py`, `reports/full_result.json`, `start.py` | runs in the database, one shared file | save, seed at start-up, readers with fall-backs | pipeline, dashboard |
| pipeline, `analyzer/pipeline.py` | the result under construction | static analysis, deduplication, optimisation, patches, validation, save | everything below |
| LLM agent, `agent/` | current API key, attempts | one patch, several options, audit | a provider |
| validation, `validator/` | status of a patch | syntax, security scan, tests | commands |
| static analysers, `analyzer/*_runner.py`, `heuristic_runner.py` | none | up to three tools per file, merged | commands, pipeline |
| target selection: `deduplicator.py`, `risk_scorer.py`, `llm_optimization.py` | labels of groups | clusters, score, scope, order, cap | pipeline |
| masking, `shared/masking.py` | the map of placeholders of one exchange | mask, unmask | LLM agent |
| red/blue report, `red_blue.py`, `red_blue_view.py` | none | outcome of patches, rows, counts | results, dashboard |
| quick scan, `quick_scan.py` | none | rules of three modes | heuristic, `routers/scan` |
| dependency scan, `dependency_scanner.py`, `dependency_scanning.py` | a temporary directory | choice of manifests, pip-audit, npm audit, fall-back | commands |
| patch application, `patch_application.py`, `github_patch_adapter.py` | branches and pull requests at GitHub | branch, commit, pull request | GitHub |
| continuous integration: workflow, `run_analysis.py`, `ci_gate.py`, `post_pr_comment.py` | files between steps, comments | analyse, gate, comment | GitHub |
| test runner, report generator, encryption, authentication, other views | none between requests | one call each | - |

What is hard here, and what must hold:

- *Job store and job service.* Handlers run in several threads and on the event loop, workers
  in others, and all of them read and write one dict. A clean-up may drop the entry that a worker
  is about to write or that a status request is about to read; an answer is encoded from the live
  object. Entries must agree with their workers, verdicts must be final, no worker may hang or
  bring a dropped job back, the number of entries must stay bounded.
- *Celery.* Detection is a race for a cache. A status answer is put together from several reads
  of the backend while the task moves on. Workers crash, records expire. A client must never be
  shown the verdict of a task wrongly, nor half an answer.
- *Results.* One file for all jobs, written in place; a save that deletes and inserts in two
  commits; a restart that saves the file again; readers that each fall back in their own order.
  What was saved must survive, and the views must agree.
- *Continuous integration.* Steps hand results on in files that a step may not write, a failed scan
  may look like a clean one, three steps write the same report one after the other, and two runs for
  one pull request meet in its comments. Neither the gate nor a comment may pass over what is severe,
  and one comment must follow all runs.
- *Pipeline.* Ids of findings are not unique; failures are absorbed at different levels; retries,
  key rotation and the fall-back from several options to one share counters. No finding may be
  passed over in silence and no patch handed out unchecked.
- *One scan.* Tools fail in ways that look like a clean answer. Similarity of code is not transitive,
  so that the order of the findings decides which stands for which. Scopes, caps and rounding can widen
  or empty a choice. No finding may be lost on the way, and nothing clean be claimed without a tool.
- *One exchange with the LLM.* Secrets are replaced by one pattern after the other in a text that
  changes under them, and must come back whole; answers are told apart by their position.

`PROJECT.json` lists every component with its status and every hazard at its line.

## 2. Modules

    JobStore ----> AnalysisJobs ----\
                                     +--> JobLifecycle  (INSTANCE ... WITH, as a property)
                   CeleryJobs   ----/
    CeleryDetector      ResultStore      Workflow      PatchApplication

    QuickScan ----\
                   +--> StaticScan --(INSTANCE ... WITH, as a property)--> PatchPipeline --> RedBlue
    TargetSelection/        \
    DependencyScan ----------+--> Scans
    Masking --> AgentDialogue/

(`QuickScan`, `TargetSelection` and `Masking` extend `Ordering`.)

**`JobStore`**: the dict and `cleanup()`. `stored` is its key set, `created` the creation times,
`cleaner[r]` where the call of request r stands. The removal by age is one step; then testing the
length (`CleanupCap`), listing, reading the length again and sorting (`CleanupChoose`) and popping
(`CleanupPop`) are steps between which other requests run, and the iteration may fail because the
dict changed (`CleanupRaises`). A handler that inserts reads the time first (`Stamp`), and stores the entry in
a step of its own (`Insert`), so that an entry may come in older than others that a clean-up has listed
meanwhile. Merged: the removal by age, all its pops, with the arrival of the request, and the pops of the
victims of one clean-up with each other. On its own (`StoreSpec`) the store reuses an id that nothing
remembers (`Forgotten`), so that runs of any length fit in a few ids.

**`AnalysisJobs`** EXTENDS `JobStore`: handlers, worker and client around it. `meta[j]` is the dict
object of a job and outlives its key, since a response that fetched it is encoded from it;
`worker[j]` is the next statement of `execute_analysis_job`, each of whose writes raises `KeyError`
when the entry is gone; `borrowed` are the pool threads that workers hold; `request[r]` is what a
handler does after its clean-up; `view[j]` is what the polling client shows. Encoding takes two
steps, status first, and fails when a key was added in between. `StampJob` makes the dict object, and
`InsertJob` gives it its key.

**`JobLifecycle`**: what the service promises: accepted once, analysed, one verdict, possibly
forgotten and never taken back, a client that stops polling has learnt the verdict. Both back ends
implement it (`ImplementsLifecycle` in `AnalysisJobs` and `CeleryJobs`).

**`CeleryDetector`**: `_ensure_celery_initialized` on top of `is_celery_available`, every read and
assignment of a global a step, with Redis coming and going (`FlipRedis`).

**`CeleryJobs`**: submission, broker, workers, result backend, and both status handlers. A handler
reads the backend anew at each `.state` or `.info` until it has seen a ready state (`Seen`,
`Read`). A task is acknowledged when it is taken, so it runs at most once; `Crash` loses what runs,
`Expire` forgets a record. Merged: the two reads that only word the step text.

**`ResultStore`**: the database as the id of each session's run, the file as the blocks its writers
left in it. Readers are functions of that state (`StatsOf`, `ListOf`, `ReportOf`). `Crash` and
`Start` stop and restart the server; the two commits of the save at start-up are two steps. Celery
jobs write to the database only and survive. Content interleaved from two documents counts as
damaged.

**`PatchPipeline`**: `execute_pipeline` stage by stage. Reports are positions, ids a function of
them that need not be one-to-one. The agent's attempts are steps with the outcomes answer, rate
limit, other failure, uncaught exception; what the selection keeps, what a model answers and what
a validator finds is any possible outcome. `Raise` merges the exceptions of `on_progress` and of
the stages.

**`StaticScan`** (EXTENDS `QuickScan`, `TargetSelection`) is the front of `PatchPipeline` in detail:
the tools of a file one after the other, each of which may be missing, run out of time, print nothing
or garbage, or answer with a sequence of findings, and two of which raise an exception over JSON that is no
object (`BreakOff`); the merging and sorting; the code that a report is compared by; the choice of targets,
or the audit. `Pipeline == INSTANCE PatchPipeline WITH ...` maps its
stages to the stages there, and `ImplementsPipeline` says that each of its steps is one of them.
**`QuickScan`** holds the matching of rules, **`TargetSelection`** duplicates, scores and the
optimisation, as operators. Similarity is any relation `Alike`, scores are in hundredths. **`Ordering`** has
the sorts of all of them, by keys that end with the position where Python's stable sort keeps the order, so
that the sorted sequence is defined by the ranks of its members. What tools print is read into findings of
that tool, whatever they say (`ScanAssumption`); `MaxReports` bounds the reports of a run.

**`DependencyScan`**: `scan_dependencies_workflow` and the scanner. `step` is the tool that is asked next,
`manifests` the files that are there, `temporary` whether a directory is left behind, `printed[t]` the
document that tool t has printed, a history variable, and `answer[t]` its result.

**`Masking`**: a text is a sequence of atoms, and a pattern replaces what it matches, within what the
patterns before it have left. **`AgentDialogue`** puts it between the agent and a provider: prompts,
answers with the blocks that the parsers look for, the way back, and the conversion of an audit. Of a prompt
there is the code (`prompt`) and what is said of the report besides (`context`: title, description and
imports, which `_build_prompt` sends as they are); what the user adds is left out, and so are the names of
file and rule. An answer with options has headings with any numbers in any order (`Headings`), and is split by
place, as in the code. A model may repeat the code it was shown, with or without an addition. `answered` is a
history variable: the number and the code of each option that was parsed. `MaskingAssumption` says that each secret is one for
some pattern, and that Presidio's recognisers are for patterns that look at the secret itself, as those
that `shared/masking.py` adds are; `ReportAssumption` that code has no placeholder before it is masked. Texts
in which the number of a line breaks up a secret, or what a pattern looks between, are left out.

**`Scans`** is one request of any of the three kinds: they share no state, hence one run for all. Its
variables of the other kinds are held at one value.

**`RedBlue`** EXTENDS `PatchPipeline` with the report that the dashboard makes of a finished run, from the
file (`FileView`) and from the database (`DatabaseView`), whose rows lack the scan of a patch. How many
findings the scan of a patch has fewer than that of the original goes into the report and nowhere else, so
the properties quantify over it (`RemovedCounts`, up to `MaxRemoved` for each patch). `FixedCount` is the sum
over all patches with a scan, whether they passed or failed, clamped to the number of findings. Left out of
the comparison are the findings that patches brought in, the total that is left, and the percentage.

**`Workflow`**: `.github/workflows/security-analysis.yml` for up to two pushes to one pull request.
`step[n]` is where run n stands, `report` and `full` are the files it has written, `comments` the
comments of the pull request, which people may add to (`Discuss`). Both scans are taken to find the
same (their exclusions differ in directory names only). Three steps write `reports/bandit_report.json`: Bandit
itself, `run_analysis.py`, and the tests, one of which has the scan of a fixture written to the default place
(`tests/test_bandit_runner.py:79`, `bandit_runner.py:224`). The tests step must pass, so the report that the
comment is made from is that of the fixture (`RunTests`). Each step of the workflow is an action, each
call to GitHub one too; `Fail` ends a run anywhere: an exit code, an exception, the limit of 15
minutes, a cancellation. A call may take effect although its caller fails. `troubled` remembers
whether something happened that the code does not guard against: a refused call, a look-up while
another run writes, a comment beyond the first page. The gate's critical threshold is left out, for
Bandit knows no such severity and `run_analysis.py` sets no `risk_level`.

**`PatchApplication`**: the button of the analyze view, the handler and its calls to GitHub, for any
number of requests. `step[a]` is the next call of request a; each call is answered, refused
(`Refused`) or its answer is lost after it did or did not take effect (`AnswerLost`). `view[f]` is the
button of fix f, which may lose its connection (`Disconnect`) or be left and entered again
(`Remount`); `forgot` counts that, `lost` remembers requests that lost an answer. `main` changes by
itself (`EditMain`). All fixes are for one file; nobody merges or deletes branches; requests are
taken to be authorised.

Abstractions that all modules share: source code, prompts, texts, percentages and file names are
left out; an analysis result is known by its session or job.

## 3. What is checked

| run | question | bounds |
|---|---|---|
| `store` | how far do overlapping clean-ups overshoot the cap, and whom do they evict? | 5 ids (reused), 2 requests, cap 1, ticks to 2 |
| `store_lookup` | *violated*: does a status request keep the job it asks for? | same |
| `jobs` | do entries, workers and clients agree; is the life cycle implemented? | 2 jobs, 2 requests, 2 threads, cap 1, TTL 1 |
| `jobs_live` | does every analysis end, does every client learn the verdict? | 2 jobs, 1 request, 1 thread |
| `detector` | handles before verdict; agreement; a settled verdict stays | 3 threads, 2 changes of Redis |
| `celery` | are answers whole; is the life cycle implemented; does polling end? | 1 task, 2 status requests, 1 crash |
| `results` | is what was saved kept; do views agree; is there a gap? | 2 in-memory and 1 Celery session, 2 blocks, 2 crashes |
| `results_latest` | *violated*: is the latest run the most recent one? | 1 + 1 sessions, 1 crash |
| `workflow` | is what is severe gated and shown, is there one comment? | 2 pushes, 2 other comments, a page of 2, threshold 2 |
| `patches` | do pull requests carry their fix, are replies true of GitHub, who gets a second pull request? | 2 fixes of one vulnerability, 2 requests, 2 seconds |
| `pipeline` | is every finding answered, every patch checked, every key tried; does it end; does the red/blue report tell the same from both stores? | 2 ids, 2 reports, 2 options, 3 keys, 3 attempts, 2 findings removed by a patch |
| `scans` | does a scan lose findings, is each represented, is the choice the top of its scope; is what is called clean backed by a tool; does masked code come back; is the scan the front of `PatchPipeline`? | 4 sources, up to 6 findings of 3 tools, 8 options, 7 texts, 7 patterns, up to 3 headings and one case of 4, 2 packages per document |

Why these bounds suffice: two requests are the smallest number that overlaps, and a cap of one is
the smallest that makes a clean-up evict what another protects; in `store` five ids leave one free
beyond the maximum of four entries that the invariant allows. `StoreBounded` (cap + 2 x requests
- 1) is tight: TLC reaches it. In `jobs` two jobs with cap 1 make each job evictable by the other,
and the TTL covers the removal by age. One pool thread in `jobs_live` is the case in which a thread
that is not given back starves everyone. In `celery` one task is enough because records of
different tasks do not interact; two status requests overlap. In `results` two blocks are the
smallest document that can be torn, and two crashes cover a crash during the recovery from a crash.
In `pipeline` two reports with one id or two are the smallest case of a collision, and three keys
with three attempts the limit at which every key can still be tried; two options instead of three
only repeat a patch, and a patch that removes two findings makes the sum of the removed ones exceed the number of
patches. In `workflow` two runs are the smallest number that races for a comment, and two
other comments fill a page of two, which stands for GitHub's thirty. In `scans` three findings of one rule are
alike in a chain but not at its ends, the smallest case in which greedy clusters depend on the order; two share
an id; every CWE that has a score occurs; a scope may be right, misspelt or half misspelt. The texts have two
secrets of one label, a secret that two patterns match, one within the quotes that another looks between, and
one over several numbered lines; one of their descriptions repeats a secret. Headings are all sequences of
up to three of the numbers 1 to 3, hence in order, repeated, out of order or incomplete; the case of four has an
option that is dropped. In `patches` two requests in one
second or two are the smallest number that wants one branch.

Type invariants (`TypeOK` of each module, `StoreTypeOK`) are proved rather than run where there are proofs.

Every property of a passing run has a mutant in its module (`\* Mutant of ...`): a definition
changed as a plausible bug would change it, with which TLC finds the property violated.

`CHECK_DEADLOCK FALSE` is set where a system may stop: all ids are used up (`jobs*`, `celery`,
`results*`) or the runs and requests are over (`pipeline`, `scans`, `workflow`, `patches`).

**Fairness.** `AnalysisJobs`: threads that hold a thread run (weak); starting a background task and
encoding a response wait for a pool thread or the loop, which serve in order of arrival, hence
strong; a client's `setInterval` polls again and again (strong). Nobody has to submit anything.
`execute_pipeline` is assumed to return there; `PipelineEnds` of `PatchPipeline` is the reason.
`CeleryJobs`: workers and handlers run (weak), the broker serves a waiting message (strong), clients
poll again (strong); records need not expire. A client whose job was dropped, lost in a crash or
expired polls for ever: the liveness properties except exactly those cases. `PatchPipeline`: its
thread runs and its calls return; the commands have timeouts, the providers have none, so this is
an assumption about them.

### Findings

1. `LookupKeepsItsJob`: the clean-up of another request removes the job between a status request's
   clean-up and its `get()`; the comment on `exclude_ids` says that it is not removed.
2. `LatestIsMostRecent`: every start of the server saves the session of the file again under a new
   id, which makes it the latest although another session is more recent.

### Observations

What follows is behaviour that the models reproduce and the properties except; no document of the
repository says otherwise.

- `status` becomes "completed" before `result` is set (`analysis_pipeline.py:177`), in the object that an
  answer is encoded from: an answer may be "completed" with no result, and the client stops polling.
- Of a file all of whose tools failed nothing is found, and the errors are dropped (`pipeline.py:273`); a JSON
  document in which npm says that it could not audit reads like a clean one (`CleanMeansAudited`).
- Line numbers are stripped from a prompt (`llm_agent.py:490`) but stay in the values of masked secrets that
  span lines, and come back with them in restored code (`RoundTrip`).
- Options are named by their position (`llm_agent.py:444-452`), so that an answer that leaves out, repeats or
  reorders headings gives wrong names. `OptionsKeepTheirName` says that no option with code among the first three
  is lost; of the name it speaks only where the number in the heading is the place.
- Only `generate_patch` masks the code that it sends; several options and audits are asked for with the code
  as it is. What a prompt says besides of a report is not masked (`llm_agent.py:336-347`): where Bandit's
  description of a hard-coded password quotes it, the prompt has it in clear. A match that has a placeholder in it
  is skipped whole (`masking.py:76-77`), so that the rest of a quoted secret stays in clear. `RoundTrip` says of
  the code, and of that only, that no other match of a pattern is left.
- The comment of the workflow is made from a Bandit report that the tests have overwritten, so with no finding
  of high severity it shows what they found in their fixture. The "no vulnerabilities" message
  (`post_pr_comment.py:44-48`) cannot come up after a passing tests step. `SevereAreShown` holds since the
  comment takes severe findings from `full_result.json`.
- The number of fixed findings in the red/blue report counts what the scans of failed patches removed, and may
  count a finding several times; it is at least the number of blocked ids (`BlockedIsVerified`).
- Bandit or Semgrep printing JSON that is not an object ends the analysis with an exception (`BreakOff`).
- A clean-up may drop an entry while an older one stays that it does not protect: one that another request had
  stamped before, and inserted only after the list was taken (`OldestFirst` bounds their number).
- Groups are noted by id; two reports with one id share a label (`Represented`). That sorting puts the
  most severe report of each cluster first is what makes the merged representative the right one.
- The risk that remains after a patch with new findings is "high" from the file and "unknown" from the
  database, which does not keep the scan (`ViewsAgree`).
- `ANTHROPIC_KEY` never finds anything that `OPENAI_KEY` has not replaced before it. The third strategies of
  `_parse_response` and `_extract_audit_json` find nothing that the first two do not.

## 4. What is proved

For all values of the constants, under the assumptions named in the modules:

- `AnalysisJobs_proofs`, of the store: `StoreTypeCorrect`, `OldestFirstAlways` and `StoreBoundedAlways`. `StoreInv`
  says that no entry is from the future (`PastCreation`), that the victims are the oldest of their list but for
  the protected entry (`VictimsAreOldest`), and that the id about to be inserted is in no list and is that of one
  request only (`FreshId`). Entries that a list lacks although they are older than one in it (`Strays`) were stamped
  by other requests when the list was made, one each, and as the clock does not go back none come up later: they
  are fewer than the requests (`FewStrays`), and only they are ever overtaken. The
  bound of cap + 2 x requests - 1 entries is exact (TLC reaches it), and it does not
  follow from the numbers of entries and requests alone, since clean-ups may drop the same entries. `RoomLeft` is: for every set of clean-ups that have
  listed their candidates, either so little is stored that each of them may insert an entry, and each other
  request two, or one of the set will still drop enough for that.
- `AnalysisJobs_proofs`, of the service: `TypeCorrect`, `StoredMatchesWorkerAlways`, `VerdictIsFinalAlways`,
  `DroppedForGoodAlways`, and `Refinement` (the service implements `JobLifecycle`). None of them is
  inductive alone. `Inv` adds where a request may stand (`Placed`, `Unseen`, `Undispatched`), that an
  entry agrees with its worker or the worker has not been started (`EntryMatchesWorker`, `Known`), that
  a payload goes with a verdict (`PayloadMatches`), and that a status seen by a half-encoded answer is
  no further than the entry (`SeenMatches`). `InvStep` has one lemma per action. `ServiceKeepsStoreSpec` says that
  every behaviour of the service is one of the store, hence `ServiceStoreBounded` and `ServiceOldestFirst`: what
  is proved of the dict alone holds under its handlers, workers and clients.
- `CeleryDetector_proofs`: `TypeCorrect`, `CelerySubmitsToTaskAlways`, `AgreeWhileSteadyAlways`,
  `SettledForGoodAlways`, for any number of threads. The invariant is that the handles are set before the verdict
  that they go with, in the detector and in the router (`HandlesFirst`), that whoever returns a verdict has
  written one (`VerdictThere`), and, before Redis has come or gone, that all who have probed have found what
  is the case (`Steady`).
- `CeleryJobs_proofs`: `TypeCorrect`, `AnswersAreWholeAlways`, `Refinement` (the Celery service implements
  `JobLifecycle`). `Inv` says that a record in a ready state is true of its task (`RecordsHold`, `TrueOf`), that an
  answer under construction agrees with the last record its handler has seen (`ReadersHold`: `Consistent`,
  `Whole`, `Knows`), and that a client shows what its task has been (`ViewsHold`). The refinement needs that
  no step takes a task back (`Forward`).
- `ResultStore_proofs`: `TypeCorrect`, `SavedSurvivesAlways`, `ShowsLoneResultAlways`, `NoGapWhileUpAlways`, for any
  number of sessions, of blocks in a document and of crashes. `Inv` says where a job can stand and what is
  left of its document (`JobsInOrder`), that a run which is not in the database is being saved anew from a
  whole file that nothing writes to (`NothingLost`), and that of a job that runs undisturbed the file is a
  prefix of its document (`LoneAlone`).
- `PatchPipeline_proofs`: `TypeCorrect`, `AnsweredOrExplainedAlways`, `NothingUncheckedAlways`,
  `StoredUnderScannedAlways`, `AllKeysTriedAlways`, and of `RedBlue` `ViewsAgreeAlways` and
  `BlockedIsVerifiedAlways`; for any ids, reports, options, keys and retries. `Inv` accounts for each target as to
  come, under way or answered (`Accounted`), says what has been done to each patch at each stage (`Progressing`)
  and which report it goes with (`Attributed`), and that as many keys before the present one have been refused
  as there were attempts (`KeysInTurn`). That outcomes follow from the status is a lemma on checked patches
  (`CheckedOutcome`). A verified patch adds at least one to the findings counted as fixed, whatever its scan removed
  (`VerifiedCounts`, `RemovalsFacts`), and each blocked id has one of its own, so that there are no more blocked ids
  than that (`IdsFixed`).
- `Workflow_proofs`: `TypeCorrect`, `SevereAreShownAlways`, `GateHoldsAlways`, `PassedIsShownAlways`,
  `OneCommentAlways`, for any number of pushes and comments, page size and threshold. `Inv` says what the files
  of a run tell of its code, and that after the tests the report is that of their fixture (`FilesTell`), that what a comment shows is the result of a run that is over
  (`ShownAreOver`), that what a run has found is there (`FoundAreThere`), that each comment of Dallo has its title
  (`Titled`), and that, untroubled, there is one such comment at most and nobody about to add another (`Alone`).
- `PatchApplication_proofs`: `TypeCorrect`, `PullCarriesItsFixAlways`, `ReplyMatchesGitHubAlways`,
  `OnePullPerFixAlways`, for any number of fixes, vulnerabilities and requests. `Inv` says that a request that has
  got past the creation of its branch has a name, which exists (`NamesHold`) and is nobody else's
  (`NamesDiffer`), for GitHub refuses a second branch of a name; what is on that branch between the calls
  (`BranchHolds`, `PullsHold`); and what each reply implies (`RepliesHold`). `CountInv` adds that the
  requests for a fix that have not failed, but for the one that its button waits for, are no more than the times
  its button was left, and one more if it shows an outcome (`Counted`).
- `Scans_proofs`, of sorting: `SortedBy` gives each member of a set once and in the order of the keys
  (`Sorted`, `AscendingSet`), because as many members are before the next one as have been given.
- `Scans_proofs`, of a scan: `FindingsSurviveAlways`, `RepresentedAlways`, `TopOfScopeAlways`,
  `ScoreMatchesLevelAlways` and `ScanImplementsPipeline`, for any sources, findings, options and relation of
  similarity. `ScanInv` says what a tool has found is of that tool (`FoundBy`), that from the merge on the reports
  have all of it in order (`Survive`), which groups and representatives the reports have when targets are
  chosen, and that those are the top of the scope (`SentOf`). That each cluster has one representative rests on
  leaders: every report has a leader of its rule that leads itself (`LeaderOf`), by induction over positions. The
  refinement goes stage by stage (`Bars`); a step of the scan is one of `PatchPipeline` or changes nothing there.
- `Scans_proofs`, of dependencies: `CleanMeansAuditedAlways`, for any documents. `DepInv` needs that a result which
  reads clean stands for a document that lists no vulnerable package (`PipCleanIsClean` and its like for npm),
  since sums of counts that are zero have zero parts.
- `Scans_proofs`, of the exchange with the LLM: `OptionsKeepTheirNameAlways`, `EveryFindingReportedAlways` and
  `RoundTripAlways`, for any reports, patterns and answers. `DialogueInv` is that options are offered, and named rightly, when
  they are parsed (`RightlyNamed`), and that reports and findings are paired when they are made. For the round trip, an
  unmasking is the rewriting of a text atom by atom (`UnmaskFills`), which needs that no placeholder is in the map
  twice and none in a value of it. `Masked` is what every single replacement preserves: to fill the
  placeholders of the map gives the original. `BeforeMatch` is the invariant of the loop over the matches of
  a pattern: those to come still lie in the changed text or have met a placeholder, because they come
  from the last to the first. It carries over to all patterns (`RegexReturns`); after Presidio
  it needs that the patterns, which number from 0 again, give no placeholder that is already there (`Fit`),
  since a pattern whose label Presidio has used finds nothing more (`PresidioReturns`). Restoring and stripping
  of line numbers commute if no value has a number (`ShownIsGood`). The same loop leaves no match without a
  placeholder: what it puts in makes no new one (`BareBefore`, `StaysMasked`), so that what each pattern has masked
  stays masked under the later ones (`NoneBareUpto`), and the stripping of line numbers makes none either, since
  the stripped text is embedded in the other (`StrippedBare`). `RoundInv` takes this from the
  prompt to the patches, also where several options fall back to one.

Only model-checked:

- All liveness (`AnalysisEnds`, the two `PollingEnds`, `PipelineEnds`), which is beyond the prover.
- That the two findings of section 3 are reached.

Every safety and action property of a passing run is proved, and each refinement.

## 5. What is not modelled

- Rendering: the report generator, the templates of the red/blue report, the wording of comments, the
  dashboard views other than the analyze view. Each shows one finished result.
- What tools, models and parsers find: outputs are any of a small set, in every way in which they may fail.
- The test runner runs one command with a timeout, and the web pipeline does not call it. The LLM cache and
  the batch processor have no caller. The SonarQube client serves no step of the pipeline.
- Encryption at rest converts one string; authentication is one check per request.
- Spans that Presidio reports are taken to be disjoint; texts with placeholders of their own are left out.
- A redelivery by the broker after its visibility timeout, and a server that is started without `start.py`.

`PROJECT.json` gives the reason for each component.

## 6. Plan

Written: the store, the service and its life cycle, detection, Celery jobs, results, the pipeline with its front
and its red/blue report, the exchange with the LLM, dependency scans, the workflow, patch application; proofs of
all safety properties that the runs check.

Next: what the operators of `RedBlue` and `TargetSelection` promise beyond the properties of the runs; the LLM
cache and the test runner, once the pipeline calls them.
