# AV_ImgData in TLA+

AV_ImgData is a Synology DSM package that keeps face data in image metadata and in
Photos consistent. One FastAPI process (`app/main.py`) serves the Vue user interface
and the HTTP endpoints of external worker processes; long operations run as daemon
threads of that process; all durable state is one SQLite database in the package's
`var` directory; command line tools under `tools/` open the same database. External
workers are C++ processes on other machines that poll the backend for face jobs.

These modules model the parts of the program where steps of several actors interleave.
They describe the source at the lines `PROJECT.json` ("map") names, not the intentions
of the documents in `docs/`; where the two disagree, a run shows it (see *Findings*).
Source paths below are relative to the repository.

## Inventory

| Part | State it keeps | Operations | Talks to | What is hard | What makes it correct |
|---|---|---|---|---|---|
| Worker queue: `worker_api_service.py`, `worker_provisioning_service.py`, `worker_admin_api.py` | tokens, workers, jobs, enrollments: one document | register, heartbeat, claim, result, fail; enqueue with pruning, consume, cancel by origin, delete job; delete worker; issue token, create and redeem enrollment | state store; HTTP routes; dispatchers; administrator routes | the token is checked in one read, the change made in a later update; late reports; retention; deletion of a worker at work | one claimer per record, cancellation is final, only the claimer settles, one token per worker, a code is spent once |
| Worker state store: `worker_runtime_service.py`, `av_imgdata/db/connection.py` | four tables, one lock per process | `read`, `update`, `update_if_changed` | queue, package tools | table-by-table reads, failures between tables, a second process | updates and reads are atomic, none is lost, the lock comes free |
| Worker loop: `worker/src/api_loop.cpp` | token file, the job in hand | enroll, register, heartbeat, claim, run, report | HTTP routes | lost answers, crashes, a report that fails | a job is run once, a produced result can be reported |
| HTTP routes and dispatchers: `worker_api.py`, `worker_api_endpoints.py`, `external_worker_processor_service.py`, `external_worker_batch_processor_service.py` | requests in executor threads, waiting backend threads | receive, serve, give up; choose target, submit, wait, expire, consume | queue, workers, pipeline | requests served after their sender left; three looks at a record before its result is taken | a delivered result was produced, its id is gone, waiting ends |
| Runtime operations: `imgdata.py`, `runtime_state_service.py`, `runtime_operation_service.py`, `checks_workflow_service.py`, `face_match_workflow_service.py`, `face_recognition_service.py` | progress records in memory and in the database, registered threads, the start lock of the checks | start, report, stop, end of file analysis, face matching, four checks and the cleanup actions; review and refresh of findings | user interface, findings stores, pipeline | check-then-act starts, records persisted after the lock is released, stop requests against reports, restarts | one long operation at a time, progress tells the truth, a stop request ends its run and no other |
| Face matching: `face_match_workflow_service.py`, `face_match_mutation_service.py`, `imgdata.py` | the progress with its resume cursor, the stored list of findings, what the user suppresses | four searches, plain, saving or applying; skip, resume, stop; decide on, remove and apply findings | Photos, findings store, user interface | the list is written without the findings lock and now and then only; an image index to resume at; an error in one of many handlers | a found face is not lost, no image is passed over, a running progress is worked on and ends |
| Checks scan: `checks_workflow_service.py`, `imgdata.py`, `imgdata_api.py` | the progress with path index, waiting and manual findings; the stored list | scan in two modes, resume, apply suggestions, stop; open, change, ignore a finding, refresh | file handlers, findings store, user interface | a refresh that reads, computes and writes back; a cursor only one mode reads; two reports of one end | no finding of a passed image is forgotten, the record says running exactly while a scan works |
| File analysis: `imgdata.py`, `file_analysis_service.py` | progress, latest result, one list per finding type | start, walk, analyse, stop, report; resolve a finding meanwhile | metadata parser, findings store, check scans | separate writes, of memory and database too, each of which may fail; an image counted before its findings are built; errors outside the try; check scans on the same lists | all parts end with one outcome, what is counted is written, it ends |
| Recognition pipeline: `face_recognition_service.py`, `face_embedding_batch_dispatcher.py` | profiles per state key, active and stored reviews, a cache of embeddings | build, scan for outliers, unknown faces and wrong assignments; pause, resume, decide, apply, exclude | dispatchers, Photos | a look-ahead thread, a cache shared by runs, builds beside exclusions, the option that turns exclusions off, an exclusion that reads and writes in two steps, resume by a person's index | no image is skipped, an excluded face is in no profile of its list's key unless something named brings it back |
| Worker integration: `external_worker_gui_integration.py` | a replaced factory | install, restore | pipeline | overlapping operations | the factory is put back |
| Session manager: `api/session_manager.py` | Photos sessions | resume, refresh, expire | Photos | refresh from several threads | no use of an expired session |
| Findings lists, write lock: `write_lock_service.py`, `face_match_findings_service.py`, `persisted_findings.py` | findings per type, a lock per image | read, write, remove | searches, scans, analysis, reviews | read-modify-write of a list | no finding reappears or is lost: a property of those who use them |
| Status payloads: `status_payload_builder.py` | none | phase of a progress | user interface | precedence of flags | every progress has the phase the documents name |
| Pure algorithms: `face_matcher.py`, `face_frame_matcher.py`, `bbox_normalizer.py`, `name_mapping_service.py` | none | matching, mapping | all | ties, chains and cycles of mappings | agreement with a reference definition |
| Migrations: `av_imgdata/db/migrations.py` | schema version | upgrade | store | interruption | runs to the end or not at all |
| Photos, file, ExifTool handlers; image decoding; native processor; configuration; user interface | - | input and output | - | - | not modelled, see the end |

## Modules

| Module | What it is |
|---|---|
| `WorkerQueue` | the queue: every `store.update(mutate)` is one action; `register`, `heartbeat`, `result` and `fail` are two actions of an executor thread, `Authenticate` and the mutation, since their token is checked in a read of its own; `claim` is one |
| `JobLifecycle` | what the queue promises about one job id: absent, open, taken, answered or refused or withdrawn, absent again |
| `StateStore` | calls of `WorkerStateStore`: lock, one query per table, mutate, one commit, release; failure at each point, crash of a process |
| `AtomicStore` | what the store promises: an update happens in one step |
| `WorkerSystem` | EXTENDS `WorkerQueue`: worker loops, requests, executor threads, dispatchers, lost and late requests, crashes and restarts |
| `RuntimeOperations` | start requests, runs and their progress in memory and in the database; stop, review and refresh requests; staleness; restart |
| `FaceMatchSearch` | the search thread, the progress, the stored list and the reviewer of face matching |
| `ChecksScan` | the scan of one check type, its record and list, and the user who handles and refreshes findings |
| `FileAnalysis` | the analysis thread and its separate writes, stop requests, resolved findings and check scans that write the same lists |
| `Recognition` | the thread that builds profiles or scans, the look-ahead threads and the cache, decisions and exclusions |
| `MC...` | instances for TLC: model values, symmetry, functions given as constants |
| `..._proofs` | theorems and their proofs |

`WorkerSystem` uses the actions of `WorkerQueue` and adds who calls them; the property
`QueueSpec` (checked and proved) says that it takes no other step on the queue, so that
what is proved of the queue holds in the system. `WorkerQueue` takes each update as one
step; `StateStore` implementing `AtomicStore` is the reason it may. `RuntimeOperations`
says which long operations start, stop and end beside each
other; `FaceMatchSearch`, `ChecksScan`, `FileAnalysis` and `Recognition` each open one
of those operations up and follow its thread between the start and the last report, for
one user. They take what `RuntimeOperations` shows as given: one run of a kind at a time
(where the code lets a second one in, the module says so). `Recognition` takes the answer
of a batch as one step that succeeds, fails or is dropped; how it is obtained is
`WorkerSystem`.

### Correspondence

*WorkerQueue.* `jobs[j]` is the job's record or `absent`; `tokens[t]` says whether the
hash of secret `t` is in the table, bound to which worker; `handler[th]` is a request
that has been authenticated in thread `th` and is not yet applied. `issued` and
`redeemed` are histories: secrets come from `secrets.token_urlsafe` and are never drawn
twice. Payloads, results, metadata and list filters are left out; priorities and
timestamps stay, because claim and pruning compare them. `DeleteJob` has no caller in
the backend; it is part of the queue's interface and thus of `WorkerQueue`, but
`WorkerSystem` leaves it out. `heartbeat`, `cancel`, `redeem` and `create_enrollment`
read the time before they take the lock; the model reads its clock at the mutation.
`list_jobs`, `prune_deleted_tokens` of the tools and the token table's display fields
are reads or administration outside the protocol.

*StateStore.* `disk[t]` is the set of updates visible in table `t`; `snap[th]` the
document a call holds; `acked` the updates whose call has returned. `Touches` says which
tables an update changes: redeeming an enrollment writes tokens and enrollments.

*WorkerSystem.* `pc`, `call` and `task` are where a worker's loop stands, where its
request stands and the job it was handed; `server[th]` is who waits for the answer of
thread `th`; `dpc[j]` is where the dispatcher of job `j` stands. A request whose sender
gives up goes `astray`: it is served later or vanishes; two equal requests astray count
as one. A lost answer is a request given up before it is served. Enrollment runs on the
event loop in one step, the other worker actions in executor threads. A job id is a
uuid4 and is dispatched once. The backend's restart ends dispatchers and requests in
service; workers keep their token and go on.

*RuntimeOperations.* A progress is reduced to four flags: `known` (a record exists),
`running`, `stop` (stop_requested) and `stale` (120 s without a report while stopping).
`Write` is the update of memory under the state type's lock, `Save` the `persist` that
follows its release; `saving[a]` lies between. `Shown` is what the four progress getters
return: memory first for face matching, checks and cleanup; the database for file
analysis when no thread is registered; for a cleanup action without a record the single
running one. `Look` is one getter call of a start, in the code's order (`Rank`), and
`Blocks` what it does with the answer. A scan's start holds `_checks_start_lock` from
its first look to the launch; other starts hold nothing. `Report`, `FlushFinal` and
`End` are the writes of a run, `Fail` an exception without a last report, `Exit` the
`finally` clause. Simplifications: one user; a checks start looks at its own type, at
the other types and at face matching and so on once each, with the strictest of the
tests the code applies; registering and starting a thread is one step, on which nothing
else depends; stop and review requests are served one at a time; file analysis, which
reads the stop flag and writes it back a moment later, may write FALSE over it; a
stopping request for an unknown progress creates a record as the code does. A name
normalisation without mappings returns at once and is not modelled. The definitions of
`requestStopChecks` and `_isChecksStopRequested` at `imgdata.py:487` are dead: a second
method of the same name follows at 2759, and it is the one that is modelled.

*FaceMatchSearch.* A finding is a face, numbered; images are numbered in the order of the
walk. `thread` is the local state of a search: where it stands (`pc`), the image (`at`),
the faces left on it (`todo`), the match not yet kept (`result`), what it has collected
(`saved`) and how much of that is written (`flushed`). The four searches have actions of
their own (`WalkPhotoFaces`, `FileFace`, `NamedFace`, `RecognizedFace`, ...) over shared
parts (`Begin`, `Leave`, `Keep`, `Settle`), as the code has four functions over shared
helpers. `Start` is `start_discovery` with its resume cursor; `Raise` an exception anywhere
in a search, `HandleError` the handlers around it. `Decide` and `RemoveRead`,
`RemoveWrite` are a decision and the removal of its entry, `Apply` to `ApplyRaises` the
application of saved findings. `found` and `excused` are histories: what a saving search
matched, and what was lost in a way the property names. Coarser than the code: a progress
update writes memory and database in one step (`_setFaceMatchingProgress` persists after its
lock is released; `RuntimeOperations` has the two steps), and so does `RecordTransfer` with
the progress it has read. `Apply` keeps to the client, which offers the saved findings only
while nothing runs; the handler itself does not look (`face_match_workflow_service.py:405`),
and what it would do to a search at work is not covered.

*ChecksScan.* A finding is a number on an image. `record` is the progress with its resume
cursor (`path`, `pending`, `manual`), `remembered` whether memory holds it or only the
database; `scan` is the thread, `former` one that has written its list and not yet its
last report; `desk` is a request of the user between its steps. `Finish` first forces the
list out, which already reports the end (`flush_saved_checks_findings`), and `Leave` is
the last report. `ReadProgress` and `WriteProgress` are the two halves of
`refresh_scan_progress_for_image`. `snapshot` says that the type is `name_conflicts`,
whose refresh works on names and reads no image. A stop that the ExifTool reader sees ends
the scan as failed: of the two definitions of `requestStopChecks` the second is in force,
the set the first would fill stays empty, and so the handler for stopped scans
(`checks_workflow_service.py:1859-1894`) is never reached. Left out: a start beside a
scan that still works, which an older record put over the newer one lets through
(`RuntimeOperations` has that start).

*FileAnalysis.* Lists are numbered in the order they are written. `WriteList` writes one of
them; `Begin`, `Stop`, `Finish`, `CountFile` and `Raise` set out to write all
(`WritingAll`) and say what follows (`next`). `SetProgress` is the update of memory under its
lock (`imgdata.py:3369-3378`), `Store` the `persist` behind it (3380); `then` is where the
thread goes on once that has succeeded. `RequestStop` and `StoreStop` are the same two halves
of a stop request. `ReadFile` counts an image (6190) and takes up its face match candidates;
`Build` builds the entries of one more type (6200-6221). `Raise` is an exception at any step
inside the try, a failing `Store` or `Build` included: when the last report cannot be stored,
memory says that the analysis has ended while the handler writes every list again as failed.
`Die` is an exception outside of the try or in its handler. `Resolve` builds the list of a
resolved finding's image anew, `Withdraw` takes a name conflict out along with others of its
image, and `ScanWrites` is a check scan that writes a list with a status of its own
(`checks_workflow_service.py:222-248`), at any time and with any entries. Left out: a start
beside the thread of an analysis that has ended and is still in its handler. That the stop
request of a check raises inside the analysis too (`imgdata.py:716`) is one more `Raise`.

*Recognition.* `run` is the scan's thread: the persons (`who`, `i`), the images of one
(`items`, `at`), the window read in one batch, the references and what is left to judge.
`fetch` is the thread that reads ahead, `orphans` such threads nobody waits for. `active`
are the reviews in memory, `stored` the lists. Similarity is two sets, `Notable` and
`Safe`. `Sought` is what a scan looks for at one person. Histories: a scan and the list it
leaves carry which faces were passed over for a named reason (`over`), which lists of
persons the scans of this chain of resumes have gone through (`lists`) and what they look
for at the persons they have passed (`seen`); `unread` are images whose faces were lost with
a result, `late` excluded faces that are back for a named reason. `LeftOut` says what a
resumed scan starts behind: nothing beyond what was passed before while the list is the
same one, and whoever is in front of the index once it is not.
Profiles are kept for each state key (`_profile_state_key`): a run has the key of its
options, a stored list remembers the one it was found under (`OutKey`). A build reads the
exclusions only with `exclude_outliers` (`ReadExclusions`), which it may have or not. An
application of exclusions reads the profiles of its key and writes them in a step of its own
(`ReadToExclude`, `ApplyExclusions` of a scan; `ReadForDecision`, `Exclude` of a request), so
that two of them, or one and a build, may undo each other.
What is left out: hidden persons, image age, quality, two deciding requests at once, a change
of the model between a scan and the exclusion of what it found (the key names the model), and
a restart, which leaves only profiles and stored lists.

## Runs

Each run is finite by its constants alone; no state constraint is used. Counts are
distinct states. "Symmetry" appears only in runs without liveness properties.

| Run | Question | Instance | States |
|---|---|---|---|
| `queue_races` | do claims, reports, cancellations, re-submissions and pruning keep every record with its claimer; is the lifecycle implemented | two workers, one of which takes both kinds of job, two jobs, two threads, one retention period | 2,102,232 |
| `store_backend` | is an update atomic, durable and seen whole; does the lock come free | four tables, as in the code; three threads, three updates, failures and crashes at each step | 14,492 |
| `system_enroll` | is a job run once, by its claimer, and can an enrolled worker always report; codes and tokens; refinement of the queue | two workers, two tokens, two codes, one fault, one intervention, one time step | 2,816,943 |
| `system_ends` | is what is delivered produced, does a dispatcher with a deadline end, does a patient one get its outcome until something fails | one worker, one thread, a patient and an impatient job, one fault, one intervention | 175,701 |
| `system_result` (violation) | does a recorded result stay until it is consumed | one worker, one fault | |
| `operations_scans` | is a working scan shown as running and kept apart, does the start lock come back | a plain check type and one that is saved and refreshed, two starts at once, two runs; stops, reviews, staleness, errors, restarts | 1,399,732 |
| `operations_apart` | is there one operation at a time, when starts do not overlap in time; does a stop request end a cleanup run | scans, face matching and name normalisation, one start at a time, stops and reviews | 987,585 |
| `operations_overlap` (violation) | see *Findings* | smallest instance that shows it | |
| `face_match` | is a found face kept, is no image passed over, is a running progress worked on, does it end | six faces of all four searches on two images, three of them of known persons; two starts, two troubles (stop, failure, restart), one review | 1,121,960 |
| `checks_scan` | is no finding forgotten, does the record tell the truth, does a scan end | three findings on two images, two with a suggestion; two scans, two events (request, failure, restart) | 1,449,548 |
| `file_analysis` | do all parts end together, is what is counted written, does the analysis end | three findings of two types and the candidates' list on two images, all lists rewritten at the second; two analyses, three mishaps (stop, failure, restart, a finding resolved or withdrawn, a list written by a scan) | 1,065,209 |
| `recognition` | does a scan skip nothing, does an excluded face stay out of the profiles | six faces of a known and two unknown persons on six images, one of them missing; two profile keys (symmetric), builds with and without `exclude_outliers`; batches of two, at most two references; two starts, one trouble, one review | 2,850,495 |

Why the bounds are enough. Two workers and two threads give every pair of concurrent
claims and reports; a third actor of a kind would repeat one of them, as the code treats
actors pairwise (it compares the record's worker with the caller). Two jobs are needed
where one's submission prunes the other. The store has its four tables and enough
threads for a reader beside two writers. Scans need two types, since the code exempts a
start's own type from some of its tests, and a run more than starts, so that a start
finds a working run while another one waits. A patient and an impatient dispatcher share
one worker in `system_ends`, so that each may be served first. That a result does not depend on the bounds
is shown, where it matters most, by the proofs.

The four operations need two starts, so that one resumes where the other was left, and
more than one image or batch, so that there is a place behind which to resume. A face of
each search and one beside it on the same image, a finding beside another on its image, a
type that is only written with all the others, a person with more images than a batch
holds: each constant is there for a case the code distinguishes. Troubles and reviews are
bounded together; two of them give every pair, such as a stop and a restart. The file
analysis has three, as a report that cannot be stored makes sense only with something that
happens while the handler writes. `recognition` has one trouble and one review, each beside
two runs of any kind under equal or different keys: a decision, its exclusion and a build or
a scan at work are the actors that undo one another.

Deadlock is checked except where the system really comes to rest: in `system_enroll` the
worker has no token left once codes and the deletion are spent, and in the four operation
runs nothing happens any more when the starts, troubles and reviews are used up and no
thread works. That none of them comes to rest earlier is what the liveness properties of
three of them say.

Every property has a mutant in `PROJECT.json`: a changed definition under which TLC
finds that property violated by the same configuration. The operators that define the
changes stand beside the definitions they replace (`ClaimableAgain`, `ReceiveUnchecked`,
`EnterableAtOnce`, ...) and are used by nothing else.

## Fairness

* `StateStore!FairSpec`: a thread inside a call takes its next step. SQLite's busy timeout
  is finite, so its statements end.
* `WorkerSystem!FairSystem`: weak fairness of a running worker's loop, of a thread that
  serves a request and of a dispatcher that waits; strong fairness of taking a request
  up, since the executor serves its queue in order of arrival and no request waits
  forever while threads come free. The loop runs forever for `max_iterations <= 0`;
  nothing is assumed about who starts a worker after it has ended, about operators,
  administrators and the network. `DispatchEnds` thus rests on the dispatcher's deadline
  alone, `CalmDelivery` on workers that go on.
* `RuntimeOperations!FairSpec`: a run with a stop request comes to look at it (strong, as
  other reports may come between: the loops call `_shouldStop...` for every image, person
  or face), and a report that was written to memory is persisted (weak). The length of the
  work is not bounded, so `StopEnds` is about runs with a stop request and nothing is
  claimed of the others.
* `FaceMatchSearch!FairSpec`, `ChecksScan!FairSpec`, `FileAnalysis!FairSpec`: weak fairness
  of the working thread (and of a request between its steps, which face matching needs for
  the findings lock): threads are scheduled and calls to Photos and ExifTool have
  timeouts. Nothing is assumed of starts, stops, failures and the user. A walk over finitely
  many images then ends; the three properties except by name what leaves a progress
  running with nobody at work (`raised`, `amiss`).
* `Recognition` states no fairness: its termination is not checked, as liveness over its
  state space takes more than ten times as long as its invariants.

## Proofs

All theorems hold for every value of the constants under the named assumptions
(`NamesAssumption`, `TimeAssumption`, `StoreAssumption`, `SystemAssumption`,
`KeysAssumption`, `PhotosAssumption`, `OptionsAssumption`, ...), which TLC evaluates in every run of an extending module.

*WorkerQueue_proofs.* `TypeCorrect` first. `StepOfJob` reduces a step of the queue to
the six things that can happen to one record; `StepFields` says what each does to its
fields. From these follow `ClaimsAreUnique` (inductive with the type invariant),
`CancellationIsFinal`, `ClaimersSettle`, `SubmissionsAreHarmless` and the refinement
`QueueImplementsLifecycle`. Credentials need a strengthening: `CredentialInv` adds that a
token or code in the tables has been drawn and that each is drawn once; with it
`CodesAreSpentOnce`, `TokensArePerWorker` and `ClaimsKeepCredentials`, which also uses
that only the deletion of a worker takes its last token away, together with its claims.

*StateStore_proofs.* Under the premise `SingleProcess` (the lock is per process).
`IInv`: a thread in its critical section holds the lock, hence there is one; what it
has read equals the disk; the disk is whole. `NothingLost`, `NothingTorn`,
`ReadsAreWhole` and the refinement `StoreIsAtomic` follow. The premise is needed: with a
tool as a second process TLC finds an acknowledged update overwritten.

*WorkerSystem_proofs.* `LinkInv` relates the loop, its request and the executor thread
serving it; with it each system step is a queue step or leaves the queue alone
(`SystemImplementsQueue`). `RunInv` says who may still run a job: nobody once it was
claimed, except its claimer, once. `JobsRunOnce` and `TasksAreOwn` follow for any number
of faults, late requests, crashes and restarts. `OutcomeInv` follows a "completed" from
the worker that produced it through requests on the way to the record and its consumer:
`ResultsAreProduced`, `ConsumedIdsAreGone`. `HoldersCanReport` rests on the invariants of
links, runs and credentials together: the token a worker holds changes only while its loop
is down (`HeldChanges`), the queue accepted it for the claim, and what takes a token out of
the table takes the worker's claims with it or is an enrollment of that very worker. Its
premise is that `TokenReplaced` never happens: an administrator may issue a secret under the id
of a token that is in use, which replaces that token while a worker works with it, as TLC
shows. Everything else is allowed, tokens administrators issue under other ids, deletions of
workers and re-enrollments too; a worker enrolls only before its loop starts
(`api_loop.cpp:435-441`, `Enroll` at `pc = "down"`), so it never takes a new token with a job
in hand.

*RuntimeOperations_proofs.* `TypeCorrect`, `ScansAreAlone`, `ScansAreShown` and
`StartLockInUse`, for any number of types, starts and runs and under every incident.
`Plain` types are the checks that are neither scanned with `save_only` (`Saving`) nor
analysed anew from a review (`Refreshed`); `Scans(r)` is a working scan of such a type,
and the other types work beside it. `ScansAlone` is not inductive: a start must be known
to have looked. `ScanInv` adds that a start of a scan that looks or launches holds the
start lock (`LockHeld`, `LockInUse`), that no plain scan works of a type it has looked at
(`LookedAt`), that at the launch none works at all and memory says running
(`LaunchAlone`), that memory says running for every working plain scan (`ScanKnown`), and
that what writes a progress behind its run's back keeps to the other types
(`NoStranger`). The lemma `QuietStep` covers the steps that start no scan.

Two more hold under premises on what is requested and what may go wrong. `RunningIsWorkedOn`
(premise `Undisturbed`: no error, no restart, and no requested type is refreshed from a
review) needs that memory is written before the database (`KnownFirst`): a run that memory
does not know has left no running record. `OperationsAreAlone` (premise `Apart`) is about
starts that come one at a time, for checks that are not saved or refreshed, face matching and
at most one cleanup action, with errors and restarts but no record taken for stale. What
works is running in memory and nothing there is stale (`LiveShown`); of what a start has
already asked about nothing works (`NotYetLookedAt`), so that at its launch nothing does
(`LaunchesAlone`). None of the premises can be dropped: for each TLC finds two operations
at once, with two starters, the file analysis (shown from the database while its record is
late), a second cleanup action (the fallback of its getter, see *Findings*), a saved or
refreshed type, or a stale record.

*FileAnalysis_proofs.* `TypeCorrect`; then two inductive invariants. `EndInv`: the thread
works on the progress of the last start and its status is an outcome exactly when it is
about to end (`OnCourse`); what it is about to store is what memory holds, up to a stop
request (`Storing`); the lists before the one it writes carry that outcome or are a check
scan's, all of them do when it comes to the latest result, and the result does when it comes to
the last report (`EndSaid`); and once the thread is as good as gone, memory and database tell
the truth (`Together`). That last part does not hold while the thread is in its handler, where
memory may already say that the analysis has ended, so it is claimed when the thread is gone.
`EndsTogether` follows. `FoundInv`: no record counts more images than the thread has read, nor
one of the same job in the database, or in the hands of a stop request, more than memory
(`Counts`); the thread holds what it has found, but for the entries of the last image that are
not built yet (`Collected`); a finding may be missing from its list only while the thread is
about to build it or to write that list (`WrittenSoFar`, `Due`). An error in between puts what
is not built yet among the `lost`, and that is the only thing it may lose.
`WhatIsFoundIsWritten` follows, for any number of stops, errors, failing persists, restarts,
resolved or withdrawn findings and scans; `StoredStays` is the lemma that no step of the thread
takes a stored finding away.

*ChecksScan_proofs.* Two inductive invariants. `ScanIInv` adds to the types where the thread
may be with what in hand (`ScanOK`) and yields `TypeCorrect` and `ScansAreWorked`.
`NothingForgotten` speaks of the images a scan has passed, but a resumed scan takes that
place from the record, and the next write of a saving scan replaces the list by what the
thread holds. So `FindingsIInv` says it of the place the record names (`RecordCovers`), of
the image the thread is at and of its own copy of the list (`ScanCovers`, which also says
that the entries of the image in hand are still to be gone over), that the record does not
run ahead of the thread unless an older one was put over it (`Follows`), that a finding
being solved or handled is off its image (`GoneOK`), and that a list belongs to a saving
scan (`ListOK`). `LeavingCovers` and `FinishingCovers` carry it through the ends of a scan,
`RefreshedKeeps` and `BuiltAnewKeeps` through the user's changes. `NoFindingForgotten`
follows, for any number of findings, images and scans.

*FaceMatchSearch_proofs.* One inductive invariant `IInv` in three parts. `SearchIInv`: the
database holds the record of memory, or memory was emptied by a restart (`Persisted`), so
that what is shown is always what was stored; a thread or an application at work means a
running progress, and never both (`Apart`); `ThreadOK` and `ReviewOK` say what each may hold
where. With it `RunningHasAWorker`. `FoundIInv`: `FoundIsKept` does not survive the write of
a whole list, since a face might be in the stored list only; so the thread that has written
has every found face in its own list (`InOwnList`), and before a search reads the stored
list, or when it has returned, that list has them (`InStore`). `ImagesIInv`: the cursor, the
cursor of the start that a login error puts back, and the counted images are never ahead of
the image that is being examined (`CursorCovers`, `StartCovers`, `ImagesShown`), and the
cursor is of the thread's own search (`CursorIsThreads`). The lemma `WorkKeeps` reduces a
step of the thread to what it reports and what it has examined, `BesideKeeps` a step of the
user or a reviewer to what it leaves in progress and list; `NoMatchForgotten` and
`NoImagePassedOver` follow for all four searches, however often they are stopped, paused,
broken off and resumed.

*Recognition_proofs.* Three inductive invariants. `ExclusionInv`: what a build under the key
of the stored list has taken over holds no excluded face (`BuiltWithout`) and it knows those it
must leave out (`BuildKnows`), or a decision is about to take the face out, or it is among the
named exceptions (`late`); the profiles a scan or a request has read to take faces out of hold
none that is not the other's turn to take out (`ScanCopies`, `RequestCopies`), since whichever
writes last decides; a saving scan that only reports stores no exclusions (`OnlyReported`).
`ExcludedFacesStayOut` follows, for any keys and builds with or without `exclude_outliers`: a
build without it puts what is excluded at that time among the exceptions.

`SkipInv` is what `NothingSkipped` needs through images, pauses and resumes. At an image:
each face looked for is found, excepted, or on an image still to come (`ReadBase`), which
uses that the images of a person are gone through in ascending order, and an image counts
as looked at only once its result is there or known to be lost (`AtHand`, `CacheOK`). At an
entry: what is left to judge is in `rest` (`JudgeOK`). In a list that is stored or held by a
reviewer: what its scans have passed is covered by entries and exceptions, and for every
entry, since the scan may be resumed behind any of them, so is what is in front of it in the
list they all went through (`PayloadOK`); the scan says the same of itself (`CoverOK`), and
the index finds the same person again because lists and profiles name each person once
(`ListOK`, `ProfilesOK`). The lemma `ListedOK` carries it over into the resumed scan,
`EntryAdded` and `PlainOK` back into a list. `ScansSkipNothing` follows, for any faces,
images, batches, stops, lost results and decisions. That `Sorted` lists every element once and
in order is induction over data; it is had from the well-foundedness of `<` on the naturals
by taking least and greatest elements (`Least`, `Greatest`, `SortedAscends`), which no
induction scheme is needed for.

`TypeInv` adds to `SkipInv` what `TypeOK` says beyond it: only known faces, persons and images
are read ahead, passed over, decided on or built into a profile. `TypeCorrect` follows.

The type invariants of all modules are proved and not listed as properties of runs, which
they would hold in by the same proof.

Every safety invariant and action property of the passing runs is now stated by a theorem.
Only model-checked are the liveness properties (`LockReleased`, `DispatchEnds`,
`CalmDelivery`, `StopEnds`, `RunningEnds`, `ScanEnds`, `AnalysisEnds`: fairness and ENABLED
are beyond the prover), and that the premises of the conditional theorems are needed.

## Findings

Two runs show the code doing something that a document of the repository rules out;
`PROJECT.json` quotes it.

1. `system_result`: a recorded result whose answer is lost is turned into a failure.
2. `operations_overlap`: beside a cleanup action other than `normalize_names`, face
   matching starts once `normalize_names` has a record of its own in memory.

More behaviours of the code bound what the properties can say. The modules contain
them, and widening the instance named here makes TLC show them.

* A tool in a second process can overwrite an acknowledged update of the store: the
  store's properties take one process (`SingleProcess`).
* Two starts of different operations at once both start, as nothing is locked over the
  looks and the launch: `OneOperation` is checked with one starter.
* A refresh writes an old progress over a scan started meanwhile, and a saving scan says
  twice that it has ended, the second time perhaps of the next scan: `ScansAlone` is about
  the plain types.
* Opening the stored findings of a check type takes the stop request of its running scan
  back (`ReviewFindings`): `StopEnds` is about cleanup runs, which reports do not reset.
* A scan that dies of an image changed meanwhile leaves its record running, and a stop
  request then makes it one that is stopping (`docs/status-concept-integrated.md:270` wants
  no such message without a live worker): `Die`, excepted in `ScanIsWorked`.
* A stop seen while the entries of an image are resolved puts them into a cursor that a
  saving scan does not read; a name conflict that is handled takes others of its image
  out of list and cursor: `StopAtEntry`, `Snapshot`, excepted in `NothingForgotten`.
* A face matching search that fails rewrites the stored list as its own and as failed,
  without what it had found since the last write; a list written by another search is
  replaced unread: excepted in `FoundIsKept`.
* A stop request of the file analysis is stored after the lock was released and may put a
  running record over the last one: `StoreStop`, excepted in `AnalysisEnds` and, for the
  database, in `EndedTogether`.
* An image counts as analysed before its findings are built (`imgdata.py:6190`): after an error
  in between, the analysis reports it as counted and none of the findings that were not built
  yet is in a list. `Build`, `Raise`, excepted in `FoundIsWritten` (`lost`).
* When the last report of an analysis cannot be stored, memory says that it has ended while its
  handler turns every list and the result into failed ones: `Store`, `Raise`. `EndedTogether`
  holds again when the thread is gone.
* Check scans and the file analysis write the same lists, each with its own status and nothing
  that keeps them apart but the looks of their starts: `ScanWrites`, excepted by list in
  `EndedTogether` and `FoundIsWritten`.
* A build of the profiles without `exclude_outliers` takes excluded faces up again
  (`face_recognition_service.py:1337`), and one at work undoes an exclusion made meanwhile; of
  two exclusions at work the one that writes last undoes the other; a scan told to
  exclude by itself and stopped lists faces as excluded it has not taken out: excepted in
  `ExcludedStaysOut`. A decision writes back the list it has read and so brings back
  exclusions another scan has replaced meanwhile (`BroughtBack`); in immediate mode it may
  put an old place back into the active list, at which a new check of assignments then
  starts. An exclusion confirmed in immediate mode is in the active list only, and later
  builds read the stored one (`face_recognition_service.py:1335-1344`).
* A recognition scan that is resumed skips more than it has looked at when the place is gone:
  all further images of a person that no longer has the paused image (`742-745`), all further
  references of a profile that has lost the paused face (`1532-1542`), and, when the person
  itself left the list or the list was built anew in another order, whoever is in front of
  the stored index (`1500`, `1643-1646`, `1884-1888`): `PassedOver`, `NextProfile` and
  `LeftOut`, excepted in `NothingSkipped`.
* A decision made during a recognition scan reports it as not running, so that another may
  start; `Recognition` keeps to one.
* Secrets an administrator issues under the id of a worker's token replace that token while
  the worker works with it (`TokenReplaced`): the job it holds can no longer be reported.

## Plan

Done: the queue and its lifecycle, the store, the worker system, the runtime operations,
the file analysis, face matching, the checks scan and recognition, all with their proofs.
Next, in this order:

1. Proofs: `Recognition` as an implementation of an abstract scan that goes through a list of
   persons once.
2. `Recognition` composed with `JobLifecycle`: a batch is a set of jobs that are consumed or
   withdrawn; a backend restart; two scans or two decisions at once; termination on a smaller
   instance.
3. `FaceMatchSearch` with memory and database written in two steps, and with an application of
   saved findings beside a search.
4. `PipelineFactory`: the factory replaced for one operation and restored.
5. `SessionManager`: resume, keepalive and expiry from several threads.
6. `WorkerPresence`: `last_seen`, its persistence interval and staleness with a clock.
7. Name mapping and matching as functions against reference definitions over bounded inputs.

## Not modelled

Photos, file, ExifTool and parser code: input and output without state of its own that
steps interleave on; that a call fails is an event of the modules that call it. Image
decoding and the native processors: numerical code. The user interface: presentation that
polls the status routes. Configuration: one file read and written whole. Geometry and
similarity of faces: floating point, abstracted to which faces match. The normalisation of
names inside the cleanup actions: their starts, reports and ends are modelled, their work
is one table look-up per name. The session manager and the worker integration: planned.
The write lock per image serialises writes of one file; the modules take such a write as
one step. Waiting for SQLite's own lock: a call that waits too long fails, which `Abandon`
covers. Logging, messages and counters: no property here tells them apart. Hidden persons,
image age and quality in recognition: filters on its input.
