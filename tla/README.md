# A verification of RapidDFM in TLA+

RapidDFM analyses printed circuit boards for manufacturability: a browser
uploads ODB++ archives, an API creates analysis jobs, a worker runs them, and
the results page shows violations that a user may ignore. This directory holds
TLA+ modules of the system, the TLC configurations that check them, and proofs
for TLAPS. Paths are relative to the root of the repository.

## 1. Inventory

| Part | State | Operations | Talks to |
|---|---|---|---|
| API (`apps/api`, Go, Echo) | none between requests; one goroutine per request | handlers of `routes/*.go` | Postgres, S3 (presigned URLs), SQS, Cognito |
| Worker (`workers/dfm-worker`, Go) | channel of received messages, five goroutines with their private job rows, the list of the recovery sweep | `sqsPollLoop`, `sqsWorker`, `ProcessJob`, `updateBatchProgress`, `markJobFailedWithBatch`, `doRecovery` | Postgres, S3, SQS, sidecar |
| Sidecar (`sidecar/gerbonara`, Python) | none | `POST /parse` | S3 |
| Rule engine (`engine/dfm-engine`, Go library) | none | `Runner.Run`, deduplication, `ComputeScore` | called by the worker, the score also by the API |
| Browser: session (`lib/auth.ts`, `lib/api.ts`) | the ID token in localStorage shared by all tabs, the refresh token in a cookie, one refresh promise per tab | `apiFetch`, `refreshToken`, `signOut`, sign in, storage events | API, its own `/api/auth` routes |
| Browser: pages (`app/*`) | the rows and the step each page shows, requests under way | upload and packaging, polling, lists, batch page, share page, comparison, editors | API, S3 |
| Browser: board viewer (`BoardViewer.tsx`, `boardPainter.ts`, `ViolationList.tsx`) | hidden layers and their snapshot, filters, pan, zoom, fingers | toggles, focus, gestures, painting | the page around it, by props and callbacks |
| Postgres | organizations, users, profiles, projects, submissions, batches, jobs, violations, share links, usage events | single statements; only `CreateBatch` uses a transaction | |
| S3 | `submissions/...`, `results/<job>/board.json`, `results/<job>/violations.json` | put, get | |
| SQS | one standard queue of `{"jobId"}` | send, receive, delete, visibility timeout | |

API and worker never call each other. They meet in the rows of
`AnalysisJob`, `Submission`, `Batch` and `Violation`, in the two objects of a
job, and in the queue. Nothing locks: a handler or a goroutine reads a row,
works for milliseconds or minutes, and writes. What is hard is therefore

* duplicates: SQS delivers at least once, the sweep re-enqueues jobs that are
  still in a backlog, and `ProcessJob` does not look at the status of the job
  it fetches, so runs of one job may follow each other or overlap;
* stale copies: `ProcessJob` keeps the job row in memory and `Save` writes all
  of it back;
* partial failure: of the six writes of a run some errors end the run, some
  are logged, some ignored;
* crashes: the process has no signal handling (`cmd/worker/main.go:55`), a
  deployment kills it in the middle of a job;
* counters: a batch counts executions, reads the counters back in a second
  statement, and writes the verdict in a third; a retry resets them in between.

What makes the parts correct:

* **Pipeline.** A DONE job is complete (board, score, all violations of that
  score, objects behind the keys). No job and no submission hangs. A batch is
  final when all its submissions are processed, with exact counters and
  verdict.
* **Review of results.** The score of a job is the score of its violations that
  are not ignored, once concurrent waivers have finished.
* **Tenant data.** One default profile per organization; limits of the tier are
  not exceeded; an archived project stays archived; a user exists in Cognito
  and in the database or in neither; each analysis is billed once.
* **Session.** One refresh at a time in a tab, no session after sign-out, no
  session lost to mere expiry, every call ends.
* **Pages.** What a page shows belongs to what is selected on it, whatever order
  answers arrive in; it says "success" only of what succeeded, asks before it
  goes on past a failure, and never spins for ever.
* **Viewer.** Toggles mean what they say, the focus on a violation gives them
  back, two viewers that share a view agree, the board follows the finger.
* **Pure algorithms.** Billing periods partition time; board comparison matches
  each violation at most once; deduplication and score do not depend on order.

`PROJECT.json` lists the components with what is modelled of each, and the
hazards of the code at their lines with the properties aimed at them.

## 2. Modules

```
Rows  <-- Queue <-- Poller <-- Worker ----+
             ^                            +--> Pipeline <-- PipelineInv <-- BatchInv <-- MCPipeline
             +---- AnalysisApi -----------+        |              ^             ^
                                     JobLifecycle -+              |        BatchProofs
                                                                  |             v
                                                                  +-- PipelineProofs <-- LifecycleProofs
```

`Review` stands for itself: `Review <-- MCReview`, `Review <-- ReviewProofs`. So
does each part of the browser, and `MCWeb` puts them side by side:

```
Session  Upload  Tarball  SubmissionList  BatchPage  SharePage
Focus    Gestures  Compare  Painter  Admin               <-- MCWeb

Session <-- SessionProofs ----------------------------+
Upload, Tarball <-- UploadProofs ---------------------+--> WebProofs
Focus, Gestures, Compare, Painter <-- ViewerProofs ---+
MCWeb ------------------------------------------------+
```

| Module | Models |
|---|---|
| `Rows` | the shared rows and objects (`db/models.go`), the fault budget |
| `Queue` | SQS as the code uses it (external) |
| `Poller` | `sqsPollLoop`, the channel, `doRecovery` (`poller.go`) |
| `Worker` | `sqsWorker`, `ProcessJob`, `markJobFailedWithBatch`, `updateBatchProgress`; crash and visibility timeout |
| `AnalysisApi` | `StartAnalysis`, `SharedAnalyze`, `AnalyzeBatch`, `RetryBatch` |
| `Pipeline` | the composition, its fairness, its properties |
| `JobLifecycle` | the abstract specification: what is promised of one job |
| `PipelineInv` | the inductive invariant |
| `BatchInv` | the inductive invariant of the batch counters, and what it assumes of the service |
| `MCPipeline` | instances for TLC |
| `PipelineProofs` | the invariant proved inductive, and what follows from it |
| `BatchProofs` | the counters and the verdict of a batch |
| `LifecycleProofs` | `Pipeline` implements `JobLifecycle` |
| `Review` | the results page, `GetJob`, `GetViolations`, `UpdateViolation`, `BulkIgnoreLayerViolations`, late runs of `ProcessJob` |
| `MCReview` | its instance for TLC |
| `ReviewProofs` | its invariant proved inductive |
| `Session` | `apiFetch`, `refreshToken`, `signOut`, sign in, `AuthSync`, in several tabs, with Cognito and the `/api/auth` routes |
| `Upload` | the upload page: one board, a batch, retry, resume, and the pollers of `lib/poll.ts` |
| `Tarball` | `lib/tarball.ts`: reading a dropped folder and packing it |
| `SubmissionList` | the lists of the dashboard and of a project page |
| `BatchPage` | the page of a batch |
| `SharePage` | the public page of a share link |
| `Focus` | selection, filters, layer toggles and the viewer's focus, on the results page and the share page |
| `Gestures` | pan and zoom by fingers, mouse, wheel and buttons |
| `Compare` | the comparison page: two viewers that share one view |
| `Painter` | what `BoardViewer` paints of a board, and what `buildPaintList` lists |
| `Admin` | the editors of organizations and of capability profiles |
| `MCWeb` | instances of these eleven for TLC |
| `SessionProofs`, `UploadProofs`, `ViewerProofs` | the theorems of seven of them |
| `WebProofs` | those of the lists, the batch page, the share page and the editors, and of the eleven together |

**One step is one access** to the database, S3 or SQS; the code between two
accesses goes with one of them. `pc[w]` names the next access of goroutine `w`,
`request[h].pc` that of a handler.

**Payloads are run numbers.** A score, a board object, a violations object and a
set of violation rows are known by the run of `ProcessJob` that produced them.
That is all the properties need: DONE is complete when row, objects and
violations fit together. A run is given its number when it stores its board,
after the sidecar has answered. `violations[r]` counts the bulk inserts of run
`r`; every run needs `NumInserts` of them (a run without violations has no
insert and nothing that could be missing).

**A step that the code can leave in several ways has a disjunct for each.**
The infrastructure fails only through `Fault(kind)`, which spends a budget:

| kind | the code | consequence in the code |
|---|---|---|
| `save` | database error that `ProcessJob` returns | `markJobFailedWithBatch` |
| `swallowed` | database error that is logged or ignored | the code goes on |
| `s3` | upload of violations.json fails | logged, the old key stays |
| `send` | `SendMessage` fails | logged |
| `ack` | `DeleteMessage` fails | logged, the message comes back |
| `expire` | visibility timeout runs out on a message still held | second delivery |
| `crash` | the worker process dies | everything in memory is lost |
| `create` | inserting a job row fails | loop continues or request ends |
| `apiCrash` | the API dies within a request | the rest of the handler is lost |
| `backlog` | five minutes pass before a job is picked up | the sweep duplicates it |

An analysis that fails (sidecar, bad board, board upload) is no fault: it may
happen in any run (`AnalysisFails`).

**Time** appears twice: `Age(j)` says that job `j` is older than five minutes,
`VisibilityTimeout` that SQS gives a message back.

Left out of these modules: dev mode (`pollDB`, inline board data), messages that
do not parse (the API sends none), the rows that only single steps read
(profiles, quotas: a failed lookup is `AnalysisFails` or no request), logging
and tracking. The submissions are uploaded and the batch is created before a
behaviour starts.

**`Review`** looks at one job from the other side. A violation is a pair of a run
and a defect, since every run inserts rows of its own with new ids; a score is
the set of violations it was computed from. A run of `ProcessJob` is reduced to
its accesses to the job row, the violations and violations.json (`Worker` has the
rest), in the same order and with the same whole-row `Save` of a private copy;
several runs may overlap. A visit is one mounting of the results page: it loads
the job and the list (from S3 when the job has a violations key, from the table
otherwise), changes its flags at once on a click, and restores the old ones when
the call fails. A single waiver and a waiver by layer and severity differ only in
the violations they select, so both are `Click`, and both handlers are the steps
`UpdateIgnored`, `ReadActive`, `WriteScore`. The faults of these handlers are `read` and
`score`: neither the error of the `Find` nor that of the `Updates` of the score is
looked at (`jobs.go:136`, `149`, `194`, `204`), so that the handler answers 200 and a
wrong or the old score stays; `api` ends a handler between two statements. Three history
variables say what was asked for, which violations of a page nothing else interfered
with, and whether there was only one run and one call at a time.

**The browser modules** have one thread each: a step is what runs between two
awaits, one event handler, one render or one effect. A request is two steps or
three: it is sent, the server executes it (where that time matters), and the
answer reaches the page. What a handler keeps from the render that started it is
part of the request. A page that is left forgets its state; a handler of it that
goes on changes nothing any more.

* `Session`: a token is its owner and its age, `good` or `old` (within two
  minutes of its expiry, or past it). Tabs share `stored` and the cookie; `told` is
  a storage event on its way. `refresh[tab]` holds the requests, `inFlight[tab]` the
  promise of `refreshInFlight`. The faults are counted by `mishaps`. `holder` is a
  history variable: who signed in last, `Unknown` after a sign in with something
  under way and from a sign out on, and nobody from the moment the request of a sign out
  has cleared the cookie with no token left in the store or in an answer to a refresh.
  Calls, 401s and refreshes do not change it.
* `Upload`: `task` is the handler that runs and the request it awaits; the controls
  of a step are what the page renders in it. `inS3` and `jobOf` are the server's.
  After `createBatch` the uploads of a batch end in any order.
* `Tarball`: the recursion is a stack of directories; a path is its length and the
  positions of its slashes, which is what `splitTarPath` looks at.
* `SubmissionList`: one submission, and the job its row stands for; fetches overlap.
* `SharePage`: a load is a job and the answers it still awaits. `leftLoading` is history: the
  jobs whose loads were under way when "Back" was last pressed.
* `Focus`: a violation is picked from the list or on the canvas, if the filters show
  it there. `wished` and `leftFocused` are history: the toggles chosen out of focus,
  and that the viewer of the share page was left while it focused.
* `Gestures`: one dimension. A zoom moves the pan to a place that depends on
  fractions, so it is any place.
* `Compare`: a view is a number. A render and its effect are two steps.
* `Painter`: one feature is followed, with its kind, its layer and where it lies;
  the board and the toggles are arbitrary. A layer is what its name says, as in the
  code, but for the gate of vias and drills, which reads its type. The parser decides
  which features there are: drills are of drill layers, vias of any layer that is not of a
  copper type (`CopperTyped`), because a donut on a mask or a paste layer becomes a via
  (`parser_odb.py:1143-1151`), and either may be of no layer in older analyses.
* `Admin`: a request carries the row it is about and the row that was selected when
  it was sent. `crossed` is history: another row was selected in between. Organizations
  are listed newest first, profiles oldest first.

## 3. Properties and runs

| Run | Instance | Checks |
|---|---|---|
| `pipeline_duplicates` | 1 job, 2 goroutines, 2 inserts a run, 3 runs, 2 faults of backlog/save/s3 | `TypeOK`, `DoneIsComplete`, `BlobIdsExist`, `ImplementsLifecycle` |
| `pipeline_faults` | 2 jobs, 1 goroutine, a batch analysis and any other request, 1 fault of any kind | `IInv` |
| `pipeline_liveness` | 1 job, 2 goroutines, 4 runs, 1 fault of any kind but `swallowed` | `PendingIsPickedUp`, `ProcessingEnds`, `AnalyzingEnds` |
| `batch_exact` | a batch of 2, 2 goroutines, 1 fault of send/save/s3 | `ExactInv`, `FinalWhenProcessed`, `VerdictExact`, `BatchFinalises` |
| `batch_retry` | a batch of 2, 3 jobs, one retry against two goroutines | `CountersExact` |
| `finding_batch` | as `batch_exact`, with a backlog | `FinalWhenProcessed` is violated |
| `finding_terminal` | 1 job, a failed delete | `TerminalIsFinal` is violated |
| `finding_retry` | a batch of 1, two retries | `CountersExact` is violated |
| `review_score` | 2 defects of different severity on a layer, 2 clicks, 3 runs and visits together, 1 fault of any kind | `ReviewInv`, `UnwaivedCounts`, `ScoreExact`, `PageSettles` |
| `finding_waiver` | 1 run, 1 click, no fault | `WaiverShown` is violated |
| `web_safety` | all eleven browser modules, one in each behaviour | `WebTypeOK` and the seventeen properties below |
| `web_liveness` | session, upload, list and batch page | `TabsFollow`, `CallsEnd`, `SpinnerStops`, `ListSettles`, `BatchFollows` |

What the passing runs show:

* `DoneIsComplete` says that what a DONE row shows is there: board key and
  board object, a score, all violation rows of the run this score comes from,
  and an object behind the violations key. Two overlapping runs
  of one job, one of which fails after its inserts or before its upload, do not
  break it, because each run writes its whole row last and from its own data.
  The order inserts, upload, final Save is what it rests on: the mutants that
  drop an insert or swap inserts and upload break it.
* `BlobIdsExist`: what the results page reads from violations.json can be found
  by `UpdateViolation`.
* `ImplementsLifecycle`: whatever is behind it, one job behaves like
  `JobLifecycle`. In particular nothing becomes DONE without having been
  PROCESSING, nothing becomes PENDING again, and a score is shown only when the
  result it belongs to is stored.
* `IInv` is the invariant of the proofs, here against every kind of fault.
* Liveness: a job whose message was never sent, was lost with the worker, or
  whose delete failed, ends nevertheless; the sweep covers PENDING, the undeleted
  message covers PROCESSING. Neither covers both, and each is needed.
* `batch_exact`: without duplicates, increment and read-back in separate
  statements are enough. The later goroutine sees both counts, a stale
  verdict cannot be written last, and no batch is final early. `ExactInv` is the
  invariant that proves it, and it implies `CountersExact`; `batch_retry` checks
  `CountersExact` itself, against a retry.
* `ReviewInv` is the invariant of the proofs about the review of results.
* `UnwaivedCounts`: whatever waivers, restores and late runs do to each other, a
  defect that nobody asked to waive counts in the score of a DONE job. The
  exception, an error of the `Find` that reads the active violations
  (`jobs.go:136`, `194`), is in the model: the error is not looked at and 100/A
  is written.
* `ScoreExact`: with one run and one call at a time the score is that of exactly
  the violations that are not waived, unless the fault hit a handler of a waiver: a
  score update that fails unnoticed leaves the old score, as the model shows. The other
  faults, of a run or of the network, do not matter. `orderly` cannot be dropped. Two
  overlapping calls may write their scores in the other order than they read the
  rows; drop `orderly` from the property and TLC shows it in eighteen steps, with one
  page and two clicks. A second run replaces waived rows by new ones that are
  not waived.
* `PageSettles`: the flags on a page end as those of the table, refused calls on
  a mixed selection included, for the violations on which no other call of this
  or another page interfered and no answer was lost.

`MCWeb` chooses a route first and then takes the steps of that module only. The
parts share no variable that a step of one and a step of another both write, so
no behaviour is lost by taking them one at a time; it saves a run each. What
`web_safety` shows:

* `SingleFlight`, `RetryIsFresh`, `KeepsSession`, `SignedOutStays`: parallel 401s of
  a tab make one refresh; a call is sent again only with a token just issued, even
  when a sign out removed the stored one in between; expiry alone never ends a
  session, in however many tabs it is noticed; once the cookie of a sign out is cleared
  and no token is left or on its way, none is stored until the next sign in, whatever
  calls the tabs still make and retry. The premises are real limits of the code. Until
  the cookie is cleared, and for good when that request is lost, a call that gets a 401
  refreshes with the living cookie and stores a token (`api.ts:229-234`,
  `auth.ts:119-138`); a refresh answered before stores its token after. The model has
  these behaviours, and the property begins after them. One failed refresh removes the
  token that another tab has just renewed (`api.ts:236-243`), so `KeepsSession` is of
  behaviours without faults.
* `RetryHasFile`, `SuccessIsTrue`, `AsksFirst`: the flag behind "Retry analysis"
  survives no change of the selection that would make it lie; the success
  message is shown only when every board is in S3 and analyzed, although the API
  also starts jobs for boards whose upload failed; and no failed upload of a batch
  is passed over without the question. For `SuccessIsTrue` a board without a file
  fails in the worker: that is what makes it true after "continue".
* `FolderComplete`: the archive has every file of the folder, in headers with room
  for their parts, whatever batches the browser hands the directories out in.
* `OneOverview`: an effect that depends on the cache it writes asks for the counts
  once at a time.
* `SharedMatches`: job, board and violations shown are of the selected job or of one that
  was still loading at the last "Back". Loads are not cancelled, so such a job's answers do
  come over those of the selected one (`page.tsx:122-142`); no other job's can, because
  "Back" clears what is shown.
* `FocusRestores`, `PickedStays`: with nothing picked the layers are those the user
  chose; a violation that is picked does not vanish with the layers the focus
  hides. The instance has a violation on a layer the board lacks, and the property
  leaves it out: its focus hides every layer.
* `NoJump`: after any sequence of fingers put down and lifted, on the canvas or
  beside it, the first move of a single finger shifts the board by just that move.
* `InSync`: the effect may put an older view over a newer one; at rest both
  viewers agree all the same. It assumes that no user moves both viewers between
  two renders.
* `ToggleRules`: "predictable on/off control" (`BoardViewer.tsx:285-306`): the toggle of
  its own layer alone decides whether a feature is painted. There is one exception, stated
  by `LeftByGate`: the vias of layers that are neither copper nor drill layers go as
  soon as no copper and no drill layer is on (line 301), whatever their own toggle says.
* `PaintersAgree`: the paint list "mirrors BoardViewer.tsx" (`boardPainter.ts:12`) in all but
  four things, and these it names exactly. Only the list has the copper of layers named
  like drills, which its `isCopperLayer` does not except, and the vias of
  `LeftByGate`; only the canvas has the fills of copper and the routing. `Comparable` says
  where the comparison makes sense: on a board that is not empty, in view, not too small,
  with no other violation selected.
* `FormMatches`: the fields a save would send, and the users and statistics beside
  them, are those of the selected row, unless another row was selected while an
  answer about the first was awaited.
* `WebTypeOK`: the types, among them that a poller retries a bounded number of times,
  and the inductive invariants of section 4. Part of it is `BatchPage!VerdictShown`: the
  verdict on the page of a batch is the batch's until a retry is accepted, unless a
  request failed; what it rests on is that the poll has stopped whenever a retry may be
  clicked (`OneAsker`), so that no old answer comes after a new one.

What `web_liveness` shows: every tab comes to the login page when the token is
gone, every call ends, no page spins for ever whatever the worker does, a row does
not stay ANALYZING once its job is over, and a batch page left open reaches the
verdict, unless a request failed, five minutes passed or the batch was retried (the
page does not follow a retried batch).

What the findings show is in `PROJECT.json`: the counters count executions, not
submissions (`finding_batch`); terminal states are not final (`finding_terminal`);
the reset of a retry is not tied to the submissions read (`finding_retry`);
the list a page loads does not know of waivers (`finding_waiver`).
A fourth disagreement needs no fault and no duplicate: the late write of a final
status (`worker.go:290`) after `RetryBatch` has reset it. It shows when
`finding_batch.cfg` is given one member (`Subs = {s1}`, `BatchOf <- MCOneInBatch`),
two requests (`Requests = {h1, h2}`, `Calls <- MCAnalyzeRetry`) and `MaxFaults = 0`.

**Bounds.** `Jobs`, `Subs`, `Batches`, `Workers`, `Requests` are sets of model
values; `MaxRuns` ends behaviours with ever more runs; `MaxFaults` bounds the
faults of one behaviour; `MaxCopies` keeps the sweep from sending a message that
many copies of which are outstanding; `NumInserts`, `MaxReceive` and `ChanCap`
are the program's 2000-row chunks, 10 messages and 10 places, made small. Jobs
share nothing but the channel and the batch row, so one job with two goroutines
shows every overlap of two runs, and two jobs show every meeting in the batch
row. Two faults are needed where a duplicate run is itself the result of one
(`pipeline_duplicates`). In the liveness run `MaxRuns = 4` is more than one fault
can cause, so no behaviour waits for a run number. In `review_score`, `MaxActors = 3` leaves two runs and a visit, or a run and two
visits: what it cuts off is two pages against two runs. Visits are symmetric
(nothing distinguishes them), so the configuration declares the symmetry.
`CHECK_DEADLOCK FALSE`: when
all requests are done and the queue is empty the instance stops; a running
worker would go on polling.

In `web_safety` there is one user (the theorem `SignedOut` is of any number), and there
are two tabs, two calls between them and two refreshes in each (the least in which a
refresh is shared, and one overlaps another tab's), at most one mishap; three files, so
that a batch can fail in part and a file can be removed from it; two fetches at a time;
two jobs, two loads and one upload on the share page (no property is about its uploads);
three fingers, for a pinch and one more; two positions, two zooms; six layers: copper,
silk, mask, a drill layer named so, one that only its type says is one, and rout; two
rows and four requests of an editor. `web_liveness` has one call, because a call waits
for nothing but its own request and the refresh it joins. The slots of calls, loads and
fetches are used again, so their number bounds what is under way, not how often.
Pages come to rest when nothing is asked of them, hence `CHECK_DEADLOCK FALSE`.
Nothing distinguishes two tabs, so `web_safety` declares their symmetry; `web_liveness` does not.
The focus has three violations there (on a layer of the board, on the old name "drill",
on a layer the board lacks); one without a layer is left to the proofs, which hold for
any list.

**Fairness** (`Pipeline!Fairness`) is weak fairness of each goroutine
(Go schedules runnable goroutines and every call has a timeout or an error), of
the poll loop and its receive (it loops for ever), of the sweep (a ticker), of
SQS returning unacknowledged messages, of each accepted request, and of time
passing. Nothing is assumed of clients, of faults, or of the outcome of an
analysis: the fairness of a goroutine is of its disjunction of steps, failing
ones included.

In the browser it is weak fairness of answers or failures of requests (the disjunction:
`fetch` settles), of promises settling, storage events, timers and intervals. Two
assumptions are stronger, both of the network: a poll that asks again and again is
answered at some time (`SF(PollAnswered)`; its bounded retries end it otherwise), and
not every fetch of a list fails for ever. Nothing is assumed of users or of the worker.

## 4. Proofs

Every theorem holds for all values of the constants: any number of jobs,
submissions, batches, goroutines, requests, inserts, runs and faults; of visits,
calls, defects and layers; of tabs, users and refreshes; of files, folders, retries,
loads, fetches, rows, views, violations, fingers and zooms. Of the constants the
proofs assume what the modules state in their `ASSUME`s, which are types, sizes that
are positive, and names of "none" that name nothing; that a folder is a tree; and
that `Routes` names pages. `Subs` is finite because `RowsInit` counts members. `ReviewAssumption` and `AdminAssumption` are not needed.
Only the theorems about batches have hypotheses, given below.

| Module | Theorem | Says |
|---|---|---|
| `PipelineProofs` | `Invariance` | `Spec => []IInv` |
| | `TypeCorrect`, `DoneComplete`, `BlobBacked` | `Spec => []TypeOK`, `[]DoneIsComplete`, `[]BlobIdsExist` |
| `LifecycleProofs` | `Refinement` | `Spec => ImplementsLifecycle` |
| `BatchProofs` | `CountersAtRest` | `Undisturbed` gives `Spec /\ []Apart => []CountersExact` |
| | `CountersOfTwo` | `Undisturbed`, `OneOfEach` give `Spec => []CountersExact` |
| | `FinalLast`, `VerdictRight` | `Undisturbed`, `AnalyzeOnly`, `HaveMembers` give `Spec /\ []Apart => []FinalWhenProcessed`, `[]VerdictExact` |
| | `ExactHolds` | `Undisturbed` gives `Spec /\ []Apart => []ExactInv` |
| `ReviewProofs` | `ReviewHolds` | `ReviewSpec => []ReviewInv` |
| | `UnwaivedDefectsCount`, `ScoresExact`, `PagesSettle` | `ReviewSpec => []UnwaivedCounts`, `[]ScoreExact`, `[]PageSettles` |
| `SessionProofs` | `SessionTyped`, `OneRefresh`, `RetriesFresh`, `SignedOut` | `SessionSpec => []SessionTypeOK`, `[]SingleFlight`, `[]RetryIsFresh`, `[]SignedOutStays` |
| | `SessionKept` | `SessionSpec => KeepsSession` |
| `UploadProofs` | `UploadTyped`, `RetriesHaveFile`, `SuccessTrue` | `UploadSpec => []UploadTypeOK`, `[]RetryHasFile`, `[]SuccessIsTrue` |
| | `NeverSilent` | `UploadSpec => AsksFirst` |
| | `TarballTyped`, `HeadersGivePaths` | `TarballSpec => []TarballTypeOK`, `[]HeadersJoin` |
| | `FolderWhole` | `TarballSpec => []FolderComplete` |
| `WebProofs` | `SharedIsSelected` | `SharePageSpec => []SharedMatches` |
| | `CountedOnce` | `ListSpec => []OneOverview` |
| | `OneRowShown` | `AdminSpec => []FormMatches` |
| | `VerdictsHold` | `BatchPageSpec => [](VerdictShown /\ OneAsker)` |
| | `EveryPageKeeps` | `MCSpec => []WebTypeOK` |
| `ViewerProofs` | `TogglesRestored`, `FocusShows` | `FocusSpec => []FocusRestores`, `FocusSpec => PickedStays` |
| | `NeverJumps` | `GestureSpec => NoJump` |
| | `ViewersInSync` | `CompareSpec => []InSync` |
| | `TogglesRule`, `Agreement` | `PainterSpec => []ToggleRules`, `[]PaintersAgree` |

**Pipeline.** `DoneIsComplete` is not inductive: a goroutine about to save DONE must
hold a copy that is complete. `IInv` adds

* `CreatedOnly`: every id in queue, channel, goroutines, sweep and handlers names
  a row that exists, so that no Save creates a row;
* `RunsOwned`: run numbers are unique to goroutines and never reused, and the
  violations of a run are under its job, so that a duplicate cannot complete
  another run's inserts;
* `CopiesSound`: what each private copy may say at each step. A stale copy is
  harmless because whatever it says was true when it was read, and the things
  it speaks of (stored inserts, objects) never go away;
* `RowsSound`: the same of the rows, for every status, because a failed or
  restarted job keeps the keys and the score of an earlier run.

The proof has a lemma for each kind of write (job rows, violations, objects)
saying which actions make it and what it preserves, then one lemma for each
conjunct of the invariant. The refinement maps a run's last insert to `Store`, the
final Save to `Complete`, the claim to `Start`, a failure to `Fail`, and
everything else to a stutter; it uses `CopiesSound` for the claim, which may bring
back the score of an earlier read.

**Batches.** The counters of a batch count executions, so they are exact only when no
submission is analysed by two executions at a time. `BatchInv` follows that from the
message: a job is sent once, its message is in exactly one place (queue, hands of the
poll loop, channel, one goroutine), it is deleted after the job has ended, hence one
execution of a job; and the jobs of a submission come one after the other, because a
request takes only submissions that are UPLOADED or FAILED and these have no live job
(`LiveOnce`, `RequestsSound`). Then each counter balances (`Balanced`): what it says,
with the goroutines that have updated a submission and not counted it, and the
submissions a retry has taken out and not yet marked, is the number of DONE or FAILED
submissions. At rest nothing is on its way. `VerdictInv` adds that whoever counts last
is on its way to the verdict, and that a verdict held or written is the right one.

The hypotheses are what the findings leave:

* `Undisturbed` excludes lost acknowledgements, expiry, crashes, lost updates and a
  backlog (`finding_batch`), and sets `MaxCopies = 1`. A failed job insert is allowed
  but for a retry, which has taken the submission out of the counter by then.
* `Apart`: no two requests work on one submission at a time (`finding_retry` is two
  retries that do). It is about the clients, so it is a premise of the behaviour;
  `CountersOfTwo` shows that one analysis and one retry are apart by themselves, with
  nothing said of when they come.
* `AnalyzeOnly`, for the verdict: the late write of a status after a retry's reset is
  the fourth disagreement of section 3.
* `HaveMembers`: `CreateBatch` refuses a batch without files (`batches.go:52`).

The instance of `batch_exact` satisfies all of them, its single request being apart
from any other; that of `batch_retry` satisfies `OneOfEach`.

**Review.** `UnwaivedCounts` needs to know what a handler is about to write. `CoverInv`
says that rows come first: a job is DONE, a page is open and a call exists only after
some run has inserted all its rows (`RowsFirst`), and only asked-for rows are
waived (`WaiversAsked`). So the rows a handler reads contain every untouched
defect, and stay a cover when more is asked for or inserted (`ScoresCover`); a run
about to finish carries the score of its own rows (`RunsSound`), whatever it
overwrites. `ReviewInv` has two more parts. `ScoreInv`: while `orderly`, the one run
is over before anything is shown or clicked and there is one call, so that, while no
handler of a waiver had an error, what it has read is not out of date when it writes. `PagesForetell`: the call under
way on a trusted violation came from its page, which shows already the flag asked for;
the table has the flag of the snapshot before the update and the asked one after it,
so that either answer leaves page and table alike.

**Session.** `SessionInv` says that the promise a tab keeps is the one refresh of its own that
is not over (`FlightIsPending`, which is `SingleFlight` and more); that a refresh
holds a new token or none (`TokensAreNew`, for `RetryIsFresh`); that while nobody is
signed in there is no cookie and no token, so that a refresh, whoever starts it, is answered
without one, and that otherwise every token is the holder's (`HeldByHolder`, for
`SignedOutStays`); and that without mishaps the
cookie of the holder lives and its refreshes are answered with tokens
(`CookieLives`, for `KeepsSession`).

**Pages.** `UploadInv` ties the handler that runs to the selection it was started for: no
handler of one board runs while a batch is selected, and the reverse
(`TaskOfSelection`), because no control changes the selection while a handler
runs. Hence the flag of "Retry analysis" is about the selected board and is unset
wherever a board may be selected (`UploadedLast`); a job that is done had its file
(`JobsHaveFiles`); the page is done when every job is over (`DoneIsOver`). `AsksFirst`
needs no invariant: it is a property of every step.

`TarballInv` follows every file of the folder to the archive. `NothingLost`: there is a set
of opened directories such that each entry of one of them is opened as well, or some
call of `readDirectoryEntry` has it still to read or has found it. When the outermost
call returns, the opened directories are closed under children, so they are all of
them: `TarballAssumption` says what a tree is, that a set with the dropped folder and the
children of its members is the whole. The same assumption gives `PathOf` its equation:
partial solutions exist for every directory and agree (`TreeInduction`, `SolutionsExist`,
`SolutionsAgree`), so the recursive function that TLC computes is the path a call of
the recursion passes down (`CallSound`). Only a list whose paths all fit is buffered and
archived; that the two parts of a path join to it again is a lemma about `splitTarPath`
(`SplitJoins`): it cuts at the last slash that leaves room.

`LoadsOfSelected` adds to `SharedMatches` that the loads themselves are of the
selected job or of one left loading. `ListInv`: while the counts are asked for, the entry of the cache
says "loading", which is what keeps the effect from asking again. `AdminInv`: until
another row is selected, what is shown and what is awaited is about the row in the
fields, also while no row is selected; `AdminTypeOK` is inductive by itself. `BatchPageInv`
adds to `VerdictShown` what it needs of answers on their way (`AnswersHold`): one that is
a verdict still is the batch's when it arrives, because only a retry takes a verdict back,
and a retry is not started while an answer of the poll is awaited.

`EveryPageKeeps` puts the eleven together. A behaviour of `MCSpec` stays on its route;
`WebInit` and `WebStep` hand each first state and each step to the lemmas of that page
(`SessionStep`, `UploadStepInv`, ...). So what `web_safety` checks as one invariant holds
of any number of tabs, files, folders, jobs, fingers and rows.

**Viewer.** `FocusInv` says that the snapshot, while there is one, is what the user
chose, and the hidden layers are otherwise. `PickedStays` is about single steps: what
the focus leaves on includes a layer the violation is listed under; for the two names
old analyses give to layers ("drill", "copper") at least one layer of their kind
remains. `GestureInv`: until a second finger makes it a pinch, the place remembered is
that of the finger on the canvas, and every finger on the canvas is on the screen; none
is there twice, which makes lifting one of them remove that one.
`CompareInv` follows the view from the viewer that moved to the page, the render and
the effect: the viewer that did not move last shows what was rendered last, and so does
the other one when nothing newer is to be rendered. The painting theorems go by the
kind of the feature: for each kind, what its layer's toggle and the classes of layer
names say. A feature of a copper or drill layer opens the gate by itself while its layer is
on (`OwnLayerOpens`), which is why the gate can leave out only vias of other layers.

**Only model-checked**:

* everything under fairness: `PendingIsPickedUp`, `ProcessingEnds`, `AnalyzingEnds`,
  `BatchFinalises`, `TabsFollow`, `CallsEnd`, `SpinnerStops`, `ListSettles`, `BatchFollows`.
  Liveness is out of the prover's reach;
* the properties of batches outside the hypotheses above, where they fail.

Every invariant and every action property of a passing run is stated by a theorem.

## 5. Plan

1. *Done*: the analysis pipeline with its abstract specification, runs, findings
   and proofs, the batch counters included.
2. *Done*: `Review`, the waiving of violations against late runs of the worker, and
   its proofs.
3. *Done*: the browser, and the proofs of its safety and action properties. Open: the
   upload page and the pollers against `JobLifecycle` as their environment.
4. `Tenant`: default profile (`profiles.go`, `defaults.go`), limits and overage
   (`quota.go`), share links (`share.go`), project archive (`projects.go`), users
   in Cognito and the database (`organizations.go`), one action per statement.
   Theorem candidates: type correctness, limits under serialised requests.
5. `Algorithms`: `billingPeriod`, `matchViolations`, deduplication, `ComputeScore`
   as functions against reference definitions, with lemmas where no induction over
   data is needed.
6. Extensions of the pipeline: dev mode (`pollDB`); counters with a backlog as long as
   the sweep's copies are answered in order.

Not modelled: the geometric rules of the engine and the ODB++ parser (floating
point and text conversion); PDF layout; the technical and landing pages (static
text, a tenth of the code); colours, text and shapes of the canvas
(`canvasRenderer.ts`, the grid and the component boxes of `BoardViewer.tsx`); toasts,
theme and cached settings; the new-password and forgotten-password forms, and the
dialogs of the lists (one request after another, whose state nothing else reads);
deployment files.
