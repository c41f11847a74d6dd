----------------------------- MODULE SubmissionList -----------------------------
(***************************************************************************)
(* A submission in the list of the dashboard or of a project page, for a   *)
(* user who may write: fetches that overlap (at mount, every 5 s while it   *)
(* is shown ANALYZING, on focus, by hand, after a retry), the retry of its *)
(* analysis, its removal from the project, and on the dashboard the panel  *)
(* with the counts of its violations.                                      *)
(*                                                                         *)
(* A row is a status and the number of the job it stands for.  A fetch is  *)
(* answered by the API at one time and reaches the page at another.        *)
(*                                                                         *)
(* External: the API and the worker, who change the submission.            *)
(***************************************************************************)
EXTENDS Naturals

CONSTANTS
    MaxFetches,   \* bound: fetches at a time
    MaxJobs       \* bound: jobs of the submission

ASSUME ListAssumption == MaxFetches \in Nat \ {0} /\ MaxJobs \in Nat \ {0}

VARIABLES
    listPage,   \* "dashboard" or "project"
    actual,     \* external: the row the API would answer
    listed,     \* the row the page shows
    listError,  \* error is set
    listLoaded, \* the first fetch is over
    fetches,    \* the requests of fetchSubmissions, fetchData
    starting,   \* handleRetry awaits startAnalysis
    retryOn,    \* the fetch handleRetry awaits, 0 for none
    removing,   \* handleUnassign awaits its request
    panel,      \* the details are open
    overview,   \* overviewCache: the job whose counts it holds
    counting    \* the requests getViolations of the panel

listVars == <<listPage, actual, listed, listError, listLoaded, fetches, starting,
              retryOn, removing, panel, overview, counting>>
panelVars == <<panel, overview, counting>>
retryVars == <<starting, retryOn>>

Slots == 1 .. MaxFetches
Jobs == 1 .. MaxJobs
Absent == [status |-> "absent", job |-> 0]
ListRow == [status : {"UPLOADED"}, job : {0}]
           \cup [status : {"ANALYZING", "DONE", "FAILED"}, job : Jobs] \cup {Absent}

Unsent == [pc |-> "unsent", row |-> Absent]
Fetch == [pc : {"unsent", "sent", "failed", "answered"}, row : ListRow]

Uncounted == [state |-> "none", job |-> 0]
Overview == [state : {"none", "loading", "error", "counted"}, job : 0 .. MaxJobs]
CountSlots == 1 .. 2

ListTypeOK ==
    /\ listPage \in {"dashboard", "project"}
    /\ actual \in ListRow /\ listed \in ListRow
    /\ listError \in BOOLEAN /\ listLoaded \in BOOLEAN
    /\ fetches \in [Slots -> Fetch]
    /\ starting \in BOOLEAN /\ retryOn \in 0 .. MaxFetches
    /\ removing \in BOOLEAN /\ panel \in BOOLEAN
    /\ overview \in Overview
    /\ counting \in [CountSlots -> 0 .. MaxJobs]

(* The page mounts and fetches. *)
ListInit ==
    /\ listPage \in {"dashboard", "project"}
    /\ actual \in ListRow \ {Absent}
    /\ listed = Absent /\ listError = FALSE /\ listLoaded = FALSE
    /\ fetches = [s \in Slots |-> IF s = 1 THEN [Unsent EXCEPT !.pc = "sent"] ELSE Unsent]
    /\ starting = FALSE /\ retryOn = 0 /\ removing = FALSE
    /\ panel = FALSE /\ overview = Uncounted
    /\ counting = [c \in CountSlots |-> 0]

-----------------------------------------------------------------------------
(* What the page renders: a spinner, the failure of the first load, the empty list,
   or the rows with the controls that the status allows. *)
DashboardView ==
    CASE ~ listLoaded -> "spinner"
      [] listLoaded /\ listed = Absent /\ listError -> "failed"
      [] listLoaded /\ listed = Absent /\ ~ listError -> "empty"
      [] OTHER -> "rows"

ProjectView ==
    CASE ~ listLoaded -> "spinner"
      [] listLoaded /\ listed = Absent -> "empty"
      [] OTHER -> "rows"

DashboardRow(control) ==
    /\ listPage = "dashboard" /\ DashboardView = "rows"
    /\ CASE control = "retry" -> listed.status \in {"DONE", "FAILED"} /\ ~ starting /\ retryOn = 0
         [] control = "details" -> TRUE
         [] OTHER -> FALSE

ProjectRow(control) ==
    /\ listPage = "project" /\ ProjectView = "rows"
    /\ CASE control = "retry" -> listed.status = "FAILED" /\ ~ starting /\ retryOn = 0
         [] control = "remove" -> TRUE
         [] OTHER -> FALSE

-----------------------------------------------------------------------------
(* Fetches.                                                                  *)

Send(s) ==
    /\ fetches[s].pc = "unsent" /\ \A r \in 1 .. s - 1 : fetches[r].pc # "unsent"
    /\ fetches' = [fetches EXCEPT ![s].pc = "sent"]

(* The effect of the panel runs after every update of what it reads; it asks for the
   counts of a job that is done, unless there is an entry. *)
PanelEffect(open, row, entry, asked) ==
    IF listPage = "dashboard" /\ open /\ entry = Uncounted /\ row.status = "DONE"
    THEN /\ overview' = [state |-> "loading", job |-> row.job]
         /\ \E c \in CountSlots :
              /\ asked[c] = 0 /\ \A d \in 1 .. c - 1 : asked[d] # 0
              /\ counting' = [asked EXCEPT ![c] = row.job]
    ELSE overview' = entry /\ counting' = asked

OnlyRetrying == retryOn # 0                                         \* mutant
HasAnalyzing == listed.status = "ANALYZING"

IntervalFetch(s) ==
    /\ HasAnalyzing
    /\ Send(s)
    /\ UNCHANGED <<listPage, actual, listed, listError, listLoaded, retryVars, removing,
                   panelVars>>

(* Focus, "Refresh" and "Try again". *)
AskAgain(s) ==
    /\ Send(s)
    /\ UNCHANGED <<listPage, actual, listed, listError, listLoaded, retryVars, removing,
                   panelVars>>

ServeFetch(s) ==
    /\ fetches[s].pc = "sent"
    /\ fetches' = [fetches EXCEPT ![s] = [pc |-> "answered", row |-> actual]]
    /\ UNCHANGED <<listPage, actual, listed, listError, listLoaded, retryVars, removing,
                   panelVars>>

FailFetch(s) ==
    /\ fetches[s].pc = "sent"
    /\ fetches' = [fetches EXCEPT ![s].pc = "failed"]
    /\ UNCHANGED <<listPage, actual, listed, listError, listLoaded, retryVars, removing,
                   panelVars>>

(* The answers come in any order, and each replaces the list; a failure keeps it. *)
TakeFetch(s) ==
    /\ fetches[s].pc \in {"answered", "failed"}
    /\ fetches' = [fetches EXCEPT ![s] = Unsent]
    /\ listed' = IF fetches[s].pc = "answered" THEN fetches[s].row ELSE listed
    /\ listError' = (fetches[s].pc = "failed")
    /\ listLoaded' = TRUE
    /\ retryOn' = IF retryOn = s THEN 0 ELSE retryOn
    /\ PanelEffect(panel, listed', overview, counting)
    /\ UNCHANGED <<listPage, actual, starting, removing, panel>>

-----------------------------------------------------------------------------
(* handleRetry: start, then fetch whether that succeeded or not.             *)

Retry ==
    /\ DashboardRow("retry") \/ ProjectRow("retry")
    /\ starting' = TRUE
    /\ UNCHANGED <<listPage, actual, listed, listError, listLoaded, fetches, retryOn,
                   removing, panelVars>>

NextJob == [status |-> "ANALYZING", job |-> actual.job + 1]

RetryAnswered(s) ==
    /\ starting
    /\ starting' = FALSE /\ retryOn' = s
    /\ Send(s)
    /\ \/ actual # Absent /\ actual.job < MaxJobs /\ actual' = NextJob
       \/ UNCHANGED actual
    /\ UNCHANGED <<listPage, listed, listError, listLoaded, removing, panelVars>>

(* handleUnassign: the row leaves the list when the API has answered. *)
RemoveRow ==
    /\ ProjectRow("remove") /\ ~ removing
    /\ removing' = TRUE
    /\ UNCHANGED <<listPage, actual, listed, listError, listLoaded, fetches, retryVars,
                   panelVars>>

RemoveAnswered ==
    /\ removing
    /\ removing' = FALSE
    /\ \/ actual' = Absent /\ listed' = Absent /\ UNCHANGED listError
       \/ actual' \in {actual, Absent} /\ listError' = TRUE /\ UNCHANGED listed
    /\ UNCHANGED <<listPage, listLoaded, fetches, retryVars, panelVars>>

-----------------------------------------------------------------------------
(* The panel.                                                                *)

ForgetEntry ==                                                      \* mutant
    /\ DashboardRow("details") /\ ~ panel
    /\ panel' = TRUE
    /\ PanelEffect(TRUE, listed, Uncounted, counting)
    /\ UNCHANGED <<listPage, actual, listed, listError, listLoaded, fetches, retryVars,
                   removing>>
(* Opening it drops an entry that failed. *)
OpenPanel ==
    /\ DashboardRow("details") /\ ~ panel
    /\ panel' = TRUE
    /\ PanelEffect(TRUE, listed, IF overview.state = "error" THEN Uncounted ELSE overview,
                   counting)
    /\ UNCHANGED <<listPage, actual, listed, listError, listLoaded, fetches, retryVars,
                   removing>>

ClosePanel ==
    /\ panel
    /\ panel' = FALSE
    /\ UNCHANGED <<listPage, actual, listed, listError, listLoaded, fetches, retryVars,
                   removing, overview, counting>>

CountAnswered(c) ==
    /\ counting[c] # 0
    /\ counting' = [counting EXCEPT ![c] = 0]
    /\ overview' \in [state : {"counted", "error"}, job : {counting[c]}]
    /\ UNCHANGED <<listPage, actual, listed, listError, listLoaded, fetches, retryVars,
                   removing, panel>>

-----------------------------------------------------------------------------
(* Another page, or another user, starts an analysis; the worker ends it. *)
StartedElsewhere ==
    /\ actual # Absent /\ actual.job < MaxJobs
    /\ actual' = NextJob
    /\ UNCHANGED <<listPage, listed, listError, listLoaded, fetches, retryVars, removing,
                   panelVars>>

JobOver ==
    /\ actual.status = "ANALYZING"
    /\ actual' \in [status : {"DONE", "FAILED"}, job : {actual.job}]
    /\ UNCHANGED <<listPage, listed, listError, listLoaded, fetches, retryVars, removing,
                   panelVars>>

ListNext ==
    \/ \E s \in Slots : \/ IntervalFetch(s) \/ AskAgain(s) \/ ServeFetch(s) \/ FailFetch(s)
                        \/ TakeFetch(s) \/ RetryAnswered(s)
    \/ Retry \/ RemoveRow \/ RemoveAnswered \/ OpenPanel \/ ClosePanel
    \/ \E c \in CountSlots : CountAnswered(c)
    \/ StartedElsewhere \/ JobOver

(* The interval fires, answers come, and not every fetch fails for ever. *)
ListFairness ==
    /\ WF_listVars(\E s \in Slots : IntervalFetch(s))
    /\ SF_listVars(\E s \in Slots : ServeFetch(s))
    /\ \A s \in Slots : WF_listVars(TakeFetch(s)) /\ WF_listVars(ServeFetch(s) \/ FailFetch(s))

ListSpec == ListInit /\ [][ListNext]_listVars

-----------------------------------------------------------------------------
(* "Auto-refresh when any submission is ANALYZING" (dashboard/page.tsx:100): a row
   does not show ANALYZING for ever once the job is over, whatever order the answers
   of overlapping fetches come in. *)
ListSettles ==
    listed.status = "ANALYZING"
        ~> (listed.status # "ANALYZING" \/ actual.status = "ANALYZING")

(* The effect runs again after every update, the ones it makes itself included, and
   still asks for the counts once at a time (dashboard/page.tsx:119-143). *)
OneOverview == \A c, d \in CountSlots : counting[c] # 0 /\ counting[d] # 0 => c = d

(* Why: while counts are asked for, the entry of the cache says so. *)
ListInv ==
    /\ ListTypeOK
    /\ OneOverview
    /\ (\E c \in CountSlots : counting[c] # 0) => overview.state = "loading"
=============================================================================
