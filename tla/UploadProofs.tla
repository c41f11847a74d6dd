----------------------------- MODULE UploadProofs -----------------------------
(***************************************************************************)
(* The upload page, for selections of any length and any number of         *)
(* retries: UploadInv is inductive (Upload).  The packaging of a folder,   *)
(* for every tree of folders: every file is in the archive, under headers  *)
(* that give its path (Tarball).                                           *)
(***************************************************************************)
EXTENDS Upload, Tarball, TLAPS

(***************************************************************************)
(* Upload                                                                  *)
(***************************************************************************)
LEMMA OneIsFile == 1 \in Files
BY UploadAssumption DEF Files

(* The values a page starts with have their types. *)
LEMMA Fresh ==
    /\ 0 \in 0 .. MaxFiles /\ 0 \in 0 .. MaxRetries
    /\ [i \in Files |-> "pending"] \in [Files -> {"pending", "uploading", "uploaded", "failed"}]
    /\ [i \in Files |-> "none"] \in [Files -> {"none", "running", "done", "failed"}]
BY UploadAssumption

LEMMA UploadInitInv == UploadInit => UploadInv
<1> SUFFICES ASSUME UploadInit PROVE UploadInv
  OBVIOUS
<1>1. inS3 \subseteq Files
  BY OneIsFile DEF UploadInit
<1>2. step \in Steps /\ task \in {"idle", "load", "pack"} \cup Requests /\ resumed \in BOOLEAN
  BY DEF UploadInit, Steps, Requests
<1>3. UploadTypeOK
  BY <1>1, <1>2, Fresh DEF UploadInit, UploadTypeOK
<1> QED BY <1>3 DEF UploadInit, UploadInv, TaskOfSelection, UploadedLast, RetryHasFile,
     JobsHaveFiles, DoneIsOver, SingleTasks, BatchTasks, isBatch

LEMMA BoardsAreFiles == ASSUME UploadInv PROVE Boards \subseteq Files
BY OneIsFile, UploadAssumption DEF Boards, Files, UploadInv, UploadTypeOK, isBatch

-----------------------------------------------------------------------------
(* The user's own actions are of the step that shows their control. *)
LEMMA OfferedOn ==
  ASSUME NEW control, Offers(control), UploadInv
  PROVE  /\ step \in {"resume", "select", "partial", "error"}
         /\ task \notin Requests
         /\ control \in {"pick", "folder", "clear", "upload", "remove"} => step = "select"
         /\ control \in {"continue", "cancel"} => step = "partial"
         /\ control = "remove" => isBatch
         /\ control \in {"analyze", "reset"} => step \in {"resume", "error"}
         /\ control = "analyze" => (step = "error" => uploaded /\ ~ isBatch)
         /\ control \in {"analyze", "reset"} => task # "load"
BY DEF Offers, ResumeControls, SelectControls, PartialControls, ErrorControls, Busy,
   UploadInv, TaskOfSelection, UploadTypeOK

(* A page that starts anew has everything to show, and nothing uploaded. *)
LEMMA ResetKeeps ==
  ASSUME UploadInv, Reset, To("select", "idle")
  PROVE  UploadInv'
<1>1. UploadTypeOK'
  <2>1. step' \in Steps /\ task' \in {"idle", "load", "pack"} \cup Requests
    BY DEF To, Steps, Requests
  <2> QED BY <2>1, Fresh DEF Reset, UploadTypeOK
<1> QED BY <1>1 DEF Reset, To, UploadInv, TaskOfSelection, UploadedLast, RetryHasFile,
     JobsHaveFiles, DoneIsOver, SingleTasks, BatchTasks, isBatch

(* Selecting, while the page selects. *)
LEMMA SelectingKeeps ==
  ASSUME UploadInv, PickOne \/ PickMany \/ RemoveFile \/ ClearAll
  PROVE  UploadInv'
<1>1. /\ step = "select" /\ task \notin Requests
      /\ UNCHANGED <<step, task, uploaded, resumed, pollVars, server>>
  BY OfferedOn DEF PickOne, PickMany, RemoveFile, ClearAll
<1>2. file' \in BOOLEAN /\ files' \in 0 .. MaxFiles
  <2>1. CASE RemoveFile
    <3>1. isBatch
      BY <2>1, OfferedOn DEF RemoveFile
    <3> QED BY <2>1, <3>1, UploadAssumption DEF RemoveFile, UploadInv, UploadTypeOK, isBatch
  <2>2. CASE PickMany
    <3>1. (2 .. MaxFiles) \subseteq 0 .. MaxFiles
      BY UploadAssumption
    <3> QED BY <2>2, <3>1 DEF PickMany, UploadInv, UploadTypeOK
  <2>3. CASE PickOne \/ ClearAll
    BY <2>3, Fresh DEF PickOne, ClearAll
  <2> QED BY <2>1, <2>2, <2>3
<1>3. put' \in [Files -> {"pending", "uploading", "uploaded", "failed"}]
  BY DEF PickOne, PickMany, RemoveFile, ClearAll, UploadInv, UploadTypeOK
<1> QED BY <1>1, <1>2, <1>3 DEF UploadInv, UploadTypeOK, TaskOfSelection, UploadedLast,
     RetryHasFile, JobsHaveFiles, DoneIsOver, SingleTasks, BatchTasks, Requests,
     pollVars, server

LEMMA FolderKeeps ==
  ASSUME UploadInv, PickFolder \/ FolderPacked
  PROVE  UploadInv'
<1>1. CASE PickFolder
  <2>1. step = "select"
    BY <1>1, OfferedOn DEF PickFolder
  <2> QED BY <1>1, <2>1 DEF PickFolder, To, UploadInv, UploadTypeOK, TaskOfSelection,
       UploadedLast, RetryHasFile, JobsHaveFiles, DoneIsOver, SingleTasks, BatchTasks,
       Steps, selection, pollVars, server, isBatch
<1>2. CASE FolderPacked
  <2>1. file' \in BOOLEAN /\ files' \in 0 .. MaxFiles
    BY <1>2, Fresh DEF FolderPacked, UploadInv, UploadTypeOK, selection
  <2>2. UploadTypeOK'
    BY <1>2, <2>1 DEF FolderPacked, To, UploadInv, UploadTypeOK, Steps, pollVars, server
  <2> QED BY <1>2, <2>2 DEF FolderPacked, To, UploadInv, TaskOfSelection, UploadedLast,
       RetryHasFile, JobsHaveFiles, DoneIsOver, SingleTasks, BatchTasks, selection,
       pollVars, server, isBatch
<1> QED BY <1>1, <1>2

(* The submission of the link is set only when it is the page's. *)
LEMMA ResumeKeeps == ASSUME UploadInv, ResumeAnswered PROVE UploadInv'
<1>1. UploadTypeOK'
  BY DEF ResumeAnswered, To, UploadInv, UploadTypeOK, Steps, selection, pollVars, server
<1>2. resumed = TRUE /\ uploaded = FALSE
  BY DEF ResumeAnswered, UploadInv, UploadTypeOK, TaskOfSelection, UploadedLast
<1>3. /\ files' = files /\ inS3' = inS3 /\ jobOf' = jobOf /\ task' = "idle"
      /\ \/ step' = "resume" /\ resumed' = resumed
         \/ step' = "select" /\ uploaded' = uploaded
      /\ (uploaded' = FALSE \/ (resumed' = TRUE /\ step' = "resume"))
  BY <1>2 DEF ResumeAnswered, To, selection, server
<1>4. files = 0
  BY DEF ResumeAnswered, UploadInv, TaskOfSelection
<1>5. TaskOfSelection'
  BY <1>3, <1>4 DEF TaskOfSelection, SingleTasks, BatchTasks
<1>6. UploadedLast' /\ RetryHasFile' /\ DoneIsOver'
  BY <1>3 DEF UploadedLast, RetryHasFile, DoneIsOver, BatchTasks
<1>7. JobsHaveFiles'
  BY <1>3 DEF JobsHaveFiles, UploadInv
<1> QED BY <1>1, <1>5, <1>6, <1>7 DEF UploadInv

-----------------------------------------------------------------------------
(* One board. *)
LEMMA SingleKeeps ==
  ASSUME UploadInv, SingleUpload \/ CreateAnswered \/ PutAnswered
  PROVE  UploadInv'
<1> USE DEF UploadInv, TaskOfSelection, UploadedLast, RetryHasFile, JobsHaveFiles,
        DoneIsOver, SingleTasks, BatchTasks, To, Fails, selection, pollVars, server, isBatch
<1>1. CASE SingleUpload
  <2>1. UploadTypeOK'
    BY <1>1 DEF SingleUpload, UploadTypeOK, Steps, Requests
  <2> QED BY <1>1, <2>1 DEF SingleUpload
<1>2. CASE CreateAnswered
  <2>1. UploadTypeOK'
    BY <1>2 DEF CreateAnswered, UploadTypeOK, Steps, Requests
  <2> QED BY <1>2, <2>1 DEF CreateAnswered
<1>3. CASE PutAnswered
  <2>1. UploadTypeOK'
    BY <1>3, OneIsFile DEF PutAnswered, UploadTypeOK, Steps, Requests
  <2> QED BY <1>3, <2>1 DEF PutAnswered
<1> QED BY <1>1, <1>2, <1>3

(* What is analyzed again is the one board that was uploaded, or resumed. *)
LEMMA StartKeeps ==
  ASSUME UploadInv, RetryAnalysis \/ StartAnswered
  PROVE  UploadInv'
<1> USE DEF UploadInv, TaskOfSelection, UploadedLast, RetryHasFile, JobsHaveFiles,
        DoneIsOver, SingleTasks, BatchTasks, To, Fails, selection, pollVars, server, isBatch
<1>1. CASE RetryAnalysis
  <2>1. ~ isBatch
    BY <1>1, OfferedOn, UploadAssumption DEF RetryAnalysis
  <2>2. UploadTypeOK'
    BY <1>1 DEF RetryAnalysis, UploadTypeOK, Steps, Requests
  <2> QED BY <1>1, <2>1, <2>2 DEF RetryAnalysis
<1>2. CASE StartAnswered
  <2>1. \A i \in Files : jobOf'[i] = "done" => jobOf[i] = "done"
    BY <1>2 DEF StartAnswered, UploadTypeOK
  <2>2. UploadTypeOK'
    <3>1. jobOf' \in [Files -> {"none", "running", "done", "failed"}]
      BY <1>2 DEF StartAnswered, UploadTypeOK
    <3> QED BY <1>2, <3>1, Fresh DEF StartAnswered, UploadTypeOK, Steps, Requests
  <2>3. /\ task = "start" /\ task' \in {"idle", "poll"} /\ step' \in {"analyzing", "error"}
        /\ UNCHANGED <<files, uploaded, resumed, inS3>>
    BY <1>2 DEF StartAnswered
  <2>4. TaskOfSelection' /\ UploadedLast'
    BY <2>3
  <2>5. RetryHasFile' /\ DoneIsOver'
    BY <2>3
  <2>6. JobsHaveFiles'
    BY <2>1, <2>3
  <2> QED BY <2>2, <2>4, <2>5, <2>6
<1> QED BY <1>1, <1>2

-----------------------------------------------------------------------------
(* A batch. *)
LEMMA BatchKeeps ==
  ASSUME UploadInv, BatchUpload \/ CreateBatchAnswered \/ AllPutsOver
                    \/ \E i \in Files : OnePutAnswered(i)
  PROVE  UploadInv'
<1> USE DEF UploadInv, TaskOfSelection, UploadedLast, RetryHasFile, JobsHaveFiles,
        DoneIsOver, SingleTasks, BatchTasks, To, Fails, selection, pollVars, server, isBatch
<1>1. CASE BatchUpload
  <2>1. step = "select"
    BY <1>1, OfferedOn DEF BatchUpload
  <2>2. UploadTypeOK'
    BY <1>1 DEF BatchUpload, UploadTypeOK, Steps, Requests
  <2> QED BY <1>1, <2>1, <2>2 DEF BatchUpload
<1>2. CASE CreateBatchAnswered
  <2>1. UploadTypeOK'
    BY <1>2 DEF CreateBatchAnswered, UploadTypeOK, Steps, Requests
  <2> QED BY <1>2, <2>1 DEF CreateBatchAnswered
<1>3. CASE AllPutsOver
  <2>1. UploadTypeOK'
    BY <1>3 DEF AllPutsOver, UploadTypeOK, Steps, Requests
  <2> QED BY <1>3, <2>1 DEF AllPutsOver
<1>4. ASSUME NEW i \in Files, OnePutAnswered(i) PROVE UploadInv'
  <2>1. UploadTypeOK'
    BY <1>4 DEF OnePutAnswered, UploadTypeOK
  <2>2. inS3 \subseteq inS3'
    BY <1>4 DEF OnePutAnswered
  <2>3. step # "done"
    BY <1>4 DEF OnePutAnswered
  <2> QED BY <1>4, <2>1, <2>2, <2>3 DEF OnePutAnswered
<1> QED BY <1>1, <1>2, <1>3, <1>4

LEMMA BatchAnalysisKeeps ==
  ASSUME UploadInv, ContinueBatch \/ CancelBatch \/ AnalyzeBatchAnswered
  PROVE  UploadInv'
<1> USE DEF UploadInv, TaskOfSelection, UploadedLast, RetryHasFile, JobsHaveFiles,
        DoneIsOver, SingleTasks, BatchTasks, To, Fails, selection, pollVars, server, isBatch
<1>1. CASE ContinueBatch
  <2>1. step = "partial"
    BY <1>1, OfferedOn DEF ContinueBatch
  <2>2. UploadTypeOK'
    BY <1>1 DEF ContinueBatch, UploadTypeOK, Steps, Requests
  <2> QED BY <1>1, <2>1, <2>2 DEF ContinueBatch
<1>2. CASE CancelBatch
  <2>1. step = "partial"
    BY <1>2, OfferedOn DEF CancelBatch
  <2>2. UploadTypeOK'
    BY <1>2 DEF CancelBatch, UploadTypeOK, Steps
  <2> QED BY <1>2, <2>1, <2>2 DEF CancelBatch
<1>3. CASE AnalyzeBatchAnswered
  <2>1. UploadTypeOK'
    <3>1. jobOf' \in [Files -> {"none", "running", "done", "failed"}]
      BY <1>3 DEF AnalyzeBatchAnswered, UploadTypeOK
    <3> QED BY <1>3, <3>1, Fresh DEF AnalyzeBatchAnswered, UploadTypeOK, Steps, Requests
  <2>2. \A i \in Files : jobOf'[i] = "done" => jobOf[i] = "done"
    BY <1>3 DEF AnalyzeBatchAnswered, UploadTypeOK
  <2>3. /\ task = "analyzeBatch" /\ task' \in {"idle", "pollBatch"}
        /\ step' \in {"analyzing", "error"} /\ UNCHANGED <<files, uploaded, resumed, inS3>>
    BY <1>3 DEF AnalyzeBatchAnswered
  <2>4. TaskOfSelection' /\ UploadedLast'
    BY <2>3
  <2>5. RetryHasFile' /\ DoneIsOver'
    BY <2>3
  <2>6. JobsHaveFiles'
    BY <2>2, <2>3
  <2> QED BY <2>1, <2>4, <2>5, <2>6
<1> QED BY <1>1, <1>2, <1>3

-----------------------------------------------------------------------------
(* A poll ends the page's work when all jobs are over, and never before. *)
LEMMA PollKeeps ==
  ASSUME UploadInv, PollAnswered \/ PollMissed \/ PollTimesOut
  PROVE  UploadInv'
<1> USE DEF UploadInv, TaskOfSelection, UploadedLast, RetryHasFile, JobsHaveFiles,
        SingleTasks, BatchTasks, To, Fails, selection, pollVars, server, isBatch, Polling
<1>1. CASE PollAnswered
  <2>1. UploadTypeOK'
    BY <1>1, UploadAssumption DEF PollAnswered, PollEnds, UploadTypeOK, Steps
  <2>2. step' = "done" => (Finished /\ (task = "poll" => jobOf[1] # "failed"))
                            \/ step = "done"
    BY <1>1 DEF PollAnswered, PollEnds
  <2>3. step # "done"
    BY <1>1 DEF PollAnswered
  <2>4. Finished /\ ~ isBatch => jobOf[1] \in {"done", "failed"}
    BY DEF Finished, Boards
  <2>5. DoneIsOver'
    BY <1>1, <2>2, <2>3, <2>4 DEF DoneIsOver, PollAnswered, Finished, Boards
  <2> QED BY <1>1, <2>1, <2>5 DEF PollAnswered, PollEnds
<1>2. CASE PollMissed
  <2>1. UploadTypeOK'
    BY <1>2, UploadAssumption DEF PollMissed, UploadTypeOK, Steps
  <2> QED BY <1>2, <2>1 DEF PollMissed, DoneIsOver
<1>3. CASE PollTimesOut
  <2>1. UploadTypeOK'
    BY <1>3 DEF PollTimesOut, UploadTypeOK
  <2> QED BY <1>3, <2>1 DEF PollTimesOut, DoneIsOver
<1> QED BY <1>1, <1>2, <1>3

(* A job ends after the page did, if it was not one of its boards. *)
LEMMA JobKeeps ==
  ASSUME UploadInv, NEW i \in Files, JobEnds(i)
  PROVE  UploadInv'
<1>1. /\ jobOf' \in [Files -> {"none", "running", "done", "failed"}]
      /\ jobOf'[i] \in {"done", "failed"} /\ (jobOf'[i] = "done" => i \in inS3)
      /\ \A j \in Files \ {i} : jobOf'[j] = jobOf[j]
  BY DEF JobEnds, UploadInv, UploadTypeOK
<1>2. UNCHANGED <<step, task, file, files, put, uploaded, resumed, misses, late, inS3>>
  BY DEF JobEnds, selection, pollVars
<1>3. UploadTypeOK'
  BY <1>1, <1>2 DEF UploadInv, UploadTypeOK
<1>4. TaskOfSelection' /\ UploadedLast' /\ RetryHasFile'
  BY <1>2 DEF UploadInv, TaskOfSelection, UploadedLast, RetryHasFile, isBatch
<1>5. JobsHaveFiles'
  <2>1. jobOf[i] = "running"
    BY DEF JobEnds
  <2> QED BY <1>1, <1>2, <2>1 DEF UploadInv, JobsHaveFiles
<1>6. DoneIsOver'
  <2> SUFFICES ASSUME step = "done" PROVE DoneIsOver'
    BY <1>2 DEF DoneIsOver
  <2>1. Boards' = Boards /\ isBatch' = isBatch
    BY <1>2 DEF Boards, isBatch
  <2>2. \A j \in Boards : j # i /\ j \in Files
    BY BoardsAreFiles DEF UploadInv, DoneIsOver, Finished, JobEnds
  <2>3. Finished'
    BY <1>1, <2>1, <2>2 DEF UploadInv, DoneIsOver, Finished
  <2>4. ~ isBatch => jobOf'[1] = "done"
    BY <1>1, <2>2 DEF UploadInv, DoneIsOver, Boards
  <2> QED BY <2>1, <2>3, <2>4 DEF DoneIsOver
<1> QED BY <1>3, <1>4, <1>5, <1>6 DEF UploadInv

LEMMA UploadStepInv == UploadInv /\ [UploadNext]_uploadVars => UploadInv'
<1>1. ASSUME UploadInv, Handler PROVE UploadInv'
  BY <1>1, ResumeKeeps, FolderKeeps, SingleKeeps, StartKeeps, BatchKeeps,
     BatchAnalysisKeeps DEF Handler
<1>2. ASSUME UploadInv, ResetToSelect \/ Reopen PROVE UploadInv'
  BY <1>2, ResetKeeps DEF ResetToSelect, Reopen
<1>3. ASSUME UploadInv, UNCHANGED uploadVars PROVE UploadInv'
  BY <1>3 DEF uploadVars, UploadInv, UploadTypeOK, TaskOfSelection, UploadedLast,
     RetryHasFile, JobsHaveFiles, DoneIsOver, isBatch, Finished, Boards
<1> QED BY <1>1, <1>2, <1>3, SelectingKeeps, FolderKeeps, SingleKeeps, StartKeeps,
     BatchKeeps, BatchAnalysisKeeps, PollKeeps, JobKeeps DEF UploadNext

LEMMA UploadInvAlways == UploadSpec => []UploadInv
BY UploadInitInv, UploadStepInv, PTL DEF UploadSpec

-----------------------------------------------------------------------------
(* The state of the page has its type, whatever is selected and however requests end
   (upload/page.tsx). *)
THEOREM UploadTyped == UploadSpec => []UploadTypeOK
<1>1. UploadInv => UploadTypeOK
  BY DEF UploadInv
<1> QED BY <1>1, UploadInvAlways, PTL

(* What "Retry analysis" analyzes is in S3 (upload/page.tsx:92-94). *)
THEOREM RetriesHaveFile == UploadSpec => []RetryHasFile
<1>1. UploadInv => RetryHasFile
  BY DEF UploadInv
<1> QED BY <1>1, UploadInvAlways, PTL

(* The success message speaks of boards that were uploaded and analyzed
   (upload/page.tsx:803-811). *)
THEOREM SuccessTrue == UploadSpec => []SuccessIsTrue
<1>1. ASSUME UploadInv PROVE SuccessIsTrue
  <2> SUFFICES ASSUME AllAnalyzed, NEW i \in Boards
               PROVE  i \in inS3 /\ jobOf[i] = "done"
    BY DEF SuccessIsTrue
  <2>1. i \in Files
    BY <1>1, BoardsAreFiles
  <2>2. jobOf[i] = "done"
    BY <1>1 DEF AllAnalyzed, UploadInv, DoneIsOver, Finished, Boards
  <2> QED BY <1>1, <2>1, <2>2 DEF UploadInv, JobsHaveFiles
<1> QED BY <1>1, UploadInvAlways, PTL

(* After a failed upload the analysis starts from the question only
   (upload/page.tsx:399-413). *)
THEOREM NeverSilent == UploadSpec => AsksFirst
<1>1. ASSUME [UploadNext]_uploadVars, Failures # {}, task # "analyzeBatch",
             task' = "analyzeBatch"
      PROVE  step = "partial"
  <2>1. CASE AllPutsOver
    BY <1>1, <2>1 DEF AllPutsOver, To, Fails
  <2>2. CASE ContinueBatch
    BY <2>2 DEF ContinueBatch, Offers, ResumeControls, SelectControls, PartialControls,
       ErrorControls
  <2> QED
    BY <1>1, <2>1, <2>2 DEF UploadNext, Handler, uploadVars, To, Fails, ResumeAnswered,
       FolderPacked, CreateAnswered, PutAnswered, StartAnswered, CreateBatchAnswered,
       OnePutAnswered, AnalyzeBatchAnswered, ResetToSelect, PickOne, PickMany, RemoveFile,
       ClearAll, PickFolder, SingleUpload, RetryAnalysis, BatchUpload, CancelBatch,
       PollAnswered, PollEnds, PollMissed, PollTimesOut, JobEnds, Reopen
<1>2. [UploadNext]_uploadVars
        => [Failures # {} /\ task # "analyzeBatch" /\ task' = "analyzeBatch"
              => step = "partial"]_uploadVars
  BY <1>1
<1> QED BY <1>2, PTL DEF UploadSpec, AsksFirst

(***************************************************************************)
(* Tarball                                                                 *)
(***************************************************************************)
(* The split of a path at its last slash that leaves the prefix room, for every path:
   when it fits, both fields do, and prefix, slash and name are the path again. *)
LEMMA SplitJoins ==
  ASSUME NEW p \in PathSet, splitTarPath(p).fits,
         NEW e, e.name = splitTarPath(p).name, e.prefix = splitTarPath(p).prefix
  PROVE  /\ JoinsTo(e, p) /\ e.name <= NameRoom /\ e.prefix <= PrefixRoom
         /\ e.name \in Int /\ e.prefix \in Int
<1> DEFINE split == LastSlash(p, PrefixRoom)
           rest == p.size - split - 1
<1>1. CASE p.size <= NameRoom
  BY <1>1, TarballAssumption DEF splitTarPath, JoinsTo, PathSet
<1>2. CASE ~ (p.size <= NameRoom)
  <2>1. split > 0 /\ rest <= NameRoom /\ e.name = rest /\ e.prefix = split
    BY <1>2 DEF splitTarPath, NoRoom
  <2>2. \E s \in p.slashes : IsLastSlash(s, p, PrefixRoom)
    BY <2>1 DEF LastSlash
  <2>3. split \in p.slashes /\ split <= PrefixRoom
    BY <2>2 DEF LastSlash, IsLastSlash
  <2>4. p.size \in Nat /\ split \in Nat
    BY <2>3 DEF PathSet
  <2> QED BY <2>1, <2>3, <2>4 DEF JoinsTo
<1> QED BY <1>1, <1>2

LEMMA EntryPathTypes ==
  ASSUME NEW p \in PathSet, NEW e \in Folders \cup FolderFiles PROVE EntryPath(p, e) \in PathSet
BY TarballAssumption DEF EntryPath, PathSet

-----------------------------------------------------------------------------
(* The paths.  PathOf is a recursive function: that its equation has a solution is
   proved along the tree, by the solutions on a part of the directories. *)
Root == [size |-> NameLength[DroppedFolder], slashes |-> {}]

LEMMA RootIsPath == Root \in PathSet
BY TarballAssumption DEF Root, PathSet

(* Induction along the tree. *)
LEMMA TreeInduction ==
  ASSUME NEW T \in SUBSET Folders, DroppedFolder \in T,
         \A d \in Folders \ {DroppedFolder} : ParentOf[d] \in T => d \in T
  PROVE  T = Folders
BY TarballAssumption

(* PathOf on some of the directories, with those above them. *)
Solves(A, g) ==
  /\ A \in SUBSET Folders /\ g \in [A -> PathSet]
  /\ \A d \in A : IF d = DroppedFolder THEN g[d] = Root
                  ELSE ParentOf[d] \in A /\ g[d] = EntryPath(g[ParentOf[d]], d)

LEMMA SolutionsAgree ==
  ASSUME NEW A, NEW g, Solves(A, g), NEW B, NEW h, Solves(B, h), NEW d \in A \cap B
  PROVE  g[d] = h[d]
<1> DEFINE T == {x \in Folders : x \in A \cap B => g[x] = h[x]}
<1>1. DroppedFolder \in T
  BY TarballAssumption DEF Solves
<1>2. ASSUME NEW x \in Folders \ {DroppedFolder}, ParentOf[x] \in T PROVE x \in T
  BY <1>2 DEF Solves
<1>3. T = Folders
  <2> HIDE DEF T
  <2>1. T \in SUBSET Folders
    BY DEF T
  <2> QED BY <1>1, <1>2, <2>1, TreeInduction
<1> QED BY <1>3 DEF Solves

LEMMA SolutionsExist ==
  ASSUME NEW d \in Folders PROVE \E A, g : Solves(A, g) /\ d \in A
<1> DEFINE T == {x \in Folders : \E A, g : Solves(A, g) /\ x \in A}
<1>1. DroppedFolder \in T
  <2> DEFINE g == [x \in {DroppedFolder} |-> Root]
  <2>1. Solves({DroppedFolder}, g)
    BY RootIsPath, TarballAssumption DEF Solves
  <2> HIDE DEF g
  <2> QED BY <2>1, TarballAssumption
<1>2. ASSUME NEW x \in Folders \ {DroppedFolder}, ParentOf[x] \in T PROVE x \in T
  <2>1. PICK A, g : Solves(A, g) /\ ParentOf[x] \in A
    BY <1>2
  <2>2. CASE x \in A
    BY <2>1, <2>2
  <2>3. CASE x \notin A
    <3> DEFINE B == A \cup {x}
               h == [y \in B |-> IF y = x THEN EntryPath(g[ParentOf[x]], x) ELSE g[y]]
    <3>1. EntryPath(g[ParentOf[x]], x) \in PathSet
      BY <2>1, EntryPathTypes DEF Solves
    <3>2. h \in [B -> PathSet] /\ B \in SUBSET Folders
      BY <2>1, <3>1 DEF Solves
    <3>3. h[x] = EntryPath(h[ParentOf[x]], x) /\ \A y \in A : h[y] = g[y]
      BY <2>1, <2>3
    <3> HIDE DEF h
    <3>4. Solves(B, h)
      BY <2>1, <3>2, <3>3 DEF Solves
    <3> QED BY <3>4
  <2> QED BY <2>2, <2>3
<1>3. T = Folders
  <2> HIDE DEF T
  <2>1. T \in SUBSET Folders
    BY DEF T
  <2> QED BY <1>1, <1>2, <2>1, TreeInduction
<1> QED BY <1>3

(* PathOf solves its equation. *)
LEMMA PathOfEquation ==
  /\ PathOf \in [Folders \cup FolderFiles -> PathSet]
  /\ PathOf[DroppedFolder] = Root
  /\ \A e \in Folders \cup FolderFiles :
       e # DroppedFolder => PathOf[e] = EntryPath(PathOf[ParentOf[e]], e)
<1> DEFINE E == Folders \cup FolderFiles
           P(d, v) == \E A, g : Solves(A, g) /\ d \in A /\ v = g[d]
           val == [d \in Folders |-> CHOOSE v : P(d, v)]
           F == [e \in E |-> IF e = DroppedFolder THEN Root ELSE EntryPath(val[ParentOf[e]], e)]
           Eq(f) == f = [e \in E |-> IF e = DroppedFolder
                             THEN [size |-> NameLength[e], slashes |-> {}]
                             ELSE EntryPath(f[ParentOf[e]], e)]
<1>1. ASSUME NEW A, NEW g, Solves(A, g), NEW d \in A PROVE val[d] = g[d]
  <2>1. P(d, g[d])
    BY <1>1
  <2>2. P(d, CHOOSE v : P(d, v))
    BY <2>1
  <2>3. d \in Folders
    BY <1>1 DEF Solves
  <2>4. P(d, val[d])
    BY <2>2, <2>3
  <2>5. PICK B, h : Solves(B, h) /\ d \in B /\ val[d] = h[d]
    BY <2>4
  <2> QED BY <1>1, <2>5, SolutionsAgree
<1>2. ASSUME NEW d \in Folders
      PROVE  /\ val[d] \in PathSet
             /\ val[d] = IF d = DroppedFolder THEN Root ELSE EntryPath(val[ParentOf[d]], d)
  <2>1. PICK A, g : Solves(A, g) /\ d \in A
    BY SolutionsExist
  <2>2. val[d] = g[d] /\ (d # DroppedFolder => val[ParentOf[d]] = g[ParentOf[d]])
    <3> HIDE DEF val
    <3> QED BY <1>1, <2>1 DEF Solves
  <2> HIDE DEF val
  <2> QED BY <2>1, <2>2 DEF Solves
<1> HIDE DEF val
<1>3. \A e \in E : e # DroppedFolder => ParentOf[e] \in Folders
  BY TarballAssumption
<1>4. \A d \in Folders : F[d] = val[d]
  BY <1>2
<1>5. Eq(F)
  <2>1. \A e \in E : (IF e = DroppedFolder THEN Root ELSE EntryPath(val[ParentOf[e]], e))
                     = IF e = DroppedFolder THEN [size |-> NameLength[e], slashes |-> {}]
                       ELSE EntryPath(F[ParentOf[e]], e)
    BY <1>3, <1>4 DEF Root
  <2> QED BY <2>1
<1>6. PathOf = CHOOSE f : Eq(f)
  BY DEF PathOf
<1>7. Eq(PathOf)
  <2> HIDE DEF F
  <2> QED BY <1>5, <1>6
<1> HIDE DEF F
<1>8. \A e \in E : PathOf[e] = IF e = DroppedFolder
                             THEN [size |-> NameLength[e], slashes |-> {}]
                             ELSE EntryPath(PathOf[ParentOf[e]], e)
  BY <1>7
<1> DEFINE T == {d \in Folders : PathOf[d] \in PathSet}
<1>9. T = Folders
  <2>1. DroppedFolder \in T
    BY <1>8, RootIsPath, TarballAssumption DEF Root
  <2>2. ASSUME NEW d \in Folders \ {DroppedFolder}, ParentOf[d] \in T PROVE d \in T
    <3>1. PathOf[d] = EntryPath(PathOf[ParentOf[d]], d)
      BY <1>8
    <3>2. PathOf[ParentOf[d]] \in PathSet
      BY <2>2
    <3> QED BY <3>1, <3>2, EntryPathTypes
  <2>3. T \in SUBSET Folders
    OBVIOUS
  <2> HIDE DEF T
  <2> QED BY <2>1, <2>2, <2>3, TreeInduction
<1>10. \A e \in E : PathOf[e] \in PathSet
  BY <1>3, <1>8, <1>9, RootIsPath, EntryPathTypes DEF Root
<1>11. PathOf = [e \in E |-> PathOf[e]]
  <2>1. \A f : Eq(f) => f = [e \in E |-> f[e]]
    OBVIOUS
  <2> HIDE DEF Eq
  <2> QED BY <1>7, <2>1
<1>12. DroppedFolder \in E
  BY TarballAssumption
<1> QED BY <1>8, <1>10, <1>11, <1>12 DEF Root

(* The path of an entry is that of its directory, a slash and its name. *)
LEMMA PathOfEntry ==
  ASSUME NEW d \in Folders, NEW e \in EntriesOf(d)
  PROVE  PathOf[e] = EntryPath(PathOf[d], e) /\ e \in Folders \cup FolderFiles
BY PathOfEquation DEF EntriesOf

-----------------------------------------------------------------------------
LEMMA CallTypes ==
  ASSUME NEW d \in Folders, NEW p \in PathSet PROVE Call(d, p) \in FolderCall
BY DEF Call, FolderCall, EntriesOf

(* A call starts with everything to read, and nothing found. *)
LEMMA CallStarts ==
  ASSUME NEW d \in Folders
  PROVE  CallSound(Call(d, PathOf[d])) /\ \A e \in EntriesOf(d) : Tracks(Call(d, PathOf[d]), e)
BY DEF Call, CallSound, Tracks

Elements(s) == {s[i] : i \in DOMAIN s}

LEMMA ConsElements ==
  ASSUME NEW x \in FolderCall, NEW s \in Seq(FolderCall)
  PROVE  /\ <<x>> \o s \in Seq(FolderCall) /\ <<x>> \o s # <<>>
         /\ Elements(<<x>> \o s) = {x} \cup Elements(s)
<1> DEFINE t == <<x>> \o s
<1>1. <<x>> \in Seq(FolderCall) /\ Len(<<x>>) = 1 /\ <<x>>[1] = x
  OBVIOUS
<1>2. t \in Seq(FolderCall) /\ Len(t) = 1 + Len(s) /\ DOMAIN t = 1 .. Len(t)
        /\ DOMAIN s = 1 .. Len(s) /\ Len(s) \in Nat
  BY <1>1
<1>3. \A i \in 1 .. Len(t) : t[i] = IF i = 1 THEN x ELSE s[i - 1]
  BY <1>1
<1>4. t # <<>>
  BY <1>2
<1> HIDE DEF t
<1>5. ASSUME NEW i \in DOMAIN s PROVE s[i] \in Elements(t)
  <2>1. i + 1 \in DOMAIN t /\ t[i + 1] = s[i]
    BY <1>2, <1>3
  <2> QED BY <2>1 DEF Elements
<1>6. x \in Elements(t)
  <2>1. 1 \in DOMAIN t /\ t[1] = x
    BY <1>2, <1>3
  <2> QED BY <2>1 DEF Elements
<1>7. ASSUME NEW i \in DOMAIN t PROVE t[i] \in {x} \cup Elements(s)
  <2>1. i # 1 => i - 1 \in DOMAIN s
    BY <1>2
  <2> QED BY <1>2, <1>3, <2>1 DEF Elements
<1>8. Elements(t) = {x} \cup Elements(s)
  BY <1>5, <1>6, <1>7 DEF Elements
<1> QED BY <1>2, <1>4, <1>8 DEF t

(* A stack of two on top of another, and what is below its second. *)
LEMMA ConsTwice ==
  ASSUME NEW x \in FolderCall, NEW y \in FolderCall, NEW s \in Seq(FolderCall)
  PROVE  <<x, y>> \o s = <<x>> \o (<<y>> \o s)
<1> DEFINE t == <<x, y>> \o s
           v == <<y>> \o s
           u == <<x>> \o v
<1>1. t \in Seq(FolderCall) /\ Len(t) = 2 + Len(s) /\ Len(s) \in Nat
        /\ \A i \in 1 .. Len(t) : t[i] = IF i = 1 THEN x ELSE IF i = 2 THEN y ELSE s[i - 2]
  OBVIOUS
<1>2. v \in Seq(FolderCall) /\ Len(v) = 1 + Len(s)
        /\ \A i \in 1 .. Len(v) : v[i] = IF i = 1 THEN y ELSE s[i - 1]
  OBVIOUS
<1> HIDE DEF v
<1>3. u \in Seq(FolderCall) /\ Len(u) = 1 + Len(v)
        /\ \A i \in 1 .. Len(u) : u[i] = IF i = 1 THEN x ELSE v[i - 1]
  BY <1>2
<1> HIDE DEF t, u
<1>4. ASSUME NEW i \in 1 .. Len(u)
      PROVE  u[i] = IF i = 1 THEN x ELSE IF i = 2 THEN y ELSE s[i - 2]
  <2>1. CASE i = 1
    BY <1>3, <2>1
  <2>2. CASE i # 1
    <3>1. i - 1 \in 1 .. Len(v) /\ (i - 1) - 1 = i - 2 /\ (i - 1 = 1 <=> i = 2)
      BY <1>1, <1>2, <1>3, <2>2
    <3>2. u[i] = v[i - 1]
      BY <1>3, <2>2
    <3>3. v[i - 1] = IF i = 2 THEN y ELSE s[i - 2]
      BY <1>2, <3>1
    <3> QED BY <2>2, <3>2, <3>3
  <2> QED BY <2>1, <2>2
<1>5. t = u
  <2>1. Len(t) = Len(u)
    BY <1>1, <1>2, <1>3
  <2>2. \A i \in 1 .. Len(t) : t[i] = u[i]
    BY <1>1, <1>4, <2>1
  <2> QED BY <1>1, <1>3, <2>1, <2>2
<1> QED BY <1>5 DEF t, u, v

LEMMA BelowSecond ==
  ASSUME NEW s \in Seq(FolderCall), Len(s) >= 2
  PROVE  s[2] \in FolderCall /\ Tail(Tail(s)) \in Seq(FolderCall)
         /\ Tail(s) = <<s[2]>> \o Tail(Tail(s))
<1> DEFINE t == Tail(s)
<1>1. t \in Seq(FolderCall) /\ Len(t) = Len(s) - 1 /\ t[1] = s[2] /\ Len(s) \in Nat
        /\ s[2] \in FolderCall
  OBVIOUS
<1> HIDE DEF t
<1>2. t # <<>>
  BY <1>1
<1>3. Tail(t) \in Seq(FolderCall) /\ t = <<t[1]>> \o Tail(t)
  BY <1>1, <1>2
<1> QED BY <1>1, <1>3 DEF t

LEMMA CallsAre == Calls = Elements(reading) /\ Calls' = Elements(reading')
BY DEF Calls, Elements

(* The innermost call and those below it. *)
LEMMA StackParts ==
  ASSUME reading \in Seq(FolderCall), reading # <<>>
  PROVE  /\ Innermost \in FolderCall /\ Tail(reading) \in Seq(FolderCall)
         /\ Calls = {Innermost} \cup Elements(Tail(reading))
<1>1. Tail(reading) \in Seq(FolderCall) /\ Innermost \in FolderCall
        /\ reading = <<Innermost>> \o Tail(reading)
  BY DEF Innermost
<1> QED BY <1>1, ConsElements, CallsAre

(* The entries that were tracked still are. *)
LEMMA CallsChange ==
  ASSUME ReadingSound, reading' # <<>>, \A c \in Calls' : CallSound(c),
         \A e : (\E c \in Calls : Tracks(c, e)) => \E c \in Calls' : Tracks(c, e)
  PROVE  ReadingSound'
<1>1. PICK opened \in SUBSET Folders :
        /\ DroppedFolder \in opened
        /\ \A d \in opened : \A e \in EntriesOf(d) : e \in opened \/ \E c \in Calls : Tracks(c, e)
  BY DEF ReadingSound, NothingLost
<1>2. \A d \in opened : \A e \in EntriesOf(d) : e \in opened \/ \E c \in Calls' : Tracks(c, e)
  BY <1>1
<1> QED BY <1>1, <1>2 DEF ReadingSound, NothingLost

LEMMA InnermostChanges ==
  ASSUME TarballInv, tarStep = "read", NEW c \in FolderCall,
         reading' = <<c>> \o Tail(reading), CallSound(c),
         \A e : Tracks(Innermost, e) => Tracks(c, e)
  PROVE  reading' \in Seq(FolderCall) /\ ReadingSound'
<1>1. reading \in Seq(FolderCall) /\ reading # <<>> /\ ReadingSound
  BY DEF TarballInv, TarballTypeOK, ReadingSound
<1>2. reading' \in Seq(FolderCall) /\ reading' # <<>>
        /\ Calls' = {c} \cup Elements(Tail(reading))
  BY <1>1, StackParts, ConsElements, CallsAre
<1>3. Calls = {Innermost} \cup Elements(Tail(reading))
  BY <1>1, StackParts
<1>4. (\A k \in Calls' : CallSound(k))
        /\ \A e : (\E k \in Calls : Tracks(k, e)) => \E k \in Calls' : Tracks(k, e)
  BY <1>1, <1>2, <1>3 DEF ReadingSound
<1> QED BY <1>1, <1>2, <1>4, CallsChange

-----------------------------------------------------------------------------
LEMMA TarballInitInv == TarballInit => TarballInv
<1> SUFFICES ASSUME TarballInit PROVE TarballInv
  OBVIOUS
<1> DEFINE c == Call(DroppedFolder, PathOf[DroppedFolder])
<1>1. PathOf[DroppedFolder] = Root /\ Root \in PathSet /\ DroppedFolder \in Folders
  BY PathOfEquation, RootIsPath, TarballAssumption
<1>2. c \in FolderCall /\ CallSound(c) /\ \A e \in EntriesOf(DroppedFolder) : Tracks(c, e)
  BY <1>1, CallTypes, CallStarts
<1>3. reading = <<c>>
  BY <1>1 DEF TarballInit, Root
<1> HIDE DEF c
<1>4. reading \in Seq(FolderCall) /\ reading # <<>> /\ Calls = {c}
  <2>1. <<c>> \in Seq(FolderCall) /\ <<c>> # <<>> /\ Len(<<c>>) = 1 /\ <<c>>[1] = c
          /\ DOMAIN <<c>> = {1}
    BY <1>2
  <2> QED BY <1>3, <2>1 DEF Calls
<1>5. NothingLost
  <2>1. {DroppedFolder} \in SUBSET Folders
    BY <1>1
  <2> QED BY <1>2, <1>4, <2>1 DEF NothingLost
<1>6. tarStep = "read" /\ totalRead = 0 /\ folderList = {} /\ buffering = {} /\ tarball = {}
  BY DEF TarballInit
<1> QED BY <1>2, <1>4, <1>5, <1>6 DEF TarballInv, TarballTypeOK, HeadersJoin, ReadingSound

(* While folders are read only the calls and the sum change. *)
LEMMA ReadingKeeps ==
  ASSUME TarballInv, reading' \in Seq(FolderCall), totalRead' \in Nat,
         tarStep \in {"read", "pack", "buffer"}, tarStep' \in {"read", "failed"},
         tarStep' = "read" => ReadingSound',
         UNCHANGED <<folderList, buffering, tarball>>
  PROVE  TarballInv'
BY DEF TarballInv, TarballTypeOK, HeadersJoin

LEMMA EntriesKeep == ASSUME TarballInv, NextBatch PROVE TarballInv'
<1>1. PICK b \in SUBSET Innermost.unread :
        reading' = <<[Innermost EXCEPT !.batch = b, !.asked = TRUE, !.unread = @ \ b]>>
                     \o Tail(reading)
  BY DEF NextBatch
<1>2. tarStep = "read" /\ UNCHANGED <<tarStep, totalRead, folderList, buffering, tarball>>
        /\ Innermost.batch = {}
  BY DEF NextBatch
<1>3. reading \in Seq(FolderCall) /\ reading # <<>> /\ totalRead \in Nat /\ ReadingSound
  BY <1>2 DEF TarballInv, TarballTypeOK, ReadingSound
<1>4. Innermost \in FolderCall /\ CallSound(Innermost)
  BY <1>3, StackParts DEF ReadingSound
<1> DEFINE c == [Innermost EXCEPT !.batch = b, !.asked = TRUE, !.unread = @ \ b]
<1>5. c \in FolderCall /\ c.batch = b /\ c.unread = Innermost.unread \ b
        /\ c.dir = Innermost.dir /\ c.path = Innermost.path /\ c.found = Innermost.found
  BY <1>4 DEF FolderCall
<1>6. reading' = <<c>> \o Tail(reading)
  BY <1>1
<1> HIDE DEF c
<1>7. CallSound(c)
  BY <1>4, <1>5 DEF CallSound
<1>8. \A e : Tracks(Innermost, e) => Tracks(c, e)
  BY <1>2, <1>5 DEF Tracks
<1>9. reading' \in Seq(FolderCall) /\ ReadingSound'
  BY <1>2, <1>5, <1>6, <1>7, <1>8, InnermostChanges
<1> QED BY <1>2, <1>3, <1>9, ReadingKeeps

LEMMA FileKeeps == ASSUME TarballInv, ReadFile PROVE TarballInv'
<1>1. PICK f \in Innermost.batch \cap FolderFiles :
        /\ totalRead' = totalRead + FileSize[f]
        /\ \/ tarStep' = "failed" /\ reading' = <<>>
           \/ /\ reading' = <<[Innermost EXCEPT
                                 !.batch = @ \ {f},
                                 !.found = @ \cup {[path |-> EntryPath(Innermost.path, f),
                                                    file |-> f]}]>> \o Tail(reading)
              /\ tarStep' = tarStep
  BY DEF ReadFile
<1>2. tarStep = "read" /\ UNCHANGED <<folderList, buffering, tarball>>
  BY DEF ReadFile
<1>3. reading \in Seq(FolderCall) /\ reading # <<>> /\ totalRead \in Nat /\ ReadingSound
  BY <1>2 DEF TarballInv, TarballTypeOK, ReadingSound
<1>4. Innermost \in FolderCall /\ Innermost.path \in PathSet /\ CallSound(Innermost)
        /\ Innermost.dir \in Folders
  BY <1>3, StackParts DEF FolderCall, ReadingSound
<1> DEFINE l == [path |-> EntryPath(Innermost.path, f), file |-> f]
           c == [Innermost EXCEPT !.batch = @ \ {f}, !.found = @ \cup {l}]
<1>5. l \in Listing /\ l.path = PathOf[l.file] /\ l.file = f
  <2>1. EntryPath(Innermost.path, f) = PathOf[f]
    BY <1>4, PathOfEntry DEF CallSound
  <2> QED BY <1>4, <2>1, EntryPathTypes DEF Listing
<1> HIDE DEF l
<1>6. c \in FolderCall /\ c.batch = Innermost.batch \ {f} /\ c.unread = Innermost.unread
        /\ c.dir = Innermost.dir /\ c.path = Innermost.path
        /\ c.found = Innermost.found \cup {l}
  BY <1>4, <1>5 DEF FolderCall
<1>7. totalRead' \in Nat
  BY <1>1, <1>3, TarballAssumption
<1>8. <<>> \in Seq(FolderCall)
  OBVIOUS
<1>9. CASE tarStep' = "failed" /\ reading' = <<>>
  BY <1>2, <1>7, <1>8, <1>9, ReadingKeeps
<1>10. CASE reading' = <<c>> \o Tail(reading) /\ tarStep' = tarStep
  <2> HIDE DEF c
  <2>1. CallSound(c)
    BY <1>4, <1>5, <1>6 DEF CallSound
  <2>2. \A e : Tracks(Innermost, e) => Tracks(c, e)
    BY <1>5, <1>6 DEF Tracks
  <2>3. reading' \in Seq(FolderCall) /\ ReadingSound'
    BY <1>2, <1>6, <1>10, <2>1, <2>2, InnermostChanges
  <2> QED BY <1>2, <1>7, <1>10, <2>3, ReadingKeeps
<1> QED BY <1>1, <1>9, <1>10 DEF l

(* The directory is opened, and its entries are the new call's to read. *)
LEMMA SubfolderKeeps == ASSUME TarballInv, ReadSubfolder PROVE TarballInv'
<1>1. PICK d \in Innermost.batch \cap Folders :
        reading' = <<Call(d, EntryPath(Innermost.path, d)),
                     [Innermost EXCEPT !.batch = @ \ {d}]>> \o Tail(reading)
  BY DEF ReadSubfolder
<1>2. tarStep = "read" /\ UNCHANGED <<tarStep, totalRead, folderList, buffering, tarball>>
  BY DEF ReadSubfolder
<1>3. reading \in Seq(FolderCall) /\ reading # <<>> /\ totalRead \in Nat /\ ReadingSound
  BY <1>2 DEF TarballInv, TarballTypeOK, ReadingSound
<1>4. Innermost \in FolderCall /\ CallSound(Innermost) /\ Innermost.dir \in Folders
        /\ Tail(reading) \in Seq(FolderCall)
  BY <1>3, StackParts DEF FolderCall, ReadingSound
<1> DEFINE c == Call(d, PathOf[d])
           i == [Innermost EXCEPT !.batch = @ \ {d}]
<1>5. EntryPath(Innermost.path, d) = PathOf[d] /\ PathOf[d] \in PathSet
  BY <1>4, PathOfEntry, PathOfEquation DEF CallSound
<1>6. c \in FolderCall /\ CallSound(c) /\ \A e \in EntriesOf(d) : Tracks(c, e)
  BY <1>5, CallTypes, CallStarts
<1>7. i \in FolderCall /\ i.batch = Innermost.batch \ {d} /\ i.unread = Innermost.unread
        /\ i.dir = Innermost.dir /\ i.path = Innermost.path /\ i.found = Innermost.found
  BY <1>4 DEF FolderCall
<1>8. reading' = <<c, i>> \o Tail(reading)
  BY <1>1, <1>5
<1> HIDE DEF c, i
<1>9. reading' = <<c>> \o (<<i>> \o Tail(reading))
  BY <1>4, <1>6, <1>7, <1>8, ConsTwice
<1>10. reading' \in Seq(FolderCall) /\ reading' # <<>>
         /\ Calls' = {c, i} \cup Elements(Tail(reading))
  <2>1. <<i>> \o Tail(reading) \in Seq(FolderCall)
          /\ Elements(<<i>> \o Tail(reading)) = {i} \cup Elements(Tail(reading))
    BY <1>4, <1>7, ConsElements
  <2>2. reading' \in Seq(FolderCall) /\ reading' # <<>>
          /\ Elements(reading') = {c} \cup Elements(<<i>> \o Tail(reading))
    BY <1>6, <1>9, <2>1, ConsElements
  <2> QED BY <2>1, <2>2, CallsAre
<1>11. CallSound(i)
  BY <1>4, <1>7 DEF CallSound
<1>12. \A k \in Calls' : CallSound(k)
  BY <1>3, <1>6, <1>10, <1>11, StackParts DEF ReadingSound
<1>13. PICK opened \in SUBSET Folders :
         /\ DroppedFolder \in opened
         /\ \A x \in opened : \A e \in EntriesOf(x) : e \in opened \/ \E k \in Calls : Tracks(k, e)
  BY <1>3 DEF ReadingSound, NothingLost
<1>14. \A e : (\E k \in Calls : Tracks(k, e)) => e = d \/ \E k \in Calls' : Tracks(k, e)
  <2>1. \A e : Tracks(Innermost, e) => e = d \/ Tracks(i, e)
    BY <1>7 DEF Tracks
  <2> QED BY <1>3, <1>10, <2>1, StackParts
<1>15. NothingLost'
  <2> DEFINE now == opened \cup {d}
  <2>1. now \in SUBSET Folders /\ DroppedFolder \in now
    BY <1>13
  <2>2. \A x \in now : \A e \in EntriesOf(x) : e \in now \/ \E k \in Calls' : Tracks(k, e)
    BY <1>6, <1>10, <1>13, <1>14
  <2> HIDE DEF now
  <2> QED BY <2>1, <2>2 DEF NothingLost
<1> QED BY <1>2, <1>3, <1>10, <1>12, <1>15, ReadingKeeps DEF ReadingSound

(* With nothing left to read the list is whole: by the tree every directory was opened,
   and each file is in one of them. *)
LEMMA OutermostWhole ==
  ASSUME TarballInv, tarStep = "read", Len(reading) = 1, DirectoryOver
  PROVE  /\ {l.file : l \in Innermost.found} = FolderFiles
         /\ \A l \in Innermost.found : l.path = PathOf[l.file]
<1>1. reading \in Seq(FolderCall) /\ reading # <<>> /\ ReadingSound
  BY DEF TarballInv, TarballTypeOK, ReadingSound
<1>2. Calls = {Innermost}
  BY <1>1 DEF Calls, Innermost
<1>3. Innermost \in FolderCall /\ CallSound(Innermost)
  BY <1>1, <1>2, StackParts DEF ReadingSound
<1>4. PICK opened \in SUBSET Folders :
        /\ DroppedFolder \in opened
        /\ \A d \in opened : \A e \in EntriesOf(d) : e \in opened \/ Tracks(Innermost, e)
  BY <1>1, <1>2 DEF ReadingSound, NothingLost
<1>5. \A e : Tracks(Innermost, e) => \E l \in Innermost.found : l.file = e
  BY DEF DirectoryOver, Tracks
<1>6. \A l \in Innermost.found : l.file \in FolderFiles
  BY <1>3 DEF FolderCall, Listing
<1>7. ASSUME NEW d \in Folders \ {DroppedFolder}, ParentOf[d] \in opened PROVE d \in opened
  <2>1. d \in EntriesOf(ParentOf[d])
    BY DEF EntriesOf
  <2> QED BY <1>4, <1>5, <1>6, <1>7, <2>1, TarballAssumption
<1>8. opened = Folders
  BY <1>4, <1>7, TreeInduction
<1>9. ASSUME NEW f \in FolderFiles PROVE \E l \in Innermost.found : l.file = f
  <2>1. f \in EntriesOf(ParentOf[f]) /\ ParentOf[f] \in Folders /\ f \notin Folders
    BY TarballAssumption DEF EntriesOf
  <2> QED BY <1>4, <1>5, <1>8, <2>1
<1> QED BY <1>3, <1>6, <1>9 DEF CallSound

(* The list of a call goes to the one that made it, that of the outermost is packed. *)
LEMMA ReturnKeeps == ASSUME TarballInv, ReturnFolder PROVE TarballInv'
<1>1. tarStep = "read" /\ UNCHANGED <<totalRead, buffering, tarball>> /\ DirectoryOver
  BY DEF ReturnFolder
<1>2. reading \in Seq(FolderCall) /\ reading # <<>> /\ totalRead \in Nat /\ ReadingSound
  BY <1>1 DEF TarballInv, TarballTypeOK, ReadingSound
<1>3. Innermost \in FolderCall /\ Innermost.found \subseteq Listing /\ Len(reading) \in Nat \ {0}
        /\ CallSound(Innermost)
  BY <1>2, StackParts DEF FolderCall, ReadingSound
<1>4. CASE Len(reading) = 1
  <2>1. reading' = <<>> /\ folderList' = Innermost.found /\ tarStep' = "pack"
    BY <1>4 DEF ReturnFolder
  <2>2. <<>> \in Seq(FolderCall)
    OBVIOUS
  <2>3. tarball = {}
    BY <1>1 DEF TarballInv
  <2>4. ListWhole'
    BY <1>1, <1>4, <2>1, OutermostWhole DEF ListWhole
  <2> QED BY <1>1, <1>3, <2>1, <2>2, <2>3, <2>4 DEF TarballInv, TarballTypeOK, HeadersJoin
<1>5. CASE Len(reading) # 1
  <2> DEFINE c == [reading[2] EXCEPT !.found = @ \cup Innermost.found]
             below == Tail(Tail(reading))
  <2>1. reading' = <<c>> \o below /\ UNCHANGED <<folderList, tarStep>>
    BY <1>5 DEF ReturnFolder
  <2>2. reading[2] \in FolderCall /\ below \in Seq(FolderCall)
          /\ Calls = {Innermost, reading[2]} \cup Elements(below)
    <3>1. Len(reading) >= 2
      BY <1>3, <1>5
    <3>2. reading[2] \in FolderCall /\ below \in Seq(FolderCall)
            /\ Tail(reading) = <<reading[2]>> \o below
      BY <1>2, <3>1, BelowSecond
    <3> HIDE DEF below
    <3>3. Elements(Tail(reading)) = {reading[2]} \cup Elements(below)
      BY <3>2, ConsElements
    <3> QED BY <1>2, <3>2, <3>3, StackParts
  <2>3. c \in FolderCall /\ c.unread = reading[2].unread /\ c.batch = reading[2].batch
          /\ c.dir = reading[2].dir /\ c.path = reading[2].path
          /\ c.found = reading[2].found \cup Innermost.found
    BY <1>3, <2>2 DEF FolderCall
  <2> HIDE DEF c, below
  <2>4. reading' \in Seq(FolderCall) /\ reading' # <<>> /\ Calls' = {c} \cup Elements(below)
    BY <2>1, <2>2, <2>3, ConsElements, CallsAre
  <2>5. CallSound(c)
    BY <1>2, <1>3, <2>2, <2>3 DEF CallSound, ReadingSound
  <2>6. \A k \in {Innermost, reading[2]} : \A e : Tracks(k, e) => Tracks(c, e)
    BY <1>1, <2>3 DEF Tracks, DirectoryOver
  <2>7. ReadingSound'
    <3>1. (\A k \in Calls' : CallSound(k))
            /\ \A e : (\E k \in Calls : Tracks(k, e)) => \E k \in Calls' : Tracks(k, e)
      BY <1>2, <2>2, <2>4, <2>5, <2>6 DEF ReadingSound
    <3> QED BY <1>2, <2>4, <3>1, CallsChange
  <2> QED BY <1>1, <1>2, <2>1, <2>4, <2>7, ReadingKeeps
<1> QED BY <1>4, <1>5

LEMMA FailureKeepsList ==
  ASSUME TarballInv, tarStep \in {"read", "pack", "buffer"}, FailTarball PROVE TarballInv'
<1>1. <<>> \in Seq(FolderCall)
  OBVIOUS
<1> QED BY <1>1, ReadingKeeps DEF FailTarball, TarballInv, TarballTypeOK

(* From the list on: it is checked, buffered and written as it is. *)
LEMMA PackingKeeps ==
  ASSUME TarballInv, CheckFolder \/ BufferFile \/ createTar PROVE TarballInv'
<1>1. CASE CheckFolder /\ FailTarball
  BY <1>1, FailureKeepsList DEF CheckFolder
<1>2. CASE CheckFolder /\ ~ FailTarball
  <2>1. /\ \A l \in folderList : splitTarPath(l.path).fits
        /\ tarStep = "pack" /\ tarStep' = "buffer" /\ buffering' = {l.file : l \in folderList}
        /\ UNCHANGED <<reading, totalRead, folderList, tarball>>
    BY <1>2 DEF CheckFolder
  <2>2. buffering' = FolderFiles
    BY <2>1 DEF TarballInv, ListWhole
  <2>3. ~ TooLarge(FolderFiles)
    BY <1>2, <2>1, <2>2 DEF CheckFolder
  <2> QED BY <2>1, <2>2, <2>3 DEF TarballInv, TarballTypeOK, HeadersJoin, ListWhole
<1>3. CASE BufferFile
  BY <1>3 DEF BufferFile, TarballInv, TarballTypeOK, HeadersJoin, ListWhole
<1>4. CASE createTar
  <2>1. /\ tarStep = "buffer" /\ tarStep' = "archive"
        /\ tarball' = {Header(l) : l \in folderList}
        /\ UNCHANGED <<reading, totalRead, folderList, buffering>>
    BY <1>4 DEF createTar
  <2>2. ASSUME NEW l \in folderList
        PROVE  /\ Header(l) \in [name : Int, prefix : Int, file : FolderFiles]
               /\ Header(l).name <= NameRoom /\ Header(l).prefix <= PrefixRoom
               /\ Header(l).file = l.file /\ JoinsTo(Header(l), l.path)
    <3>1. l.path \in PathSet /\ l.file \in FolderFiles /\ splitTarPath(l.path).fits
      BY <2>1 DEF TarballInv, TarballTypeOK, Listing
    <3>2. Header(l).name = splitTarPath(l.path).name /\ Header(l).file = l.file
            /\ Header(l).prefix = splitTarPath(l.path).prefix
      BY DEF Header
    <3>3. /\ JoinsTo(Header(l), l.path)
          /\ Header(l).name <= NameRoom /\ Header(l).prefix <= PrefixRoom
          /\ Header(l).name \in Int /\ Header(l).prefix \in Int
      BY <3>1, <3>2, SplitJoins
    <3> QED BY <3>1, <3>2, <3>3 DEF Header
  <2>3. tarball' \subseteq [name : Int, prefix : Int, file : FolderFiles]
    BY <2>1, <2>2
  <2>4. HeadersJoin'
    BY <2>1, <2>2 DEF HeadersJoin
  <2> QED BY <2>1, <2>3, <2>4 DEF TarballInv, TarballTypeOK, ListWhole
<1> QED BY <1>1, <1>2, <1>3, <1>4

LEMMA TarballStepInv == TarballInv /\ [TarballNext]_tarballVars => TarballInv'
<1>1. ASSUME TarballInv, UNCHANGED tarballVars PROVE TarballInv'
  <2>1. UNCHANGED <<tarStep, reading, totalRead, folderList, buffering, tarball>>
    BY <1>1 DEF tarballVars
  <2>2. (TarballTypeOK /\ HeadersJoin)'
    BY <1>1, <2>1 DEF TarballInv, TarballTypeOK, HeadersJoin
  <2>3. Calls' = Calls
    BY <2>1 DEF Calls
  <2>4. tarStep = "read" => ReadingSound'
    BY <1>1, <2>1, <2>3 DEF TarballInv, ReadingSound, NothingLost
  <2>5. ListWhole' <=> ListWhole
    BY <2>1 DEF ListWhole
  <2> QED BY <1>1, <2>1, <2>2, <2>4, <2>5 DEF TarballInv
<1>2. ASSUME TarballInv, ReadRefused \/ BufferRefused PROVE TarballInv'
  BY <1>2, FailureKeepsList DEF ReadRefused, BufferRefused
<1> QED BY <1>1, <1>2, EntriesKeep, FileKeeps, SubfolderKeeps, ReturnKeeps, PackingKeeps
     DEF TarballNext

(* Of any folder, with names of any length in any order of reading: the archive holds
   no header whose fields are too long or give another path than the one read for the
   file (lib/tarball.ts:splitTarPath, buildHeader). *)
THEOREM HeadersGivePaths == TarballSpec => []HeadersJoin
<1>1. TarballInv => HeadersJoin
  BY DEF TarballInv
<1> QED BY <1>1, TarballInitInv, TarballStepInv, PTL DEF TarballSpec

(* The calls, lists and headers have their types. *)
THEOREM TarballTyped == TarballSpec => []TarballTypeOK
<1>1. TarballInv => TarballTypeOK
  BY DEF TarballInv
<1> QED BY <1>1, TarballInitInv, TarballStepInv, PTL DEF TarballSpec

(* Of any folder, read in whatever batches: the archive has all of its files and only
   those, each under a header that gives its path in the tree, and is not too large
   (lib/tarball.ts:readDirectoryEntry, packageFilesAsTar). *)
THEOREM FolderWhole == TarballSpec => []FolderComplete
<1>1. ASSUME TarballInv, tarStep = "archive" PROVE FolderComplete
  <2>1. tarball = {Header(l) : l \in folderList} /\ ~ TooLarge(FolderFiles)
          /\ {l.file : l \in folderList} = FolderFiles
          /\ \A l \in folderList : l.path = PathOf[l.file]
    BY <1>1 DEF TarballInv, ListWhole
  <2>2. \A l \in folderList : Header(l).file = l.file
    BY DEF Header
  <2>3. {e.file : e \in tarball} = FolderFiles
    BY <2>1, <2>2
  <2>4. \A e \in tarball : /\ JoinsTo(e, PathOf[e.file])
                          /\ e.name <= NameRoom /\ e.prefix <= PrefixRoom
    BY <1>1, <2>1 DEF TarballInv, HeadersJoin
  <2> QED BY <2>1, <2>3, <2>4 DEF FolderComplete
<1>2. TarballInv => FolderComplete
  BY <1>1 DEF FolderComplete
<1> QED BY <1>2, TarballInitInv, TarballStepInv, PTL DEF TarballSpec
=============================================================================
