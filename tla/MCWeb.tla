-------------------------------- MODULE MCWeb --------------------------------
(* The pages and the components of the browser, for TLC.  A tab shows one of *)
(* them at a time and leaving a page drops its state, so a behaviour stays    *)
(* on one `route`, chosen in its first state from Routes, and the variables   *)
(* of the others keep one fixed value: the check is that of each module's own *)
(* specification, one after the other, in one run.                            *)
EXTENDS Session, Upload, Tarball, SubmissionList, BatchPage, SharePage, Focus,
        Gestures, Compare, Painter, Admin, TLC

CONSTANT Routes
VARIABLE route

ASSUME RoutesAssumption ==
  Routes \subseteq {"session", "upload", "tarball", "list", "batch", "share", "focus",
                    "gestures", "compare", "painter", "admin"}

\* A folder of four files, two levels deep, one of them too long for the name
\* field alone.
MCParentOf   == "board" :> "board" @@ "steps" :> "board" @@ "pcb" :> "steps" @@
                "matrix" :> "board" @@ "misc" :> "board" @@ "stephdr" :> "steps" @@
                "features" :> "pcb"
MCNameLength == "board" :> 2 @@ "steps" :> 1 @@ "pcb" :> 2 @@
                "matrix" :> 1 @@ "misc" :> 2 @@ "stephdr" :> 1 @@ "features" :> 3
MCFileSize   == "matrix" :> 1 @@ "misc" :> 0 @@ "stephdr" :> 2 @@ "features" :> 1

\* A violation on a layer of the board, one on the legacy name "drill", and one on a
\* layer the board lacks.
MCLayerSeq     == <<"top", "hole">>
MCMarkLayer    == "m1" :> "top"   @@ "m2" :> "drill" @@ "m3" :> "gone"
MCMarkSeverity == "m1" :> "ERROR" @@ "m2" :> "ERROR" @@ "m3" :> "WARNING"
MCMarkRule     == "m1" :> "r1"    @@ "m2" :> "r2"    @@ "m3" :> "r2"

\* Nothing distinguishes the tabs of a browser (used by the run without fairness).
TabSymmetry == Permutations(Tabs)

\* A page that is not shown: nothing is asked for.
ListAtRest ==
  /\ listPage = "dashboard" /\ actual = Absent /\ listed = Absent
  /\ listError = FALSE /\ listLoaded = FALSE
  /\ fetches = [s \in Slots |-> Unsent]
  /\ starting = FALSE /\ retryOn = 0 /\ removing = FALSE
  /\ panel = FALSE /\ overview = Uncounted
  /\ counting = [c \in CountSlots |-> 0]

BatchPageAtRest ==
  /\ batch = "PENDING" /\ data = NoBatch /\ batchError = FALSE
  /\ pollPc = "stopped" /\ pollAnswer = NoBatch /\ pollLate = FALSE
  /\ retryPc = "idle" /\ retryAnswer = NoBatch /\ batchRetried = FALSE

MCInit ==
  /\ route \in Routes
  /\ SessionInit /\ TarballInit /\ SharePageInit /\ GestureInit /\ CompareInit
  /\ UploadInit  /\ (route # "upload"  => step = "select")
  /\ FocusInit   /\ (route # "focus"   => ~ onShare /\ waived = {})
  /\ PainterInit /\ (route # "painter" => outline = "usable" /\ geometry
                                           /\ drawn.kind = "marker" /\ drawn.lies = "seen"
                                           /\ drawn.chosen = "none")
  /\ AdminInit   /\ (route # "admin"   => adminPage = "orgs" /\ rows = <<>>)
  /\ IF route = "list"  THEN ListInit      ELSE ListAtRest
  /\ IF route = "batch" THEN BatchPageInit ELSE BatchPageAtRest

MCNext ==
  \/ /\ route = "session" /\ SessionNext
     /\ UNCHANGED <<route, uploadVars, tarballVars, listVars, batchVars, shareVars,
                    focusVars, gestureVars, compareVars, paintVars, adminVars>>
  \/ /\ route = "upload" /\ UploadNext
     /\ UNCHANGED <<route, sessionVars, tarballVars, listVars, batchVars, shareVars,
                    focusVars, gestureVars, compareVars, paintVars, adminVars>>
  \/ /\ route = "tarball" /\ TarballNext
     /\ UNCHANGED <<route, sessionVars, uploadVars, listVars, batchVars, shareVars,
                    focusVars, gestureVars, compareVars, paintVars, adminVars>>
  \/ /\ route = "list" /\ ListNext
     /\ UNCHANGED <<route, sessionVars, uploadVars, tarballVars, batchVars, shareVars,
                    focusVars, gestureVars, compareVars, paintVars, adminVars>>
  \/ /\ route = "batch" /\ BatchPageNext
     /\ UNCHANGED <<route, sessionVars, uploadVars, tarballVars, listVars, shareVars,
                    focusVars, gestureVars, compareVars, paintVars, adminVars>>
  \/ /\ route = "share" /\ SharePageNext
     /\ UNCHANGED <<route, sessionVars, uploadVars, tarballVars, listVars, batchVars,
                    focusVars, gestureVars, compareVars, paintVars, adminVars>>
  \/ /\ route = "focus" /\ FocusNext
     /\ UNCHANGED <<route, sessionVars, uploadVars, tarballVars, listVars, batchVars,
                    shareVars, gestureVars, compareVars, paintVars, adminVars>>
  \/ /\ route = "gestures" /\ GestureNext
     /\ UNCHANGED <<route, sessionVars, uploadVars, tarballVars, listVars, batchVars,
                    shareVars, focusVars, compareVars, paintVars, adminVars>>
  \/ /\ route = "compare" /\ CompareNext
     /\ UNCHANGED <<route, sessionVars, uploadVars, tarballVars, listVars, batchVars,
                    shareVars, focusVars, gestureVars, paintVars, adminVars>>
  \/ /\ route = "painter" /\ PainterNext
     /\ UNCHANGED <<route, sessionVars, uploadVars, tarballVars, listVars, batchVars,
                    shareVars, focusVars, gestureVars, compareVars, adminVars>>
  \/ /\ route = "admin" /\ AdminNext
     /\ UNCHANGED <<route, sessionVars, uploadVars, tarballVars, listVars, batchVars,
                    shareVars, focusVars, gestureVars, compareVars, paintVars>>

webVars == <<route, sessionVars, uploadVars, tarballVars, listVars, batchVars, shareVars,
             focusVars, gestureVars, compareVars, paintVars, adminVars>>

MCSpec == MCInit /\ [][MCNext]_webVars

\* On a page that is not shown no action of its fairness is enabled.
MCFairSpec == MCSpec /\ SessionFairness /\ UploadFairness /\ ListFairness
                     /\ BatchPageFairness

\* The state of the page that is shown has its type, and what the proofs about the
\* page find inductive holds of it.
WebTypeOK ==
  /\ route \in Routes
  /\ route = "session"  => SessionInv
  /\ route = "upload"   => UploadInv
  /\ route = "tarball"  => TarballInv
  /\ route = "list"     => ListInv
  /\ route = "batch"    => BatchPageInv
  /\ route = "share"    => SharePageInv
  /\ route = "focus"    => FocusInv
  /\ route = "gestures" => GestureInv
  /\ route = "compare"  => CompareInv
  /\ route = "painter"  => PainterTypeOK
  /\ route = "admin"    => AdminTypeOK /\ AdminInv
=============================================================================
