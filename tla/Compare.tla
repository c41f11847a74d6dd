-------------------------------- MODULE Compare --------------------------------
(***************************************************************************)
(* The comparison of two analyses: the comparison and both boards load      *)
(* together, and then two board viewers share one view.  A viewer that      *)
(* moves tells the page, the page renders, and an effect that runs after   *)
(* the render gives both the view of that render.                          *)
(*                                                                         *)
(* A view is a number, standing for pan and zoom; Fit is the one that fits  *)
(* the board, the same for both, as the viewers are of one size.            *)
(*                                                                         *)
(* Assumed of the user: no move within the frame in which the viewers       *)
(* appear, and never a move of both between two renders.                   *)
(***************************************************************************)
EXTENDS Integers

CONSTANTS Views    \* bound: the views 0 .. Views; they appear with view 1

ASSUME CompareAssumption == Views \in Nat \ {0}

Sides == {"A", "B"}
Fit == 0
NoView == -1

VARIABLES
    comparison,  \* "loading", "error" or "shown"
    boardOf,     \* the board of each side: "loading", "error" or "loaded"
    sizedUp,     \* the viewers have been laid out
    view,        \* zoomRef and panRef of each viewer
    turned,      \* rotationRef of each viewer
    syncView,    \* syncTransform of the page
    rendered,    \* the externalTransform of the last render
    effectDue,   \* its effect has not run
    mover        \* the viewer moved last

compareVars == <<comparison, boardOf, sizedUp, view, turned, syncView, rendered, effectDue,
                 mover>>

AllViews == 0 .. Views

CompareTypeOK ==
    /\ comparison \in {"loading", "error", "shown"}
    /\ boardOf \in [Sides -> {"loading", "error", "loaded"}]
    /\ sizedUp \in BOOLEAN /\ effectDue \in BOOLEAN
    /\ view \in [Sides -> AllViews]
    /\ turned \in [Sides -> {0, 90, 180, 270}]
    /\ syncView \in AllViews \cup {NoView} /\ rendered \in AllViews \cup {NoView}
    /\ mover \in Sides

CompareInit ==
    /\ comparison = "loading" /\ boardOf = [v \in Sides |-> "loading"]
    /\ sizedUp = FALSE
    /\ view = [v \in Sides |-> 1] /\ turned = [v \in Sides |-> 0]
    /\ syncView = NoView /\ rendered = NoView /\ effectDue = FALSE
    /\ mover = "A"

viewing == <<sizedUp, view, turned, syncView, rendered, effectDue, mover>>

-----------------------------------------------------------------------------
(* Loading.  The page waits for both boards, whose failures it tolerates, but not
   for them once the comparison has failed.                                  *)

BoardAnswered(v) ==
    /\ boardOf[v] = "loading"
    /\ \E r \in {"error", "loaded"} : boardOf' = [boardOf EXCEPT ![v] = r]
    /\ UNCHANGED <<comparison, viewing>>

Compared ==
    /\ comparison = "loading"
    /\ \/ comparison' = "error"
       \/ comparison' = "shown" /\ \A v \in Sides : boardOf[v] # "loading"
    /\ UNCHANGED <<boardOf, viewing>>

(* A side has a viewer, or says that its board is unavailable. *)
HasViewer(v) == comparison = "shown" /\ boardOf[v] = "loaded"

-----------------------------------------------------------------------------
(* The viewers.                                                              *)

(* The observers of the first layout, in one frame, fit the board and tell nobody. *)
LayOut ==
    /\ \E v \in Sides : HasViewer(v)
    /\ ~ sizedUp
    /\ sizedUp' = TRUE
    /\ view' = [v \in Sides |-> IF HasViewer(v) THEN Fit ELSE view[v]]
    /\ UNCHANGED <<comparison, boardOf, turned, syncView, rendered, effectDue, mover>>

Settled == syncView = rendered /\ ~ effectDue

MayMove(v) == sizedUp /\ HasViewer(v) /\ (v = mover \/ Settled)

(* Dragging, pinching and zooming: the viewer moves and tells the page. *)
Move(v) ==
    /\ MayMove(v)
    /\ \E w \in AllViews \ {view[v]} : view' = [view EXCEPT ![v] = w]
    /\ syncView' = view'[v] /\ mover' = v
    /\ UNCHANGED <<comparison, boardOf, sizedUp, turned, rendered, effectDue>>

QuietReset(v) ==                                                    \* mutant
    /\ MayMove(v)
    /\ view' = [view EXCEPT ![v] = Fit] /\ turned' = [turned EXCEPT ![v] = 0]
    /\ mover' = v
    /\ UNCHANGED <<comparison, boardOf, sizedUp, syncView, rendered, effectDue>>
(* "Reset view": the fit, and this viewer's rotation. *)
ResetSide(v) ==
    /\ MayMove(v)
    /\ view' = [view EXCEPT ![v] = Fit] /\ turned' = [turned EXCEPT ![v] = 0]
    /\ syncView' = Fit /\ mover' = v
    /\ UNCHANGED <<comparison, boardOf, sizedUp, rendered, effectDue>>

(* The rotation is each viewer's own. *)
Rotate(v) ==
    /\ HasViewer(v)
    /\ turned' = [turned EXCEPT ![v] = (@ + 90) % 360]
    /\ UNCHANGED <<comparison, boardOf, sizedUp, view, syncView, rendered, effectDue, mover>>

(* The page renders; an effect that is due runs before the next render does. *)
Render ==
    /\ syncView # rendered /\ ~ effectDue
    /\ rendered' = syncView /\ effectDue' = TRUE
    /\ UNCHANGED <<comparison, boardOf, sizedUp, view, turned, syncView, mover>>

(* Both viewers take the view of the render, even over a newer one of their own. *)
RunEffects ==
    /\ effectDue
    /\ effectDue' = FALSE
    /\ view' = [v \in Sides |-> IF HasViewer(v) THEN rendered ELSE view[v]]
    /\ UNCHANGED <<comparison, boardOf, sizedUp, turned, syncView, rendered, mover>>

-----------------------------------------------------------------------------
CompareNext ==
    \/ Compared \/ LayOut \/ Render \/ RunEffects
    \/ \E v \in Sides : BoardAnswered(v) \/ Move(v) \/ ResetSide(v) \/ Rotate(v)

CompareSpec == CompareInit /\ [][CompareNext]_compareVars

-----------------------------------------------------------------------------
(* Two viewers show the same part of their boards whenever no render and no effect
   is outstanding, although each keeps its own view and an effect may put an older
   one over a newer (BoardViewer.tsx:714-732, compare/page.tsx:131-133). *)
BothViewers == \A v \in Sides : HasViewer(v)

InSync == Settled /\ BothViewers => view["A"] = view["B"]

-----------------------------------------------------------------------------
(* The inductive invariant of the proof: nothing moves before the viewers are laid
   out; until the first move all views are the fit; and from then on, with no effect
   due, the viewer that did not move last shows what was rendered last, and so does
   the other one when nothing newer is to be rendered. *)
LaidOutLate ==
    /\ comparison = "shown" => \A v \in Sides : boardOf[v] # "loading"
    /\ sizedUp => comparison = "shown"
    /\ ~ sizedUp => syncView = NoView

UnmovedAlike ==
    syncView = NoView =>
        /\ rendered = NoView /\ ~ effectDue
        /\ BothViewers \/ ~ sizedUp => view["A"] = view["B"]

RestOnRendered ==
    BothViewers /\ ~ effectDue /\ rendered # NoView =>
        /\ \A v \in Sides \ {mover} : view[v] = rendered
        /\ syncView = rendered => view[mover] = rendered

EffectHasView == effectDue => rendered # NoView

CompareInv ==
    CompareTypeOK /\ LaidOutLate /\ UnmovedAlike /\ RestOnRendered /\ EffectHasView
=============================================================================
