-------------------------------- MODULE Gestures --------------------------------
(***************************************************************************)
(* The pan and zoom of one board viewer: fingers, mouse, wheel and buttons, *)
(* and the centring on a violation (BoardViewer).                          *)
(*                                                                         *)
(* The board has one dimension.  A zoom moves the pan to a place that       *)
(* depends on fractions; here it is any place.  The browser sends the       *)
(* canvas the events of the fingers that were put on it, and with each     *)
(* of them the list of all fingers on the screen.                          *)
(***************************************************************************)
EXTENDS Integers, Sequences, SequencesExt

CONSTANTS
    Fingers,
    Width,       \* bound: positions 0 .. Width
    PanLimit,    \* bound: the pan, either way
    ZoomLevels   \* bound: zooms 1 .. ZoomLevels, for 0.2 .. 20

ASSUME GestureAssumption == Width \in Nat /\ PanLimit \in Nat /\ ZoomLevels \in Nat \ {0}

VARIABLES
    pan, zoom,
    zoomPct,     \* the zoom the toolbar shows
    touches,     \* the fingers on the screen, in the order of e.touches
    onCanvas,    \* those that were put on the canvas
    at,          \* where each finger is
    lastTouch,   \* lastTouchRef, Lifted for null
    pinch,       \* pinchStartRef is not null
    mouse,       \* where the mouse is
    lastMouse, dragging, didMove

gestureVars == <<pan, zoom, zoomPct, touches, onCanvas, at, lastTouch, pinch,
                 mouse, lastMouse, dragging, didMove>>
fingerVars == <<touches, onCanvas, at, lastTouch, pinch>>
mouseVars == <<mouse, lastMouse, dragging, didMove>>
viewVars == <<pan, zoom, zoomPct>>

Places == 0 .. Width
Pans == -PanLimit .. PanLimit
Zooms == 1 .. ZoomLevels
Lifted == -1

GestureTypeOK ==
    /\ pan \in Pans /\ zoom \in Zooms /\ zoomPct \in Zooms
    /\ touches \in Seq(Fingers) /\ IsInjective(touches)
    /\ onCanvas \subseteq Fingers /\ at \in [Fingers -> Places]
    /\ lastTouch \in Places \cup {Lifted} /\ pinch \in BOOLEAN
    /\ mouse \in Places /\ lastMouse \in Places
    /\ dragging \in BOOLEAN /\ didMove \in BOOLEAN

GestureInit ==
    /\ pan = 0 /\ zoom = 1 /\ zoomPct = 1
    /\ touches = <<>> /\ onCanvas = {} /\ at = [f \in Fingers |-> 0]
    /\ lastTouch = Lifted /\ pinch = FALSE
    /\ mouse = 0 /\ lastMouse = 0 /\ dragging = FALSE /\ didMove = FALSE

-----------------------------------------------------------------------------
(* Fingers.  One on the screen pans, two or more pinch with the first two.   *)

TouchStart(f, p) ==
    /\ f \notin ToSet(touches)
    /\ touches' = Append(touches, f) /\ onCanvas' = onCanvas \cup {f}
    /\ at' = [at EXCEPT ![f] = p]
    /\ pinch' = (Len(touches') > 1)
    /\ lastTouch' = IF Len(touches') = 1 THEN p ELSE Lifted
    /\ UNCHANGED <<viewVars, mouseVars>>

(* A finger elsewhere on the page: the canvas hears nothing of it. *)
TouchElsewhere(f) ==
    /\ f \notin ToSet(touches)
    /\ touches' = Append(touches, f)
    /\ UNCHANGED <<viewVars, onCanvas, at, lastTouch, pinch, mouseVars>>

TouchMove(f, p) ==
    /\ f \in onCanvas /\ p # at[f]
    /\ at' = [at EXCEPT ![f] = p]
    /\ \/ /\ Len(touches) = 1 /\ ~ pinch
          /\ pan' = IF lastTouch = Lifted THEN pan ELSE pan + p - lastTouch
          /\ pan' \in Pans
          /\ lastTouch' = p
          /\ UNCHANGED <<zoom, zoomPct, pinch>>
       \/ /\ Len(touches) = 1 /\ pinch
          /\ UNCHANGED <<pan, zoom, zoomPct, lastTouch, pinch>>
       \/ /\ Len(touches) > 1
          /\ pinch' = TRUE
          /\ pan' \in Pans /\ zoom' \in Zooms /\ zoomPct' = zoom'
          /\ UNCHANGED lastTouch
    /\ UNCHANGED <<touches, onCanvas, mouseVars>>

Rest(f) == RemoveAt(touches, CHOOSE i \in DOMAIN touches : touches[i] = f)

KeepLast(f) ==                                                      \* mutant
    /\ f \in onCanvas
    /\ touches' = Rest(f) /\ onCanvas' = onCanvas \ {f}
    /\ at' = [at EXCEPT ![f] = 0]
    /\ pinch' = (pinch /\ Len(touches') > 1)
    /\ lastTouch' = IF Len(touches') = 0 THEN Lifted ELSE lastTouch
    /\ UNCHANGED <<viewVars, mouseVars>>
TouchEnd(f) ==
    /\ f \in onCanvas
    /\ touches' = Rest(f) /\ onCanvas' = onCanvas \ {f}
    /\ at' = [at EXCEPT ![f] = 0]
    /\ pinch' = (pinch /\ Len(touches') > 1)
    /\ lastTouch' = CASE Len(touches') = 0 -> Lifted
                      [] Len(touches') = 1 -> at[touches'[1]]
                      [] OTHER -> lastTouch
    /\ UNCHANGED <<viewVars, mouseVars>>

LiftElsewhere(f) ==
    /\ f \in ToSet(touches) \ onCanvas
    /\ touches' = Rest(f)
    /\ UNCHANGED <<viewVars, onCanvas, at, lastTouch, pinch, mouseVars>>

-----------------------------------------------------------------------------
(* The mouse, not while fingers are on the screen.                           *)

MouseDown ==
    /\ touches = <<>>
    /\ dragging' = TRUE /\ didMove' = FALSE /\ lastMouse' = mouse
    /\ UNCHANGED <<viewVars, fingerVars, mouse>>

MouseMove(p) ==
    /\ touches = <<>> /\ p # mouse
    /\ mouse' = p
    /\ IF dragging
       THEN /\ didMove' = TRUE
            /\ pan' = pan + p - lastMouse /\ pan' \in Pans
            /\ lastMouse' = p
       ELSE UNCHANGED <<pan, didMove, lastMouse>>
    /\ UNCHANGED <<zoom, zoomPct, fingerVars, dragging>>

(* The button goes up, or the mouse leaves the canvas. *)
MouseUp ==
    /\ dragging
    /\ dragging' = FALSE
    /\ UNCHANGED <<viewVars, fingerVars, mouse, lastMouse, didMove>>

(* The effect on the selection, and on what is drawn while there is one. *)
CenterOn ==
    /\ pan' \in Pans
    /\ zoom' = (IF zoom < ZoomLevels THEN ZoomLevels ELSE zoom)
    /\ UNCHANGED zoomPct

(* A row of the list, or a layer toggled while a violation is selected. *)
Recenter == CenterOn /\ UNCHANGED <<fingerVars, mouseVars>>

(* A click on a marker, not at the end of a drag. *)
ClickMarker ==
    /\ ~ dragging /\ ~ didMove /\ touches = <<>>
    /\ CenterOn
    /\ UNCHANGED <<fingerVars, mouseVars>>

-----------------------------------------------------------------------------
(* The wheel, the zoom buttons and the reset (the rotation is in Compare).   *)

ZoomBy(step) ==
    /\ zoom' = IF zoom + step \in Zooms THEN zoom + step ELSE zoom
    /\ zoomPct' = zoom'
    /\ IF zoom' = zoom THEN UNCHANGED pan ELSE pan' \in Pans
    /\ UNCHANGED <<fingerVars, mouseVars>>

(* Back to the fit of the board into the viewer. *)
ResetView ==
    /\ pan' = 0 /\ zoom' = 1 /\ zoomPct' = 1
    /\ UNCHANGED <<fingerVars, mouseVars>>

-----------------------------------------------------------------------------
GestureNext ==
    \/ \E f \in Fingers, p \in Places : TouchStart(f, p) \/ TouchMove(f, p)
    \/ \E f \in Fingers : TouchElsewhere(f) \/ TouchEnd(f) \/ LiftElsewhere(f)
    \/ \E p \in Places : MouseMove(p)
    \/ MouseDown \/ MouseUp \/ ClickMarker \/ Recenter
    \/ \E step \in {-1, 1} : ZoomBy(step)
    \/ ResetView

GestureSpec == GestureInit /\ [][GestureNext]_gestureVars

-----------------------------------------------------------------------------
(* The board follows the one finger that is on it: after any sequence of fingers
   put down and lifted, its first move shifts the pan by just that move, and never
   by the way from where another finger was (BoardViewer.tsx:983-1055).  A pinch
   with a finger elsewhere on the page leaves the board standing still. *)
Follows(f) ==
    Len(touches) = 1 /\ f \in onCanvas /\ touches' = touches /\ at'[f] # at[f] =>
        IF pinch THEN pan' = pan ELSE pan' - pan = at'[f] - at[f]

NoJump == [][\A f \in Fingers : Follows(f)]_gestureVars

(* Why: until a second finger makes it a pinch, the place remembered is that of the
   finger on the canvas, and every finger on the canvas is on the screen. *)
GestureInv ==
    /\ GestureTypeOK
    /\ onCanvas \subseteq ToSet(touches)
    /\ ~ pinch => \A f \in onCanvas : lastTouch = at[f]
=============================================================================
