-------------------------------- MODULE Painter --------------------------------
(***************************************************************************)
(* What is painted of a board, given the layers that are on: by the canvas *)
(* of the viewer (BoardViewer, draw) and by the list of paint instructions *)
(* (boardPainter, buildPaintList), which mirrors it.                       *)
(*                                                                         *)
(* One thing to be drawn is followed: a feature of the board, that is its  *)
(* kind, its layer ("" for none) and where it lies, or a violation's       *)
(* marker.  What a layer is follows from its name, but for the gate of     *)
(* vias and drills, which reads its type.                                  *)
(***************************************************************************)
EXTENDS FiniteSets

CONSTANTS
    PaintLayers,                            \* the layers of the board, by name
    SilkNames, MaskNames, OutlineNames, DrillNames,   \* what the names say
    RoutName,                               \* the layer named rout
    GateLayers,                             \* of type COPPER or DRILL
    CopperTyped,                            \* of type COPPER or POWER_GROUND
    DrillTyped                              \* of type DRILL

ASSUME PainterAssumption ==
    /\ {SilkNames, MaskNames, OutlineNames, DrillNames, GateLayers, CopperTyped, DrillTyped}
         \subseteq SUBSET PaintLayers
    /\ RoutName \in OutlineNames \ (SilkNames \cup MaskNames \cup DrillNames)
    /\ DrillTyped \subseteq GateLayers /\ GateLayers \subseteq DrillTyped \cup CopperTyped
    /\ DrillTyped \cap CopperTyped = {}
    /\ "" \notin PaintLayers

VARIABLES
    drawn,       \* the feature or the marker
    off,         \* hiddenLayers
    culling,     \* the board is not rotated
    outline,     \* the points of the outline: none, all unusable, or usable
    geometry     \* there are features

paintVars == <<drawn, off, culling, outline, geometry>>

(* In the viewport, scrolled out of it, beside the board, or without usable
   coordinates. *)
Lies == {"seen", "scrolled", "beside", "nowhere"}

(* Drills are of drill layers, vias of any layer that is not copper (a donut of a mask or
   a paste layer is one), or both of none in older analyses; `tiny`: too small at this
   zoom, or of too small a radius.  `chosen`: which marker is selected. *)
Drawings ==
    [kind : {"polygon", "trace", "pad"}, layer : PaintLayers, lies : Lies,
     tiny : {"no"}, chosen : {"none"}]
    \cup [kind : {"via"}, layer : (PaintLayers \ CopperTyped) \cup {""}, lies : Lies,
          tiny : {"no", "zoom", "radius"}, chosen : {"none"}]
    \cup [kind : {"drill"}, layer : DrillTyped \cup {""}, lies : Lies,
          tiny : {"no", "zoom", "radius"}, chosen : {"none"}]
    \cup [kind : {"marker"}, layer : {""}, lies : Lies,
          tiny : {"no"}, chosen : {"none", "this", "other"}]

PainterTypeOK ==
    /\ drawn \in Drawings
    /\ off \subseteq PaintLayers
    /\ {culling, geometry} \subseteq BOOLEAN
    /\ outline \in {"none", "unusable", "usable"}

PainterInit ==
    /\ drawn \in Drawings
    /\ off = {} /\ culling = TRUE
    /\ outline \in {"none", "unusable", "usable"}
    /\ geometry \in BOOLEAN /\ (drawn.kind # "marker" => geometry)

-----------------------------------------------------------------------------
(* Layers by name.                                                           *)

isSilkLayer(l) == l \in SilkNames
isMaskLayer(l) == l \in MaskNames
isCopperLayer(l) == l \notin SilkNames \cup MaskNames \cup OutlineNames \cup DrillNames

(* boardPainter's does not except drill layers. *)
isCopperLayerOfList(l) == l \notin SilkNames \cup MaskNames \cup OutlineNames

(* computeBounds: with an outline nothing else counts. *)
BoundsEmpty == outline = "unusable" \/ (outline = "none" /\ ~ geometry)
BoardPainted == ~ BoundsEmpty

-----------------------------------------------------------------------------
(* The canvas.                                                               *)

InViewport(f) == ~ culling \/ f.lies # "scrolled"
InBoard(f) == f.lies # "beside"
Sound(f) == f.lies # "nowhere"

CopperFill(f, hide) == f.kind = "polygon" /\ f.layer \notin hide /\ isCopperLayer(f.layer)

CopperTraceOrPad(f, hide) ==
    /\ f.kind \in {"trace", "pad"}
    /\ f.layer \notin hide /\ isCopperLayer(f.layer)
    /\ InBoard(f) /\ InViewport(f) /\ Sound(f)

GateOpen(hide) == GateLayers \ hide # {}

SpanOn(f, hide) == GateOpen(hide)                                   \* mutant
drillLayerOn(f, hide) == f.layer = "" \/ f.layer \notin hide

(* Vias are drawn out of the board too, and are never too small for the zoom; with the
   culling off nothing is. *)
ViaOrDrill(f, hide) ==
    /\ f.kind \in {"via", "drill"}
    /\ GateOpen(hide) /\ drillLayerOn(f, hide)
    /\ InViewport(f) /\ Sound(f) /\ f.tiny # "radius"
    /\ f.kind = "drill" => InBoard(f) /\ ~ (culling /\ f.tiny = "zoom")

Routing(f, hide) ==
    f.kind = "trace" /\ f.layer = RoutName /\ f.layer \notin hide /\ Sound(f)

MaskTint(hide) == MaskNames \ hide # {}

MaskOpening(f, hide) ==
    /\ MaskTint(hide)
    /\ f.kind = "pad" /\ isMaskLayer(f.layer) /\ f.layer \notin hide /\ Sound(f)

Silkscreen(f, hide) ==
    f.kind = "trace" /\ isSilkLayer(f.layer) /\ f.layer \notin hide /\ Sound(f)

(* drawViolations: with a selected marker the others are left out; on an empty board
   the markers are scattered, whatever their coordinates. *)
Marker(f) ==
    /\ f.kind = "marker"
    /\ f.chosen # "other"
    /\ BoardPainted => Sound(f)

(* draw: the steps on a board that is not empty, and the markers. *)
PaintedByCanvas(f, hide) ==
    \/ Marker(f)
    \/ /\ BoardPainted
       /\ \/ CopperFill(f, hide) \/ CopperTraceOrPad(f, hide) \/ ViaOrDrill(f, hide)
          \/ Routing(f, hide) \/ MaskOpening(f, hide) \/ Silkscreen(f, hide)

-----------------------------------------------------------------------------
(* buildPaintList: no culling, no board margin, no routing and no copper fill. *)

ListsCopper(f, hide) ==
    /\ f.kind \in {"trace", "pad"}
    /\ f.layer \notin hide /\ isCopperLayerOfList(f.layer) /\ Sound(f)

SpanListed(f, hide) ==                                              \* mutant
    f.kind \in {"via", "drill"} /\ Sound(f) /\ GateOpen(hide)
ListsViaOrDrill(f, hide) ==
    /\ f.kind \in {"via", "drill"} /\ Sound(f)
    /\ IF f.layer = "" THEN GateOpen(hide) ELSE f.layer \notin hide

ListsMaskOpening(f, hide) ==
    MaskTint(hide) /\ f.kind = "pad" /\ isMaskLayer(f.layer) /\ f.layer \notin hide /\ Sound(f)

ListsSilkscreen(f, hide) ==
    f.kind = "trace" /\ isSilkLayer(f.layer) /\ f.layer \notin hide /\ Sound(f)

(* The list keeps every marker when one is selected. *)
ListsMarker(f) == f.kind = "marker" /\ Sound(f)

PaintedByList(f, hide) ==
    \/ ListsMarker(f)
    \/ ListsCopper(f, hide) \/ ListsViaOrDrill(f, hide)
    \/ ListsMaskOpening(f, hide) \/ ListsSilkscreen(f, hide)

-----------------------------------------------------------------------------
Toggle(l) ==
    /\ off' = IF l \in off THEN off \ {l} ELSE off \cup {l}
    /\ UNCHANGED <<drawn, culling, outline, geometry>>

(* Rotating turns the culling off, as its inverse transform would be wrong. *)
RotateOrReset ==
    /\ culling' \in BOOLEAN
    /\ UNCHANGED <<drawn, off, outline, geometry>>

PainterNext ==
    \/ \E l \in PaintLayers : Toggle(l)
    \/ RotateOrReset

PainterSpec == PainterInit /\ [][PainterNext]_paintVars

-----------------------------------------------------------------------------
(* The canvas leaves a via of, say, a mask layer out as soon as no copper and no drill
   layer is on (BoardViewer.tsx:298-301), though its own layer is. *)
LeftByGate(f, hide) ==
    f.kind = "via" /\ f.layer \notin GateLayers \cup {""} /\ ~ GateOpen(hide)

(* "predictable on/off control" (BoardViewer.tsx:285-306): of every feature that has
   a layer, the toggle of that layer decides whether it is painted, whichever other
   layers are on, but for the vias that the gate leaves out. *)
ToggleRules ==
    drawn.layer # "" =>
        (PaintedByCanvas(drawn, off)
           <=> /\ drawn.layer \notin off /\ PaintedByCanvas(drawn, {})
               /\ ~ LeftByGate(drawn, off))

(* Where the two may be compared: on a board that is not empty, for what lies in it and
   in the viewport and is not too small, with no other marker selected. *)
Comparable(f) ==
    BoardPainted /\ InBoard(f) /\ InViewport(f) /\ f.tiny = "no" /\ f.chosen # "other"

(* What only the list paints: the copper of layers named like drills, and the vias the
   gate of the canvas leaves out. *)
OnlyListed(f, hide) ==
    /\ f.layer \notin hide /\ Sound(f)
    /\ \/ f.kind \in {"trace", "pad"} /\ f.layer \in DrillNames /\ isCopperLayerOfList(f.layer)
       \/ LeftByGate(f, hide)

(* What only the canvas paints: the fills of copper and the routing. *)
OnlyOnCanvas(f, hide) ==
    /\ f.layer \notin hide
    /\ \/ f.kind = "polygon" /\ isCopperLayer(f.layer)
       \/ f.kind = "trace" /\ f.layer = RoutName /\ Sound(f)

(* How far the list "mirrors BoardViewer.tsx" (boardPainter.ts:12): where they may be
   compared, the two differ in these four things and in nothing else. *)
PaintersAgree ==
    Comparable(drawn) =>
        /\ PaintedByList(drawn, off) /\ ~ PaintedByCanvas(drawn, off) <=> OnlyListed(drawn, off)
        /\ PaintedByCanvas(drawn, off) /\ ~ PaintedByList(drawn, off) <=> OnlyOnCanvas(drawn, off)
=============================================================================
