----------------------------- MODULE ViewerProofs -----------------------------
(***************************************************************************)
(* Proofs about the board viewer, for every board and every violation list: *)
(* what the toggle of a layer decides and where the canvas and the list of  *)
(* paint instructions differ (Painter), that the focus shows the            *)
(* violation it is about and gives the toggles of the user back (Focus),    *)
(* that the two viewers of a comparison agree at rest (Compare), and that   *)
(* the board never jumps under a finger (Gestures).                         *)
(***************************************************************************)
EXTENDS Painter, Focus, Compare, Gestures, FiniteSetTheorems, TLAPS

(***************************************************************************)
(* Painter                                                                 *)
(***************************************************************************)
LEMMA PainterInitTyped == PainterInit => PainterTypeOK
BY DEF PainterInit, PainterTypeOK

LEMMA PainterStepTyped == PainterTypeOK /\ [PainterNext]_paintVars => PainterTypeOK'
<1>1. ASSUME PainterTypeOK, NEW l \in PaintLayers, Toggle(l) PROVE PainterTypeOK'
  BY <1>1 DEF PainterTypeOK, Toggle
<1>2. ASSUME PainterTypeOK, RotateOrReset PROVE PainterTypeOK'
  BY <1>2 DEF PainterTypeOK, RotateOrReset
<1>3. ASSUME PainterTypeOK, UNCHANGED paintVars PROVE PainterTypeOK'
  BY <1>3 DEF PainterTypeOK, paintVars
<1> QED BY <1>1, <1>2, <1>3 DEF PainterNext

(* The state has its type: the feature and the outline are those of the board, and
   only layers of the board are toggled (BoardViewer.tsx:763-813, 1264-1274). *)
LEMMA PainterTyped == PainterSpec => []PainterTypeOK
BY PainterInitTyped, PainterStepTyped, PTL DEF PainterSpec

-----------------------------------------------------------------------------
(* A feature that the gate does not leave out has the gate open while its layer is on,
   and had it open with every layer on. *)
LEMMA OwnLayerOpens ==
  ASSUME NEW f \in Drawings, NEW hide \in SUBSET PaintLayers,
         f.kind \in {"via", "drill"}, f.layer # "", f.layer \notin hide
  PROVE  GateOpen(hide) <=> ~ LeftByGate(f, hide)
<1>1. CASE f.layer \in GateLayers
  BY <1>1 DEF GateOpen, LeftByGate
<1>2. CASE f.layer \notin GateLayers
  <2>1. f.kind = "via"
    <3>1. f.kind = "drill" => f.layer \in DrillTyped
      BY DEF Drawings
    <3> QED BY <1>2, <3>1, PainterAssumption DEF PainterAssumption
  <2> QED BY <1>2, <2>1 DEF LeftByGate
<1> QED BY <1>1, <1>2

(* What is on may only be less than everything. *)
LEMMA GateOfAll ==
  ASSUME NEW hide
  PROVE  GateOpen(hide) => GateOpen({})
BY DEF GateOpen

(* A soldermask layer keeps the tint while it is on. *)
LEMMA OwnLayerTints ==
  ASSUME NEW l, l \in MaskNames, NEW hide, l \notin hide
  PROVE  MaskTint(hide) /\ MaskTint({})
BY DEF MaskTint

(* Of one feature with a layer, whatever is hidden. *)
LEMMA ToggleDecides ==
  ASSUME NEW f \in Drawings, NEW hide \in SUBSET PaintLayers, f.layer # ""
  PROVE  PaintedByCanvas(f, hide)
           <=> f.layer \notin hide /\ PaintedByCanvas(f, {}) /\ ~ LeftByGate(f, hide)
<1>1. f.kind # "marker"
  BY DEF Drawings
<1>2. CopperFill(f, hide) <=> f.layer \notin hide /\ CopperFill(f, {})
  BY DEF CopperFill
<1>3. CopperTraceOrPad(f, hide) <=> f.layer \notin hide /\ CopperTraceOrPad(f, {})
  BY DEF CopperTraceOrPad
<1>4. ViaOrDrill(f, hide) <=> f.layer \notin hide /\ ViaOrDrill(f, {}) /\ ~ LeftByGate(f, hide)
  <2>1. CASE f.kind \in {"via", "drill"} /\ f.layer \notin hide
    <3>1. GateOpen(hide) <=> ~ LeftByGate(f, hide)
      BY <2>1, OwnLayerOpens
    <3> QED BY <2>1, <3>1, GateOfAll DEF ViaOrDrill, drillLayerOn
  <2>2. CASE ~ (f.kind \in {"via", "drill"} /\ f.layer \notin hide)
    BY <2>2 DEF ViaOrDrill, drillLayerOn
  <2> QED BY <2>1, <2>2
<1>5. Routing(f, hide) <=> f.layer \notin hide /\ Routing(f, {})
  BY DEF Routing
<1>6. MaskOpening(f, hide) <=> f.layer \notin hide /\ MaskOpening(f, {})
  BY OwnLayerTints DEF MaskOpening, isMaskLayer
<1>7. Silkscreen(f, hide) <=> f.layer \notin hide /\ Silkscreen(f, {})
  BY DEF Silkscreen
<1>8. LeftByGate(f, hide) => f.kind = "via"
  BY DEF LeftByGate
<1>9. f.kind = "via" => /\ ~ CopperFill(f, {}) /\ ~ CopperTraceOrPad(f, {}) /\ ~ Routing(f, {})
                       /\ ~ MaskOpening(f, {}) /\ ~ Silkscreen(f, {})
  BY DEF CopperFill, CopperTraceOrPad, Routing, MaskOpening, Silkscreen
<1> QED BY <1>1, <1>2, <1>3, <1>4, <1>5, <1>6, <1>7, <1>8, <1>9 DEF PaintedByCanvas, Marker

(* On every board, the toggle of its own layer decides whether a feature is painted,
   but for the vias of other layers that the gate leaves out (BoardViewer.tsx:285-306). *)
THEOREM TogglesRule == PainterSpec => []ToggleRules
<1>1. PainterTypeOK => ToggleRules
  BY ToggleDecides DEF PainterTypeOK, ToggleRules
<1> QED BY <1>1, PainterTyped, PTL

-----------------------------------------------------------------------------
(* Of one feature or marker that may be compared, whatever is hidden: step by step,
   which of the two paints it. *)
LEMMA Differences ==
  ASSUME NEW f \in Drawings, NEW hide \in SUBSET PaintLayers, Comparable(f)
  PROVE  /\ PaintedByList(f, hide) /\ ~ PaintedByCanvas(f, hide) <=> OnlyListed(f, hide)
         /\ PaintedByCanvas(f, hide) /\ ~ PaintedByList(f, hide) <=> OnlyOnCanvas(f, hide)
<1>a. BoardPainted /\ InBoard(f) /\ InViewport(f) /\ f.tiny = "no" /\ f.chosen # "other"
  BY DEF Comparable
<1>b. RoutName \in OutlineNames /\ RoutName \notin SilkNames \cup MaskNames
  BY PainterAssumption DEF PainterAssumption
<1>1. CASE f.kind = "marker"
  <2>1. PaintedByCanvas(f, hide) <=> PaintedByList(f, hide)
    BY <1>a, <1>1 DEF PaintedByCanvas, PaintedByList, Marker, ListsMarker, CopperFill,
       CopperTraceOrPad, ViaOrDrill, Routing, MaskOpening, Silkscreen, ListsCopper,
       ListsViaOrDrill, ListsMaskOpening, ListsSilkscreen
  <2>2. ~ OnlyListed(f, hide) /\ ~ OnlyOnCanvas(f, hide)
    BY <1>1 DEF OnlyListed, OnlyOnCanvas, LeftByGate
  <2> QED BY <2>1, <2>2
<1>2. CASE f.kind = "polygon"
  <2>1. PaintedByCanvas(f, hide) <=> f.layer \notin hide /\ isCopperLayer(f.layer)
    BY <1>a, <1>2 DEF PaintedByCanvas, Marker, CopperFill, CopperTraceOrPad, ViaOrDrill,
       Routing, MaskOpening, Silkscreen
  <2>2. ~ PaintedByList(f, hide)
    BY <1>2 DEF PaintedByList, ListsMarker, ListsCopper, ListsViaOrDrill, ListsMaskOpening,
       ListsSilkscreen
  <2> QED BY <1>2, <2>1, <2>2 DEF OnlyListed, OnlyOnCanvas, LeftByGate
<1>3. CASE f.kind \in {"trace", "pad"}
  <2>1. PaintedByCanvas(f, hide)
          <=> /\ f.layer \notin hide /\ Sound(f)
              /\ \/ isCopperLayer(f.layer)
                 \/ f.kind = "trace" /\ f.layer = RoutName
                 \/ f.kind = "pad" /\ isMaskLayer(f.layer)
                 \/ f.kind = "trace" /\ isSilkLayer(f.layer)
    BY <1>a, <1>3, OwnLayerTints DEF PaintedByCanvas, Marker, CopperFill, CopperTraceOrPad,
       ViaOrDrill, Routing, MaskOpening, Silkscreen, isMaskLayer
  <2>2. PaintedByList(f, hide)
          <=> /\ f.layer \notin hide /\ Sound(f)
              /\ \/ isCopperLayerOfList(f.layer)
                 \/ f.kind = "pad" /\ isMaskLayer(f.layer)
                 \/ f.kind = "trace" /\ isSilkLayer(f.layer)
    BY <1>3, OwnLayerTints DEF PaintedByList, ListsMarker, ListsCopper, ListsViaOrDrill,
       ListsMaskOpening, ListsSilkscreen, isMaskLayer
  <2>3. isCopperLayer(f.layer) <=> isCopperLayerOfList(f.layer) /\ f.layer \notin DrillNames
    BY DEF isCopperLayer, isCopperLayerOfList
  <2>4. isCopperLayerOfList(f.layer) => ~ isMaskLayer(f.layer) /\ ~ isSilkLayer(f.layer)
    BY DEF isCopperLayerOfList, isMaskLayer, isSilkLayer
  <2>5. f.layer = RoutName => /\ ~ isCopperLayer(f.layer) /\ ~ isCopperLayerOfList(f.layer)
                             /\ ~ isMaskLayer(f.layer) /\ ~ isSilkLayer(f.layer)
    BY <1>b DEF isCopperLayer, isCopperLayerOfList, isMaskLayer, isSilkLayer
  <2>6. ~ LeftByGate(f, hide) /\ f.kind # "polygon"
    BY <1>3 DEF LeftByGate
  <2>7. OnlyListed(f, hide) <=> /\ f.layer \notin hide /\ Sound(f)
                               /\ f.layer \in DrillNames /\ isCopperLayerOfList(f.layer)
    BY <1>3, <2>6 DEF OnlyListed
  <2>8. OnlyOnCanvas(f, hide) <=> /\ f.layer \notin hide /\ Sound(f)
                                 /\ f.kind = "trace" /\ f.layer = RoutName
    BY <2>6 DEF OnlyOnCanvas
  <2> QED BY <1>3, <2>1, <2>2, <2>3, <2>4, <2>5, <2>7, <2>8
<1>4. CASE f.kind \in {"via", "drill"}
  <2>1. PaintedByCanvas(f, hide) <=> GateOpen(hide) /\ drillLayerOn(f, hide) /\ Sound(f)
    BY <1>a, <1>4 DEF PaintedByCanvas, Marker, CopperFill, CopperTraceOrPad, ViaOrDrill,
       Routing, MaskOpening, Silkscreen
  <2>2. PaintedByList(f, hide)
          <=> Sound(f) /\ IF f.layer = "" THEN GateOpen(hide) ELSE f.layer \notin hide
    BY <1>4 DEF PaintedByList, ListsMarker, ListsCopper, ListsViaOrDrill, ListsMaskOpening,
       ListsSilkscreen
  <2>3. OnlyListed(f, hide) <=> f.layer \notin hide /\ Sound(f) /\ LeftByGate(f, hide)
    BY <1>4 DEF OnlyListed
  <2>4. ~ OnlyOnCanvas(f, hide)
    BY <1>4 DEF OnlyOnCanvas
  <2>5. LeftByGate(f, hide) => f.layer # ""
    BY DEF LeftByGate
  <2>6. f.layer # "" /\ f.layer \notin hide => (GateOpen(hide) <=> ~ LeftByGate(f, hide))
    BY <1>4, OwnLayerOpens
  <2> QED BY <2>1, <2>2, <2>3, <2>4, <2>5, <2>6 DEF drillLayerOn
<1> QED BY <1>1, <1>2, <1>3, <1>4 DEF Drawings

(* On every board, the list and the canvas differ where OnlyListed and OnlyOnCanvas say,
   and nowhere else (lib/boardPainter.ts:12-30, 43-294). *)
THEOREM Agreement == PainterSpec => []PaintersAgree
<1>1. PainterTypeOK => PaintersAgree
  BY Differences DEF PainterTypeOK, PaintersAgree
<1> QED BY <1>1, PainterTyped, PTL

(***************************************************************************)
(* Focus                                                                   *)
(***************************************************************************)
LEMMA FocusInitInv == FocusInit => FocusInv
BY FocusAssumption DEF FocusInit, FocusInv, FocusTypeOK, Severities

(* What is hidden is always of the board. *)
LEMMA EffectTypes ==
  ASSUME FocusTypeOK, NEW m \in Marks \cup {NoMark}, FocusEffect(m)
  PROVE  /\ hidden' \subseteq BoardLayers /\ snapshot' \subseteq BoardLayers
         /\ focusing' \in BOOLEAN
BY DEF FocusEffect, NarrowTo, FocusTypeOK

(* The snapshot is taken when the focus starts, kept while it moves from one violation
   to another, and given back when nothing is picked any more. *)
LEMMA PickKeeps ==
  ASSUME FocusInv, NEW m \in Marks \cup {NoMark}, Pick(m)
  PROVE  FocusInv'
<1>1. CASE m = picked
  BY <1>1 DEF Pick, FocusInv, FocusTypeOK, filterVars
<1>2. CASE m # picked
  <2>1. FocusTypeOK /\ FocusEffect(m)
    BY <1>2 DEF Pick, FocusInv
  <2>2. FocusTypeOK'
    BY <2>1, EffectTypes DEF Pick, FocusTypeOK, filterVars
  <2>3. picked' = NoMark => ~ focusing'
    BY <2>1 DEF Pick, FocusEffect, FocusInv
  <2>4. ~ leftFocused' => wished' = IF focusing' THEN snapshot' ELSE hidden'
    BY <2>1 DEF Pick, FocusEffect, NarrowTo, FocusInv, FocusTypeOK
  <2> QED BY <2>2, <2>3, <2>4 DEF FocusInv
<1> QED BY <1>1, <1>2

(* Toggles during the focus are of the focus. *)
LEMMA SetHiddenKeeps ==
  ASSUME FocusInv, NEW hide \in SUBSET BoardLayers, SetHidden(hide)
  PROVE  FocusInv'
BY DEF SetHidden, FocusInv, FocusTypeOK, filterVars

LEMMA TogglesKeep ==
  ASSUME FocusInv, LayerButtons \/ \E l \in BoardLayers : ToggleLayer(l)
  PROVE  FocusInv'
<1>1. ASSUME NEW l \in BoardLayers, ToggleLayer(l) PROVE FocusInv'
  <2>1. (IF l \in hidden THEN hidden \ {l} ELSE hidden \cup {l}) \in SUBSET BoardLayers
    BY DEF FocusInv, FocusTypeOK
  <2> QED BY <1>1, <2>1, SetHiddenKeeps DEF ToggleLayer
<1>2. CASE LayerButtons
  BY <1>2, FocusAssumption, SetHiddenKeeps DEF LayerButtons
<1> QED BY <1>1, <1>2

(* The filters have no part in it. *)
LEMMA FiltersKeep ==
  ASSUME FocusInv,
         \/ \E s \in Severities \cup {"NONE"} : SetSeverity(s)
         \/ \E r \in Rules : ToggleRule(r)
         \/ \E m \in Marks : WaiveRow(m)
         \/ \E l \in BoardLayers : WaiveLayer(l)
         \/ ClearRules \/ ReopenList \/ ToggleShowWaived
  PROVE  FocusInv'
<1>1. UNCHANGED <<onShare, picked, layerVars, leftFocused>>
  BY DEF SetSeverity, ToggleRule, WaiveRow, WaiveLayer, ClearRules, ReopenList,
     ToggleShowWaived, layerVars
<1>2. severity' \in Severities \cup {"NONE"} /\ rules' \subseteq Rules
  BY DEF SetSeverity, ToggleRule, WaiveRow, WaiveLayer, ClearRules, ReopenList,
     ToggleShowWaived, FocusInv, FocusTypeOK
<1>3. waived' \subseteq Marks /\ showWaived' \in BOOLEAN
  <2>1. ASSUME NEW l \in BoardLayers, WaiveLayer(l) PROVE waived' \subseteq Marks
    BY <2>1 DEF WaiveLayer, FocusInv, FocusTypeOK
  <2>2. ASSUME NEW m \in Marks, WaiveRow(m) PROVE waived' \subseteq Marks
    BY <2>2 DEF WaiveRow, FocusInv, FocusTypeOK
  <2> QED BY <2>1, <2>2 DEF SetSeverity, ToggleRule, WaiveRow, WaiveLayer, ClearRules,
       ReopenList, ToggleShowWaived, FocusInv, FocusTypeOK
<1> QED BY <1>1, <1>2, <1>3 DEF FocusInv, FocusTypeOK, layerVars

LEMMA FocusStepInv == FocusInv /\ [FocusNext]_focusVars => FocusInv'
<1>1. ASSUME FocusInv, NEW m \in Marks, ClickRow(m) PROVE FocusInv'
  BY <1>1, PickKeeps DEF ClickRow
<1>2. ASSUME FocusInv, NEW m \in Marks \cup {NoMark}, ClickCanvas(m) PROVE FocusInv'
  BY <1>2, PickKeeps DEF ClickCanvas
<1>3. ASSUME FocusInv, LeaveViewer PROVE FocusInv'
  BY <1>3 DEF LeaveViewer, FocusInv, FocusTypeOK
<1>4. ASSUME FocusInv, UNCHANGED focusVars PROVE FocusInv'
  BY <1>4 DEF focusVars, FocusInv, FocusTypeOK
<1> QED BY <1>1, <1>2, <1>3, <1>4, TogglesKeep, FiltersKeep DEF FocusNext

(* When nothing is picked the layers are those the user has chosen, whatever was
   picked and toggled before (BoardViewer.tsx:876-942). *)
THEOREM TogglesRestored == FocusSpec => []FocusRestores
<1>1. FocusInv => FocusRestores
  BY DEF FocusInv, FocusRestores
<1> QED BY <1>1, FocusInitInv, FocusStepInv, PTL DEF FocusSpec

(* The board has finitely many layers. *)
LEMMA LayersFinite == IsFiniteSet(BoardLayers)
<1> DEFINE n == Len(LayerSeq)
           f == [i \in 1 .. n |-> LayerSeq[i]]
<1>1. n \in Nat
  BY FocusAssumption
<1>2. IsFiniteSet(1 .. n)
  BY <1>1, FS_Interval
<1>3. f \in Surjection(1 .. n, BoardLayers)
  BY DEF Surjection, BoardLayers
<1> HIDE DEF f
<1> QED BY <1>2, <1>3, FS_Surjection

(* A violation that the list or the viewer shows stays on a visible layer when its
   focus hides the others: its own layer is spared or, for one on a layer of older
   analyses, at least one of those that stand for it. *)
LEMMA FocusSpares ==
  ASSUME FocusTypeOK, NEW m \in VisibleMarks, FocusEffect(m), FocusFinds(m)
  PROVE  OnVisibleLayer(m, hidden')
<1>1. m # NoMark /\ m \in Marks /\ OnVisibleLayer(m, hidden)
  BY FocusAssumption DEF VisibleMarks, LayerFiltered
<1>2. \/ hidden' = hidden
      \/ MarkLayer[m] # "" /\ hidden' = BoardLayers \ ShownWith(m)
  BY <1>1 DEF FocusEffect, NarrowTo
<1>3. ASSUME MarkLayer[m] # "", hidden' = BoardLayers \ ShownWith(m)
      PROVE  OnVisibleLayer(m, hidden')
  <2>1. MarkLayer[m] \notin hidden'
    BY <1>3 DEF ShownWith
  <2>2. ASSUME MarkLayer[m] \notin BoardLayers
        PROVE  Cardinality(hidden') < Cardinality(BoardLayers)
    <3>1. MarkLayer[m] \in LegacyLayers
      BY <1>3, <2>2 DEF FocusFinds
    <3>2. PICK l : l \in OuterCopper \cup DrillLayers
      BY <1>3, <2>2 DEF FocusFinds
    <3>3. OuterCopper \cup DrillLayers \subseteq BoardLayers
      BY FocusAssumption DEF OuterCopper, BoardLayers
    <3>4. l \in BoardLayers /\ l \notin hidden'
      BY <1>3, <3>1, <3>2, <3>3 DEF ShownWith
    <3>5. hidden' \in SUBSET BoardLayers
      BY <1>3
    <3>6. Cardinality(hidden') <= Cardinality(BoardLayers)
            /\ Cardinality(hidden') # Cardinality(BoardLayers) /\ IsFiniteSet(hidden')
      BY <3>4, <3>5, LayersFinite, FS_Subset
    <3>7. Cardinality(hidden') \in Nat /\ Cardinality(BoardLayers) \in Nat
      BY <3>6, LayersFinite, FS_CardinalityType
    <3> QED BY <3>6, <3>7
  <2> QED BY <2>1, <2>2 DEF OnVisibleLayer
<1> QED BY <1>1, <1>2, <1>3

(* On every board and for every list of violations: the focus on a violation that was
   picked shows the violation (BoardViewer.tsx:906-936). *)
THEOREM FocusShows == FocusSpec => PickedStays
<1>1. ASSUME FocusInv, FocusNext, picked' \notin {picked, NoMark}, FocusFinds(picked')
      PROVE  OnVisibleLayer(picked', hidden')
  <2>1. ASSUME NEW m \in VisibleMarks, Pick(m) PROVE OnVisibleLayer(picked', hidden')
    <3>1. picked' = m /\ FocusEffect(m)
      BY <1>1, <2>1 DEF Pick
    <3> QED BY <1>1, <2>1, <3>1, FocusSpares DEF FocusInv
  <2>2. ASSUME NEW m \in Marks, ClickRow(m) PROVE OnVisibleLayer(picked', hidden')
    <3>1. picked' = m /\ Pick(m) /\ m \in VisibleMarks
      BY <1>1, <2>2 DEF ClickRow, Pick, ListedMarks, OfRules
    <3> QED BY <2>1, <3>1
  <2>3. ASSUME NEW m \in Marks \cup {NoMark}, ClickCanvas(m)
        PROVE  OnVisibleLayer(picked', hidden')
    <3>1. picked' = m /\ Pick(m) /\ m \in VisibleMarks
      BY <1>1, <2>3 DEF ClickCanvas, Pick, ViewerMarks, OfRules
    <3> QED BY <2>1, <3>1
  <2> QED BY <1>1, <2>2, <2>3 DEF FocusNext, LayerButtons, ToggleLayer, SetHidden,
       SetSeverity, ToggleRule, WaiveRow, WaiveLayer, ClearRules, ReopenList,
       ToggleShowWaived, LeaveViewer
<1>2. ASSUME FocusInv, [FocusNext]_focusVars
      PROVE  [picked' \notin {picked, NoMark} /\ FocusFinds(picked')
                => OnVisibleLayer(picked', hidden')]_focusVars
  BY <1>1, <1>2
<1> QED BY <1>2, FocusInitInv, FocusStepInv, PTL DEF FocusSpec, PickedStays

(***************************************************************************)
(* Compare: CompareInv is inductive, hence the viewers agree when they are  *)
(* at rest.                                                                *)
(***************************************************************************)
LEMMA CompareInitInv == CompareInit => CompareInv
<1> SUFFICES ASSUME CompareInit PROVE CompareInv
  OBVIOUS
<1>1. 1 \in AllViews
  BY CompareAssumption DEF AllViews
<1>2. CompareTypeOK
  BY <1>1 DEF CompareInit, CompareTypeOK, Sides
<1>3. LaidOutLate /\ UnmovedAlike /\ RestOnRendered /\ EffectHasView
  BY DEF CompareInit, LaidOutLate, UnmovedAlike, RestOnRendered, EffectHasView, Sides
<1> QED BY <1>2, <1>3 DEF CompareInv

(* Before both boards are in, no viewer is there to be moved. *)
LEMMA LoadingKeeps ==
  ASSUME CompareInv, Compared \/ \E v \in Sides : BoardAnswered(v)
  PROVE  CompareInv'
<1> USE DEF CompareInv, CompareTypeOK, LaidOutLate, UnmovedAlike, RestOnRendered,
        EffectHasView, BothViewers, HasViewer, viewing
<1>1. CASE Compared
  BY <1>1 DEF Compared
<1>2. ASSUME NEW v \in Sides, BoardAnswered(v) PROVE CompareInv'
  <2>1. comparison # "shown" /\ ~ sizedUp
    BY <1>2 DEF BoardAnswered
  <2> QED BY <1>2, <2>1 DEF BoardAnswered
<1> QED BY <1>1, <1>2

(* The fit is the same for both, and nobody is told. *)
LEMMA LayOutKeeps == ASSUME CompareInv, LayOut PROVE CompareInv'
BY CompareAssumption DEF CompareInv, CompareTypeOK, LaidOutLate, UnmovedAlike,
   RestOnRendered, EffectHasView, BothViewers, HasViewer, LayOut, AllViews, Fit, NoView,
   Sides

(* Who moves either moved last, and the other one is where it was; or all is at rest,
   and the one that moved last shows what was rendered. *)
LEMMA MovingKeeps ==
  ASSUME CompareInv, NEW v \in Sides, Move(v) \/ ResetSide(v)
  PROVE  CompareInv'
<1>1. PICK w \in AllViews :
         /\ view' = [view EXCEPT ![v] = w] /\ syncView' = w /\ mover' = v
         /\ turned' \in [Sides -> {0, 90, 180, 270}]
         /\ UNCHANGED <<comparison, boardOf, sizedUp, rendered, effectDue>>
  <2>1. CASE Move(v)
    <3>1. PICK w \in AllViews \ {view[v]} : view' = [view EXCEPT ![v] = w]
      BY <2>1 DEF Move
    <3>2. view'[v] = w
      BY <3>1 DEF CompareInv, CompareTypeOK
    <3>3. turned' \in [Sides -> {0, 90, 180, 270}]
      BY <2>1 DEF Move, CompareInv, CompareTypeOK
    <3> QED BY <2>1, <3>1, <3>2, <3>3 DEF Move
  <2>2. CASE ResetSide(v)
    <3>1. Fit \in AllViews
      BY CompareAssumption DEF AllViews, Fit
    <3>2. turned' \in [Sides -> {0, 90, 180, 270}]
      BY <2>2 DEF ResetSide, CompareInv, CompareTypeOK
    <3> QED BY <2>2, <3>1, <3>2 DEF ResetSide
  <2> QED BY <2>1, <2>2
<1>2. MayMove(v)
  BY DEF Move, ResetSide
<1>3. CompareTypeOK' /\ LaidOutLate' /\ UnmovedAlike' /\ EffectHasView'
  BY <1>1, <1>2 DEF CompareInv, CompareTypeOK, LaidOutLate, UnmovedAlike, EffectHasView,
     MayMove, AllViews, NoView
<1>4. RestOnRendered'
  <2> SUFFICES ASSUME BothViewers, ~ effectDue, rendered # NoView
               PROVE  /\ \A u \in Sides \ {v} : view'[u] = rendered
                      /\ view'[v] = w
    BY <1>1 DEF RestOnRendered, BothViewers, HasViewer
  <2>1. view'[v] = w
    BY <1>1 DEF CompareInv, CompareTypeOK
  <2>2. ASSUME NEW u \in Sides \ {v} PROVE view[u] = rendered
    <3>1. CASE v = mover
      BY <3>1, <2>2 DEF CompareInv, RestOnRendered
    <3>2. CASE Settled
      BY <3>2, <2>2 DEF CompareInv, RestOnRendered, Settled
    <3> QED BY <1>2, <3>1, <3>2 DEF MayMove
  <2> QED BY <1>1, <2>1, <2>2 DEF CompareInv, CompareTypeOK
<1> QED BY <1>3, <1>4 DEF CompareInv

LEMMA RotateKeeps == ASSUME CompareInv, NEW v \in Sides, Rotate(v) PROVE CompareInv'
<1>1. turned' \in [Sides -> {0, 90, 180, 270}]
  BY DEF Rotate, CompareInv, CompareTypeOK
<1> QED BY <1>1 DEF Rotate, CompareInv, CompareTypeOK, LaidOutLate, UnmovedAlike,
     RestOnRendered, EffectHasView, BothViewers, HasViewer

(* A render leaves an effect due, which brings both viewers to its view. *)
LEMMA RenderKeeps == ASSUME CompareInv, Render PROVE CompareInv'
BY DEF Render, CompareInv, CompareTypeOK, LaidOutLate, UnmovedAlike, RestOnRendered,
   EffectHasView, BothViewers, HasViewer, AllViews, NoView

LEMMA EffectsKeep == ASSUME CompareInv, RunEffects PROVE CompareInv'
<1>1. rendered \in AllViews /\ syncView # NoView
  BY DEF RunEffects, CompareInv, CompareTypeOK, EffectHasView, UnmovedAlike
<1>2. view' \in [Sides -> AllViews]
  BY <1>1 DEF RunEffects, CompareInv, CompareTypeOK
<1>3. RestOnRendered'
  BY DEF RunEffects, CompareInv, CompareTypeOK, RestOnRendered, BothViewers, HasViewer
<1> QED BY <1>1, <1>2, <1>3 DEF RunEffects, CompareInv, CompareTypeOK, LaidOutLate,
     UnmovedAlike, EffectHasView, BothViewers, HasViewer

LEMMA CompareStepInv == CompareInv /\ [CompareNext]_compareVars => CompareInv'
<1>1. ASSUME CompareInv, UNCHANGED compareVars PROVE CompareInv'
  BY <1>1 DEF compareVars, CompareInv, CompareTypeOK, LaidOutLate, UnmovedAlike,
     RestOnRendered, EffectHasView, BothViewers, HasViewer
<1> QED BY <1>1, LoadingKeeps, LayOutKeeps, MovingKeeps, RotateKeeps, RenderKeeps,
     EffectsKeep DEF CompareNext

(* At rest both viewers show the same part of their boards, for any number of views
   and any interleaving of moves, renders and effects (BoardViewer.tsx:714-732,
   compare/page.tsx:131-133). *)
THEOREM ViewersInSync == CompareSpec => []InSync
<1>1. CompareInv => InSync
  BY DEF CompareInv, InSync, Settled, RestOnRendered, UnmovedAlike, CompareTypeOK, Sides,
     BothViewers
<1> QED BY <1>1, CompareInitInv, CompareStepInv, PTL DEF CompareSpec

(***************************************************************************)
(* Gestures                                                                *)
(***************************************************************************)
(* The part of GestureInv about the fingers. *)
TouchesTyped ==
    /\ pan \in Int /\ touches \in Seq(Fingers)
    /\ onCanvas \subseteq Fingers /\ at \in [Fingers -> Places]
OnScreen == onCanvas \subseteq ToSet(touches)
Remembered == ~ pinch => \A f \in onCanvas : lastTouch = at[f]

Fingered == TouchesTyped /\ OnScreen /\ Remembered

LEMMA FingeredInit == GestureInit => Fingered
<1> SUFFICES ASSUME GestureInit PROVE Fingered
  OBVIOUS
<1>1. onCanvas = {} /\ touches = <<>> /\ pan = 0
  BY DEF GestureInit
<1>2. at \in [Fingers -> Places]
  BY GestureAssumption DEF GestureInit, Places
<1>3. <<>> \in Seq(Fingers)
  OBVIOUS
<1>4. touches \in Seq(Fingers) /\ pan \in Int
  BY <1>1, <1>3
<1> QED BY <1>1, <1>2, <1>4, Zenon DEF Fingered, TouchesTyped, OnScreen, Remembered

(* Every step keeps the pan a number. *)
LEMMA PanTyped == pan \in Int /\ [GestureNext]_gestureVars => pan' \in Int
<1> SUFFICES ASSUME pan \in Int, [GestureNext]_gestureVars, pan' # pan
             PROVE  pan' \in Pans \/ pan' \in Int
  BY DEF Pans
<1>1. CASE \E f \in Fingers, p \in Places : TouchStart(f, p) \/ TouchMove(f, p)
  BY <1>1 DEF TouchStart, TouchMove, viewVars
<1>2. CASE \E f \in Fingers : TouchElsewhere(f) \/ TouchEnd(f) \/ LiftElsewhere(f)
  BY <1>2 DEF TouchElsewhere, TouchEnd, LiftElsewhere, viewVars
<1>3. CASE \E p \in Places : MouseMove(p)
  BY <1>3 DEF MouseMove
<1>4. CASE MouseDown \/ MouseUp \/ ClickMarker \/ Recenter
  BY <1>4 DEF MouseDown, MouseUp, ClickMarker, Recenter, CenterOn, viewVars
<1>5. CASE (\E step \in {-1, 1} : ZoomBy(step)) \/ ResetView
  BY <1>5 DEF ZoomBy, ResetView
<1> QED BY <1>1, <1>2, <1>3, <1>4, <1>5 DEF GestureNext, gestureVars

LEMMA AppendedSet ==
  ASSUME NEW s \in Seq(Fingers), NEW f \in Fingers
  PROVE  /\ Append(s, f) \in Seq(Fingers) /\ Len(Append(s, f)) = Len(s) + 1
         /\ ToSet(s) \cup {f} \subseteq ToSet(Append(s, f))
<1>1. Append(s, f) \in Seq(Fingers) /\ Len(Append(s, f)) = Len(s) + 1 /\ Len(s) \in Nat
        /\ DOMAIN s = 1 .. Len(s) /\ DOMAIN Append(s, f) = 1 .. Len(s) + 1
  OBVIOUS
<1>2. \A i \in 1 .. Len(s) : Append(s, f)[i] = s[i]
  OBVIOUS
<1>3. Append(s, f)[Len(s) + 1] = f
  OBVIOUS
<1> QED BY <1>1, <1>2, <1>3 DEF ToSet

LEMMA Joined ==
  ASSUME NEW s \in Seq(Fingers), NEW t \in Seq(Fingers)
  PROVE  /\ s \o t \in Seq(Fingers) /\ Len(s \o t) = Len(s) + Len(t)
         /\ Len(s) \in Nat /\ Len(t) \in Nat
         /\ DOMAIN (s \o t) = 1 .. Len(s) + Len(t)
         /\ \A k \in 1 .. Len(s) : (s \o t)[k] = s[k]
         /\ \A k \in 1 .. Len(t) : (s \o t)[Len(s) + k] = t[k]
OBVIOUS

(* The fingers that stay are those before and after the one that is lifted. *)
LEMMA RestPlaces ==
  ASSUME touches \in Seq(Fingers), NEW f \in ToSet(touches)
  PROVE  /\ Rest(f) \in Seq(Fingers) /\ Len(Rest(f)) = Len(touches) - 1
         /\ DOMAIN Rest(f) = 1 .. Len(touches) - 1
         /\ \E i \in 1 .. Len(touches) :
              /\ touches[i] = f
              /\ \A k \in 1 .. i - 1 : Rest(f)[k] = touches[k]
              /\ \A k \in i .. Len(touches) - 1 : Rest(f)[k] = touches[k + 1]
<1> DEFINE i == CHOOSE i \in DOMAIN touches : touches[i] = f
           n == Len(touches)
           before == SubSeq(touches, 1, i - 1)
           after == SubSeq(touches, i + 1, n)
           r == before \o after
<1>1. i \in 1 .. n /\ touches[i] = f /\ n \in Nat
  BY DEF ToSet
<1>2. Rest(f) = r
  BY DEF Rest, RemoveAt
<1> HIDE DEF i
<1>3. /\ before \in Seq(Fingers) /\ Len(before) = i - 1
      /\ \A k \in 1 .. i - 1 : before[k] = touches[k]
  BY <1>1
<1>4. /\ after \in Seq(Fingers) /\ Len(after) = n - i
      /\ \A k \in 1 .. n - i : after[k] = touches[i + k]
  BY <1>1
<1> HIDE DEF before, after
<1>5. /\ r \in Seq(Fingers) /\ Len(r) = Len(before) + Len(after)
      /\ DOMAIN r = 1 .. Len(before) + Len(after)
      /\ \A k \in 1 .. Len(before) : r[k] = before[k]
      /\ \A k \in 1 .. Len(after) : r[Len(before) + k] = after[k]
  BY <1>3, <1>4, Joined
<1> HIDE DEF r
<1>6. Len(r) = n - 1 /\ DOMAIN r = 1 .. n - 1
  BY <1>1, <1>3, <1>4, <1>5
<1>7. \A k \in 1 .. i - 1 : r[k] = touches[k]
  BY <1>3, <1>5
<1>8. ASSUME NEW k \in i + 1 .. n PROVE r[k - 1] = touches[k]
  <2>1. k - i \in 1 .. n - i /\ (i - 1) + (k - i) = k - 1 /\ i + (k - i) = k
    BY <1>1
  <2>2. r[k - 1] = after[k - i]
    BY <1>3, <1>4, <1>5, <2>1
  <2>3. after[k - i] = touches[k]
    BY <1>4, <2>1
  <2> QED BY <2>2, <2>3
<1>9. ASSUME NEW k \in i .. n - 1 PROVE r[k] = touches[k + 1]
  <2>1. k + 1 \in i + 1 .. n /\ (k + 1) - 1 = k
    BY <1>1
  <2>2. r[(k + 1) - 1] = touches[k + 1]
    BY <1>8, <2>1
  <2> QED BY <2>1, <2>2
<1> QED BY <1>1, <1>2, <1>5, <1>6, <1>7, <1>9

(* The other fingers stay on the screen when one is lifted. *)
LEMMA RestSet ==
  ASSUME touches \in Seq(Fingers), NEW f \in ToSet(touches)
  PROVE  /\ Rest(f) \in Seq(Fingers) /\ Len(Rest(f)) = Len(touches) - 1
         /\ ToSet(touches) \ {f} \subseteq ToSet(Rest(f))
<1> DEFINE n == Len(touches)
           r == Rest(f)
<1>1. n \in Nat
  OBVIOUS
<1>2. r \in Seq(Fingers) /\ Len(r) = n - 1 /\ DOMAIN r = 1 .. n - 1
  BY RestPlaces
<1>3. PICK i \in 1 .. n :
        /\ touches[i] = f
        /\ \A k \in 1 .. i - 1 : r[k] = touches[k]
        /\ \A k \in i .. n - 1 : r[k] = touches[k + 1]
  BY RestPlaces
<1> HIDE DEF r
<1>4. ASSUME NEW x \in ToSet(touches), x # f PROVE x \in ToSet(r)
  <2>1. PICK k \in 1 .. n : touches[k] = x
    BY <1>1 DEF ToSet
  <2>2. k # i
    BY <1>3, <1>4, <2>1
  <2>3. CASE k < i
    <3>1. k \in 1 .. i - 1 /\ k \in 1 .. n - 1
      BY <1>1, <2>3
    <3> QED BY <1>2, <1>3, <2>1, <3>1 DEF ToSet
  <2>4. CASE k > i
    <3>1. k - 1 \in i .. n - 1 /\ k - 1 \in 1 .. n - 1 /\ (k - 1) + 1 = k
      BY <1>1, <2>4
    <3>2. r[k - 1] = x
      BY <1>3, <2>1, <3>1
    <3> QED BY <1>2, <3>1, <3>2 DEF ToSet
  <2> QED BY <1>1, <2>2, <2>3, <2>4
<1> QED BY <1>2, <1>4 DEF r

LEMMA OneFinger ==
  ASSUME Fingered, Len(touches) = 1, NEW f \in onCanvas
  PROVE  onCanvas = {f} /\ f = touches[1]
<1>1. ToSet(touches) = {touches[1]}
  BY DEF Fingered, TouchesTyped, OnScreen, Remembered, ToSet
<1> QED BY <1>1 DEF Fingered, TouchesTyped, OnScreen, Remembered

LEMMA TouchStartKeeps ==
  ASSUME Fingered, pan' \in Int, NEW f \in Fingers, NEW p \in Places, TouchStart(f, p)
  PROVE  Fingered'
<1>1. touches' = Append(touches, f) /\ onCanvas' = onCanvas \cup {f}
        /\ at' = [at EXCEPT ![f] = p] /\ Len(touches) \in Nat
  BY DEF TouchStart, Fingered, TouchesTyped, OnScreen, Remembered
<1>2. touches' \in Seq(Fingers) /\ Len(touches') = Len(touches) + 1
        /\ onCanvas' \subseteq ToSet(touches')
  BY <1>1, AppendedSet DEF Fingered, TouchesTyped, OnScreen, Remembered
<1>3. ~ pinch' => onCanvas' = {f} /\ lastTouch' = p
  <2> SUFFICES ASSUME ~ pinch' PROVE onCanvas = {} /\ lastTouch' = p
    BY <1>1
  <2>0. pinch' = (Len(touches') > 1) /\ lastTouch' = (IF Len(touches') = 1 THEN p ELSE Lifted)
    BY DEF TouchStart
  <2>. ~ (Len(touches') > 1)
    BY <2>0, Zenon
  <2>1. Len(touches') = 1 /\ Len(touches) = 0
    BY <1>1, <1>2
  <2>2. ToSet(touches) = {}
    BY <2>1 DEF Fingered, TouchesTyped, OnScreen, Remembered, ToSet
  <2> QED BY <2>0, <2>1, <2>2 DEF Fingered, TouchesTyped, OnScreen, Remembered
<1> QED BY <1>1, <1>2, <1>3 DEF Fingered, TouchesTyped, OnScreen, Remembered

LEMMA TouchMoveKeeps ==
  ASSUME Fingered, pan' \in Int, NEW f \in Fingers, NEW p \in Places, TouchMove(f, p)
  PROVE  Fingered'
<1>1. UNCHANGED <<touches, onCanvas>> /\ at' = [at EXCEPT ![f] = p] /\ f \in onCanvas
  BY DEF TouchMove
<1>2. ASSUME ~ pinch' PROVE \A g \in onCanvas' : lastTouch' = at'[g]
  <2>1. Len(touches) = 1 /\ lastTouch' = p
    BY <1>2 DEF TouchMove
  <2> QED BY <1>1, <2>1, OneFinger DEF Fingered, TouchesTyped, OnScreen, Remembered
<1> QED BY <1>1, <1>2 DEF Fingered, TouchesTyped, OnScreen, Remembered

LEMMA TouchEndKeeps ==
  ASSUME Fingered, pan' \in Int, NEW f \in Fingers, TouchEnd(f)
  PROVE  Fingered'
<1>1. touches' = Rest(f) /\ onCanvas' = onCanvas \ {f} /\ at' = [at EXCEPT ![f] = 0]
        /\ f \in ToSet(touches) /\ f \in onCanvas
  BY DEF TouchEnd, Fingered, TouchesTyped, OnScreen, Remembered
<1>2. touches' \in Seq(Fingers) /\ onCanvas' \subseteq ToSet(touches') /\ Len(touches') \in Nat
  BY <1>1, RestSet DEF Fingered, TouchesTyped, OnScreen, Remembered
<1>3. \A g \in onCanvas' : at'[g] = at[g]
  BY <1>1 DEF Fingered, TouchesTyped, OnScreen, Remembered
<1>4. ASSUME ~ pinch', NEW g \in onCanvas' PROVE lastTouch' = at[g]
  <2>1. CASE Len(touches') = 0
    BY <1>2, <1>4, <2>1 DEF ToSet
  <2>2. CASE Len(touches') = 1
    <3>1. ToSet(touches') = {touches'[1]}
      BY <1>2, <2>2 DEF ToSet
    <3>2. lastTouch' = at[touches'[1]]
      BY <2>2 DEF TouchEnd
    <3> QED BY <1>2, <1>4, <3>1, <3>2
  <2>3. CASE Len(touches') > 1
    <3>0. \A n : n > 1 => n # 0 /\ n # 1
      OBVIOUS
    <3>1. Len(touches') # 0 /\ Len(touches') # 1
      BY <2>3, <3>0, Zenon
    <3>2. lastTouch' = lastTouch
      BY <3>1 DEF TouchEnd
    <3>3. pinch' = (pinch /\ Len(touches') > 1)
      BY DEF TouchEnd
    <3>4. ASSUME pinch PROVE FALSE
      <4>1. (pinch /\ Len(touches') > 1) = TRUE
        BY <2>3, <3>4, Zenon
      <4>2. pinch' = TRUE
        BY <3>3, <4>1, Zenon
      <4> QED BY <1>4, <4>2
    <3>5. g \in onCanvas /\ ~ pinch
      BY <1>1, <1>4, <3>4
    <3>6. lastTouch = at[g]
      BY <3>5 DEF Fingered, Remembered
    <3> QED BY <3>2, <3>6
  <2>4. \A n \in Nat : n = 0 \/ n = 1 \/ n > 1
    OBVIOUS
  <2> QED BY <1>2, <2>1, <2>2, <2>3, <2>4, Zenon
<1>5. at' \in [Fingers -> Places]
  BY <1>1, GestureAssumption DEF Fingered, TouchesTyped, OnScreen, Remembered, Places
<1> QED BY <1>1, <1>2, <1>3, <1>4, <1>5 DEF Fingered, TouchesTyped, OnScreen, Remembered

(* Fingers elsewhere on the page change nothing that is remembered. *)
LEMMA ElsewhereKeeps ==
  ASSUME Fingered, pan' \in Int, NEW f \in Fingers, TouchElsewhere(f) \/ LiftElsewhere(f)
  PROVE  Fingered'
<1>1. UNCHANGED <<onCanvas, at, lastTouch, pinch>>
  BY DEF TouchElsewhere, LiftElsewhere
<1>2. touches' \in Seq(Fingers) /\ onCanvas \subseteq ToSet(touches')
  <2>1. CASE TouchElsewhere(f)
    BY <2>1, AppendedSet DEF TouchElsewhere, Fingered, TouchesTyped, OnScreen, Remembered
  <2>2. CASE LiftElsewhere(f)
    BY <2>2, RestSet DEF LiftElsewhere, Fingered, TouchesTyped, OnScreen, Remembered
  <2> QED BY <2>1, <2>2
<1> QED BY <1>1, <1>2 DEF Fingered, TouchesTyped, OnScreen, Remembered

LEMMA OthersKeep ==
  ASSUME Fingered, pan' \in Int, UNCHANGED fingerVars
  PROVE  Fingered'
BY DEF Fingered, TouchesTyped, OnScreen, Remembered, fingerVars

LEMMA FingeredStep == Fingered /\ [GestureNext]_gestureVars => Fingered'
<1> SUFFICES ASSUME Fingered, [GestureNext]_gestureVars PROVE Fingered'
  OBVIOUS
<1>0. pan' \in Int
  BY PanTyped DEF Fingered, TouchesTyped, OnScreen, Remembered
<1>1. CASE \E f \in Fingers, p \in Places : TouchStart(f, p) \/ TouchMove(f, p)
  BY <1>0, <1>1, TouchStartKeeps, TouchMoveKeeps
<1>2. CASE \E f \in Fingers : TouchElsewhere(f) \/ TouchEnd(f) \/ LiftElsewhere(f)
  BY <1>0, <1>2, TouchEndKeeps, ElsewhereKeeps
<1>4. CASE UNCHANGED fingerVars
  BY <1>0, <1>4, OthersKeep
<1> QED BY <1>1, <1>2, <1>4 DEF GestureNext, gestureVars, MouseDown, MouseMove, MouseUp,
     ClickMarker, Recenter, ZoomBy, ResetView, fingerVars

-----------------------------------------------------------------------------
(* The rest of GestureInv: no finger is on the screen twice, and what is remembered has
   its type. *)
LEMMA RestInjective ==
  ASSUME touches \in Seq(Fingers), IsInjective(touches), NEW f \in ToSet(touches)
  PROVE  IsInjective(Rest(f))
<1> DEFINE n == Len(touches)
           r == Rest(f)
<1>1. n \in Nat /\ DOMAIN touches = 1 .. n
  OBVIOUS
<1>2. DOMAIN r = 1 .. n - 1
  BY RestPlaces
<1>3. PICK i \in 1 .. n :
        /\ \A k \in 1 .. i - 1 : r[k] = touches[k]
        /\ \A k \in i .. n - 1 : r[k] = touches[k + 1]
  BY RestPlaces
<1> HIDE DEF r
<1> DEFINE from(k) == IF k < i THEN k ELSE k + 1
<1>4. ASSUME NEW k \in 1 .. n - 1 PROVE from(k) \in 1 .. n /\ r[k] = touches[from(k)]
  <2>1. k \in 1 .. i - 1 \/ (~ (k < i) /\ k \in i .. n - 1)
    BY <1>1
  <2>2. k \in 1 .. i - 1 => k < i /\ k \in 1 .. n
    BY <1>1
  <2>3. k \in i .. n - 1 => k + 1 \in 1 .. n
    BY <1>1
  <2> QED BY <1>3, <2>1, <2>2, <2>3
<1>5. \A k, l \in 1 .. n - 1 : from(k) = from(l) => k = l
  BY <1>1
<1>6. \A k, l \in 1 .. n : touches[k] = touches[l] => k = l
  BY <1>1 DEF IsInjective
<1> HIDE DEF from
<1>7. \A k, l \in 1 .. n - 1 : r[k] = r[l] => k = l
  BY <1>4, <1>5, <1>6
<1> QED BY <1>2, <1>7 DEF IsInjective, r

LEMMA AppendedInjective ==
  ASSUME touches \in Seq(Fingers), IsInjective(touches), NEW f \in Fingers \ ToSet(touches)
  PROVE  IsInjective(Append(touches, f))
<1> DEFINE n == Len(touches)
           a == Append(touches, f)
<1>1. n \in Nat /\ DOMAIN touches = 1 .. n /\ DOMAIN a = 1 .. n + 1
        /\ \A k \in 1 .. n : a[k] = touches[k]
  OBVIOUS
<1>2. a[n + 1] = f
  OBVIOUS
<1> HIDE DEF a
<1>3. \A k \in 1 .. n : touches[k] # f
  BY <1>1 DEF ToSet
<1>4. \A k \in 1 .. n + 1 : k \in 1 .. n \/ k = n + 1
  BY <1>1
<1>5. \A k, l \in 1 .. n : touches[k] = touches[l] => k = l
  BY <1>1 DEF IsInjective
<1>6. \A k, l \in 1 .. n + 1 : a[k] = a[l] => k = l
  BY <1>1, <1>2, <1>3, <1>4, <1>5
<1> QED BY <1>1, <1>6 DEF IsInjective, a

LEMMA Origin == 0 \in Pans /\ 0 \in Places /\ 1 \in Zooms /\ ZoomLevels \in Zooms
BY GestureAssumption DEF Pans, Places, Zooms

(* The types that fingers leave alone. *)
ViewTyped == pan \in Pans /\ zoom \in Zooms /\ zoomPct \in Zooms
MouseTyped == /\ mouse \in Places /\ lastMouse \in Places
              /\ dragging \in BOOLEAN /\ didMove \in BOOLEAN
FingersTyped == /\ touches \in Seq(Fingers) /\ IsInjective(touches)
                /\ onCanvas \subseteq Fingers /\ at \in [Fingers -> Places]
                /\ lastTouch \in Places \cup {Lifted} /\ pinch \in BOOLEAN

LEMMA GestureParts == GestureTypeOK <=> ViewTyped /\ FingersTyped /\ MouseTyped
BY DEF GestureTypeOK, ViewTyped, FingersTyped, MouseTyped

LEMMA ViewKeeps == ViewTyped /\ [GestureNext]_gestureVars => ViewTyped'
<1> SUFFICES ASSUME ViewTyped, [GestureNext]_gestureVars PROVE ViewTyped'
  OBVIOUS
<1>1. CASE \E f \in Fingers, p \in Places : TouchStart(f, p) \/ TouchMove(f, p)
  BY <1>1 DEF TouchStart, TouchMove, viewVars, ViewTyped
<1>2. CASE \E f \in Fingers : TouchElsewhere(f) \/ TouchEnd(f) \/ LiftElsewhere(f)
  BY <1>2 DEF TouchElsewhere, TouchEnd, LiftElsewhere, viewVars, ViewTyped
<1>3. CASE \E p \in Places : MouseMove(p)
  BY <1>3 DEF MouseMove, ViewTyped
<1>4. CASE MouseDown \/ MouseUp \/ ClickMarker \/ Recenter
  BY <1>4, Origin DEF MouseDown, MouseUp, ClickMarker, Recenter, CenterOn, viewVars, ViewTyped
<1>5. CASE (\E step \in {-1, 1} : ZoomBy(step)) \/ ResetView
  BY <1>5, Origin DEF ZoomBy, ResetView, ViewTyped
<1>6. CASE UNCHANGED gestureVars
  BY <1>6 DEF gestureVars, ViewTyped
<1> QED BY <1>1, <1>2, <1>3, <1>4, <1>5, <1>6 DEF GestureNext

LEMMA MouseKeeps == MouseTyped /\ [GestureNext]_gestureVars => MouseTyped'
<1> SUFFICES ASSUME MouseTyped, [GestureNext]_gestureVars PROVE MouseTyped'
  OBVIOUS
<1>1. CASE UNCHANGED mouseVars
  BY <1>1 DEF mouseVars, MouseTyped
<1>2. CASE (\E p \in Places : MouseMove(p)) \/ MouseDown \/ MouseUp
  BY <1>2 DEF MouseMove, MouseDown, MouseUp, MouseTyped
<1> QED BY <1>1, <1>2 DEF GestureNext, gestureVars, mouseVars, TouchStart, TouchMove,
     TouchElsewhere, TouchEnd, LiftElsewhere, ClickMarker, Recenter, ZoomBy, ResetView

LEMMA FirstIsFinger ==
  ASSUME NEW s \in Seq(Fingers), Len(s) = 1 PROVE s[1] \in Fingers
<1>1. 1 \in 1 .. Len(s)
  OBVIOUS
<1> QED BY <1>1

LEMMA FingersKeep ==
  ASSUME FingersTyped, onCanvas \subseteq ToSet(touches), [GestureNext]_gestureVars,
         touches' \in Seq(Fingers), onCanvas' \subseteq Fingers, at' \in [Fingers -> Places]
  PROVE  FingersTyped'
<1>1. ASSUME NEW f \in Fingers, NEW p \in Places, TouchStart(f, p) PROVE FingersTyped'
  <2>1. IsInjective(touches')
    BY <1>1, AppendedInjective DEF TouchStart, FingersTyped
  <2>2. lastTouch' \in Places \cup {Lifted}
    BY <1>1 DEF TouchStart
  <2>3. pinch' = (Len(touches') > 1)
    BY <1>1 DEF TouchStart
  <2>4. (Len(touches') > 1) \in BOOLEAN
    OBVIOUS
  <2>5. pinch' \in BOOLEAN
    BY <2>3, <2>4, Zenon
  <2> QED BY <2>1, <2>2, <2>5 DEF FingersTyped
<1>2. ASSUME NEW f \in Fingers, NEW p \in Places, TouchMove(f, p) PROVE FingersTyped'
  BY <1>2 DEF TouchMove, FingersTyped
<1>3. ASSUME NEW f \in Fingers, TouchElsewhere(f) PROVE FingersTyped'
  BY <1>3, AppendedInjective DEF TouchElsewhere, FingersTyped
<1>4. ASSUME NEW f \in Fingers, TouchEnd(f) PROVE FingersTyped'
  <2>1. IsInjective(touches')
    BY <1>4, RestInjective DEF TouchEnd, FingersTyped
  <2>2. Len(touches') = 1 => touches'[1] \in Fingers
    BY FirstIsFinger
  <2>3. lastTouch' \in Places \cup {Lifted}
    BY <1>4, <2>2 DEF TouchEnd, FingersTyped
  <2>4. pinch' \in BOOLEAN
    BY <1>4, Zenon DEF TouchEnd
  <2> QED BY <2>1, <2>3, <2>4 DEF FingersTyped
<1>5. ASSUME NEW f \in Fingers, LiftElsewhere(f) PROVE FingersTyped'
  BY <1>5, RestInjective DEF LiftElsewhere, FingersTyped
<1>6. CASE UNCHANGED fingerVars
  BY <1>6 DEF fingerVars, FingersTyped
<1> QED BY <1>1, <1>2, <1>3, <1>4, <1>5, <1>6 DEF GestureNext, gestureVars, MouseDown,
     MouseMove, MouseUp, ClickMarker, Recenter, ZoomBy, ResetView, fingerVars

LEMMA GestureInitInv == GestureInit => GestureInv
<1> SUFFICES ASSUME GestureInit PROVE GestureInv
  OBVIOUS
<1>1. ViewTyped /\ MouseTyped
  BY Origin DEF GestureInit, ViewTyped, MouseTyped
<1>2. Fingered
  BY FingeredInit
<1>3. IsInjective(touches)
  <2>1. DOMAIN touches = {}
    BY DEF GestureInit
  <2> QED BY <2>1 DEF IsInjective
<1>4. FingersTyped
  BY <1>2, <1>3 DEF GestureInit, FingersTyped, Fingered, TouchesTyped
<1> QED BY <1>1, <1>2, <1>4, GestureParts DEF GestureInv, Fingered, OnScreen, Remembered

LEMMA GestureStepInv == GestureInv /\ [GestureNext]_gestureVars => GestureInv'
<1> SUFFICES ASSUME GestureInv, [GestureNext]_gestureVars PROVE GestureInv'
  OBVIOUS
<1>1. ViewTyped /\ FingersTyped /\ MouseTyped
  BY GestureParts DEF GestureInv
<1>2. Fingered
  BY DEF GestureInv, GestureTypeOK, Pans, Fingered, TouchesTyped, OnScreen, Remembered
<1>3. Fingered'
  BY <1>2, FingeredStep
<1>4. (ViewTyped /\ FingersTyped /\ MouseTyped)'
  BY <1>1, <1>2, <1>3, ViewKeeps, MouseKeeps, FingersKeep DEF Fingered, TouchesTyped, OnScreen
<1>5. GestureTypeOK'
  BY <1>4 DEF GestureTypeOK, ViewTyped, FingersTyped, MouseTyped
<1> QED BY <1>3, <1>5 DEF GestureInv, Fingered, OnScreen, Remembered

(* After any fingers put down and lifted, on the canvas or beside it, the first move of
   a single one shifts the board by just that move (BoardViewer.tsx:983-1055). *)
THEOREM NeverJumps == GestureSpec => NoJump
<1>1. ASSUME Fingered, GestureNext, NEW f \in Fingers PROVE Follows(f)
  <2> SUFFICES ASSUME Len(touches) = 1, f \in onCanvas, touches' = touches, at'[f] # at[f]
               PROVE  IF pinch THEN pan' = pan ELSE pan' - pan = at'[f] - at[f]
    BY DEF Follows
  <2>1. touches \in Seq(Fingers) /\ at \in [Fingers -> Places]
    BY <1>1 DEF Fingered, TouchesTyped, OnScreen, Remembered
  <2>2. ASSUME NEW g \in Fingers, NEW p \in Places, TouchMove(g, p)
        PROVE  IF pinch THEN pan' = pan ELSE pan' - pan = at'[f] - at[f]
    <3>1. g = f /\ at'[f] = p
      BY <1>1, <2>2, OneFinger DEF TouchMove, Fingered, TouchesTyped, OnScreen, Remembered
    <3>2. CASE pinch
      BY <2>2, <3>2 DEF TouchMove
    <3>3. CASE ~ pinch
      <4>1. lastTouch = at[f] /\ at[f] \in Nat
        BY <1>1, <2>1, <3>3, GestureAssumption
           DEF Fingered, TouchesTyped, OnScreen, Remembered, Places
      <4>2. pan' = pan + p - at[f]
        BY <2>2, <3>3, <4>1 DEF TouchMove, Lifted
      <4> QED
        BY <1>1, <2>1, <3>1, <3>3, <4>1, <4>2
           DEF Fingered, TouchesTyped, OnScreen, Remembered, Places
    <3> QED BY <3>2, <3>3
  <2>3. ASSUME NEW g \in Fingers, NEW p \in Places, TouchStart(g, p) PROVE FALSE
    <3>1. touches' = Append(touches, g)
      BY <2>3 DEF TouchStart
    <3> QED BY <2>1, <3>1, AppendedSet
  <2>4. ASSUME NEW g \in Fingers, TouchEnd(g) PROVE FALSE
    <3>1. touches' = Rest(g) /\ g \in ToSet(touches)
      BY <1>1, <2>4 DEF TouchEnd, Fingered, TouchesTyped, OnScreen, Remembered
    <3>2. Len(Rest(g)) = Len(touches) - 1
      BY <2>1, <3>1, RestSet
    <3> QED BY <3>1, <3>2
  <2>5. at' # at
    OBVIOUS
  <2> QED BY <1>1, <2>2, <2>3, <2>4, <2>5 DEF GestureNext, TouchElsewhere, LiftElsewhere,
       MouseDown, MouseMove, MouseUp, ClickMarker, Recenter, ZoomBy, ResetView, fingerVars
<1>2. Fingered /\ [GestureNext]_gestureVars => [\A f \in Fingers : Follows(f)]_gestureVars
  BY <1>1
<1> QED BY <1>2, FingeredInit, FingeredStep, PTL DEF GestureSpec, NoJump
=============================================================================
