--------------------------------- MODULE Focus ---------------------------------
(***************************************************************************)
(* What the results page and the share page show of the violations and the *)
(* layers: the layer toggles, the severity and rule filters, and the       *)
(* viewer's focus on the layer of the violation that is picked, which puts *)
(* the toggles aside and brings them back (BoardViewer, ViolationList).    *)
(*                                                                         *)
(* A violation has a layer, a severity and a rule; its layer may be ""     *)
(* or a pseudo layer of older analyses.                                    *)
(***************************************************************************)
EXTENDS Naturals, Sequences, FiniteSets

CONSTANTS
    LayerSeq,        \* the layers of the board, in order
    CopperLayers, DrillLayers,   \* by type; POWER_GROUND counts as copper
    TopLayers, BottomLayers,     \* by name
    Marks,           \* the violations
    MarkLayer, MarkSeverity, MarkRule,
    NoMark

BoardLayers == {LayerSeq[i] : i \in 1 .. Len(LayerSeq)}
LegacyLayers == {"drill", "copper"}
Severities == {"ERROR", "WARNING", "INFO"}
Rules == {MarkRule[m] : m \in Marks}

ASSUME FocusAssumption ==
    /\ LayerSeq \in Seq(STRING)
    /\ {CopperLayers, DrillLayers, TopLayers, BottomLayers} \subseteq SUBSET BoardLayers
    /\ NoMark \notin Marks
    /\ \A m \in Marks : MarkLayer[m] \in STRING /\ MarkSeverity[m] \in Severities

VARIABLES
    onShare,      \* the share page, not the results page
    picked,       \* selectedId
    hidden,       \* hiddenLayers
    snapshot,     \* preFocusHiddenRef, when there is one
    focusing,     \* preFocusHiddenRef is not null
    severity,     \* severityFilter
    rules,        \* ruleFilter
    waived,       \* the violations that are ignored
    showWaived,   \* showIgnored
    wished,       \* history: the toggles the user has chosen out of focus
    leftFocused   \* history: the viewer was closed while it focused

focusVars == <<onShare, picked, hidden, snapshot, focusing, severity, rules, waived,
               showWaived, wished, leftFocused>>
filterVars == <<severity, rules, waived, showWaived>>
layerVars == <<hidden, snapshot, focusing, wished>>

FocusTypeOK ==
    /\ onShare \in BOOLEAN /\ focusing \in BOOLEAN /\ leftFocused \in BOOLEAN
    /\ picked \in Marks \cup {NoMark}
    /\ {hidden, snapshot, wished} \subseteq SUBSET BoardLayers
    /\ severity \in Severities \cup {"NONE"}
    /\ rules \subseteq Rules /\ waived \subseteq Marks /\ showWaived \in BOOLEAN

FocusInit ==
    /\ onShare \in BOOLEAN
    /\ picked = NoMark
    /\ hidden = {} /\ snapshot = {} /\ focusing = FALSE
    /\ severity = "ERROR" /\ rules = {}
    /\ waived \in SUBSET Marks /\ showWaived = FALSE
    /\ wished = {} /\ leftFocused = FALSE

-----------------------------------------------------------------------------
(* The filters, from the page down to the list and the viewer.               *)

OnVisibleLayer(m, off) ==
    IF onShare THEN MarkLayer[m] \notin off
    ELSE IF MarkLayer[m] \in BoardLayers THEN MarkLayer[m] \notin off
    ELSE BoardLayers = {} \/ Cardinality(off) < Cardinality(BoardLayers)

LayerFiltered == {m \in Marks : OnVisibleLayer(m, hidden)}
VisibleMarks == {m \in LayerFiltered : MarkSeverity[m] = severity}
OfRules(marks) == {m \in marks : rules = {} \/ MarkRule[m] \in rules}

(* The rule pills and the rows of the list. *)
RulePills ==
    LET here == {m \in VisibleMarks : m \notin waived} IN
    {r \in {MarkRule[m] : m \in LayerFiltered} :
        r \in rules \/ \E m \in here : MarkRule[m] = r}

ListedMarks == {m \in OfRules(VisibleMarks) : showWaived \/ m \notin waived}

(* The rules filter the markers on the results page only. *)
ViewerMarks ==
    (IF onShare THEN VisibleMarks ELSE OfRules(VisibleMarks)) \ waived

(* The layers with something left to ignore. *)
violationLayers == {MarkLayer[m] : m \in VisibleMarks \ waived} \ {""}

-----------------------------------------------------------------------------
(* The focus effect, run when the selection changes.                         *)

OuterCopper ==
    LET at == {i \in 1 .. Len(LayerSeq) : LayerSeq[i] \in CopperLayers} IN
    {LayerSeq[i] : i \in {j \in at : \A k \in at : j <= k} \cup {j \in at : \A k \in at : k <= j}}

IgnoreLegacy(m) == {MarkLayer[m]}                                   \* mutant
ShownWith(m) ==
    {MarkLayer[m]} \cup
        (IF MarkLayer[m] \in LegacyLayers THEN OuterCopper \cup DrillLayers ELSE {})

AlwaysSnapshot(m, marks) ==                                         \* mutant
    IF m \in marks /\ MarkLayer[m] # "" /\ BoardLayers # {}
    THEN /\ snapshot' = hidden /\ focusing' = TRUE
         /\ hidden' = BoardLayers \ ShownWith(m)
    ELSE UNCHANGED <<hidden, snapshot, focusing>>
NarrowTo(m, marks) ==
    IF m \in marks /\ MarkLayer[m] # "" /\ BoardLayers # {}
    THEN /\ snapshot' = IF focusing THEN snapshot ELSE hidden
         /\ focusing' = TRUE
         /\ hidden' = BoardLayers \ ShownWith(m)
    ELSE UNCHANGED <<hidden, snapshot, focusing>>

FocusEffect(m) ==
    IF m # NoMark THEN NarrowTo(m, ViewerMarks)
    ELSE IF focusing THEN hidden' = snapshot /\ snapshot' = {} /\ focusing' = FALSE
    ELSE UNCHANGED <<hidden, snapshot, focusing>>

Pick(m) ==
    /\ picked' = m
    /\ IF m = picked THEN UNCHANGED <<hidden, snapshot, focusing>> ELSE FocusEffect(m)
    /\ UNCHANGED <<onShare, filterVars, wished, leftFocused>>

(* A row of the list picks its violation, or unpicks it. *)
ClickRow(m) == m \in ListedMarks /\ Pick(IF m = picked THEN NoMark ELSE m)

(* A click on the canvas picks the nearest marker in reach, or none. *)
ClickCanvas(m) == m \in ViewerMarks \cup {NoMark} /\ Pick(m)

-----------------------------------------------------------------------------
(* The toggles and the filters.                                              *)

SetHidden(off) ==
    /\ hidden' = off
    /\ wished' = IF focusing THEN wished ELSE off
    /\ UNCHANGED <<onShare, picked, snapshot, focusing, filterVars, leftFocused>>

ToggleLayer(l) == SetHidden(IF l \in hidden THEN hidden \ {l} ELSE hidden \cup {l})

(* All, None, Top and Bottom. *)
LayerButtons ==
    \E off \in {{}, BoardLayers, BottomLayers, TopLayers} : SetHidden(off)

SetSeverity(s) ==
    /\ severity' = s
    /\ UNCHANGED <<onShare, picked, layerVars, rules, waived, showWaived, leftFocused>>

ToggleRule(r) ==
    /\ r \in RulePills /\ Cardinality(RulePills) > 1 /\ severity # "NONE"
    /\ rules' = IF r \in rules THEN rules \ {r} ELSE rules \cup {r}
    /\ UNCHANGED <<onShare, picked, layerVars, severity, waived, showWaived, leftFocused>>

ToggleShowWaived ==
    /\ \E m \in LayerFiltered : m \in waived
    /\ showWaived' = ~ showWaived
    /\ UNCHANGED <<onShare, picked, layerVars, severity, rules, waived, leftFocused>>

ClearRules ==
    /\ rules # {} /\ Cardinality(RulePills) > 1 /\ severity # "NONE"
    /\ rules' = {}
    /\ UNCHANGED <<onShare, picked, layerVars, severity, waived, showWaived, leftFocused>>

(* The list closed and opened again: the rules are its own on the share page. *)
ReopenList ==
    /\ showWaived' = FALSE
    /\ rules' = IF onShare THEN {} ELSE rules
    /\ UNCHANGED <<onShare, picked, layerVars, severity, waived, leftFocused>>

(* Ignore or restore: a row, or those of a layer, all of them or the errors or the
   warnings to ignore, and all to restore (how that is saved is in Review). *)
WaiveRow(m) ==
    /\ ~ onShare /\ m \in ListedMarks
    /\ waived' = IF m \in waived THEN waived \ {m} ELSE waived \cup {m}
    /\ UNCHANGED <<onShare, picked, layerVars, severity, rules, showWaived, leftFocused>>

WaiveLayer(l) ==
    /\ ~ onShare /\ l \in violationLayers \cap BoardLayers
    /\ LET there == {m \in Marks : MarkLayer[m] = l} IN
       \/ \E sev \in {Severities, {"ERROR"}, {"WARNING"}} :
             waived' = waived \cup {m \in there : MarkSeverity[m] \in sev}
       \/ waived' = waived \ there
    /\ UNCHANGED <<onShare, picked, layerVars, severity, rules, showWaived, leftFocused>>

(* "Back" of the share page closes the viewer and the list, and keeps the selection
   and the toggles; the next viewer opens before it has violations, and narrows
   nothing. *)
LeaveViewer ==
    /\ onShare
    /\ snapshot' = {} /\ focusing' = FALSE
    /\ leftFocused' = (leftFocused \/ focusing)
    /\ rules' = {} /\ showWaived' = FALSE
    /\ UNCHANGED <<onShare, picked, hidden, severity, waived, wished>>

-----------------------------------------------------------------------------
FocusNext ==
    \/ \E m \in Marks : ClickRow(m) \/ WaiveRow(m)
    \/ \E m \in Marks \cup {NoMark} : ClickCanvas(m)
    \/ \E l \in BoardLayers : ToggleLayer(l) \/ WaiveLayer(l)
    \/ LayerButtons
    \/ \E s \in Severities \cup {"NONE"} : SetSeverity(s)
    \/ \E r \in Rules : ToggleRule(r)
    \/ ClearRules \/ ReopenList \/ ToggleShowWaived \/ LeaveViewer

FocusSpec == FocusInit /\ [][FocusNext]_focusVars

-----------------------------------------------------------------------------
(* "On deselect, restore the user's prior toggles" (BoardViewer.tsx:879): whatever
   was picked in between, and whatever was toggled while it was. *)
FocusRestores == picked = NoMark /\ ~ leftFocused => hidden = wished /\ ~ focusing

(* The inductive invariant of its proof: the viewer focuses only while something is
   picked; the snapshot then, and the toggles otherwise, are what the user chose. *)
FocusInv ==
    /\ FocusTypeOK
    /\ picked = NoMark => ~ focusing
    /\ ~ leftFocused => wished = IF focusing THEN snapshot ELSE hidden

(* The focus shows the violation it is about: one that is picked is still on a
   visible layer once the others are hidden (BoardViewer.tsx:906-936 with
   results/[jobId]/page.tsx:116-123), so its row and its marker do not vanish; but
   for a violation on a layer the board lacks, whose focus hides every layer. *)
FocusFinds(m) ==
    \/ MarkLayer[m] \in BoardLayers \cup {""}
    \/ MarkLayer[m] \in LegacyLayers /\ OuterCopper \cup DrillLayers # {}

PickedStays ==
    [][picked' \notin {picked, NoMark} /\ FocusFinds(picked')
          => OnVisibleLayer(picked', hidden')]_focusVars
=============================================================================
