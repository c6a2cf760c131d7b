---------------------------- MODULE ClientProofs ----------------------------
(***************************************************************************)
(* Proofs about the frontend: the dialogs that pin products, the list      *)
(* screens and the calls they make, for any number of products, links,     *)
(* handler calls, versions, tabs and logins; and the types of the whole    *)
(* back office, which rest on the proofs of its parts.                     *)
(***************************************************************************)
EXTENDS Office, LedgerProofs, OperationsProofs, AnalyticsProofs

-----------------------------------------------------------------------------
(* The dialogs: among the products nobody else touched, a live one was     *)
(* live when the dialog opened, or is pinned by the save under way.        *)

DialogPc == {"loading", "edit", "recording", "partial", "anchoring", "removing", "saved"}

DialogState ==
  [kind : {"picker", "recorder"}, pc : DialogPc, want : [Pinnable -> Choice],
   old : [Pinnable -> 1..MaxPins \cup {None}], barred : SUBSET Pinnable,
   todo : SUBSET Pinnable, drop : SUBSET Pinnable, new : SUBSET Pinnable, recorded : BOOLEAN]

DialogTypes ==
  /\ pins \in [Pinnable -> Pin \cup {None}]
  /\ pinned \in [Pinnable -> 0..MaxPins]
  /\ \A p \in Live : pinned[p] >= 1
  /\ dialog \in DialogState
  /\ dialog.kind = "recorder" => dialog.pc # "loading" /\ dialog.old = NoneOf
  /\ dialog.pc \in {"recording", "partial"} => dialog.kind = "recorder"

\* Outside a save nothing is in progress.
BetweenSaves ==
  dialog.pc \in {"loading", "edit", "recording", "partial"} =>
    dialog.todo = {} /\ dialog.drop = {} /\ dialog.new = {}

\* What is pinned and was not before is this save's.
OnlyOwnPins ==
  dialog.pc # "loading" =>
    \A p \in Pinnable \ (touched \cup dialog.new) : p \in Live => dialog.old[p] # None

\* How far a save has come.
SaveProgress ==
  dialog.pc \in {"anchoring", "removing", "saved"} =>
    /\ dialog.new \subseteq Chosen /\ dialog.todo \subseteq Chosen
    /\ \A p \in dialog.new \ touched : p \in Live /\ pins[p].tag = dialog.want[p]
    /\ \A p \in Chosen \ (dialog.todo \cup touched) : p \in Live
    /\ dialog.drop \subseteq ToRemove
    /\ \A p \in ToRemove \ touched : p \in Live => p \in dialog.drop
    /\ dialog.pc # "anchoring" => dialog.todo = {}
    /\ dialog.pc = "saved" => dialog.drop = {}

DialogInv == DialogTypes /\ BetweenSaves /\ OnlyOwnPins /\ SaveProgress

LEMMA DialogInit1 == AnchorDialogInit => DialogInv
<1> SUFFICES ASSUME AnchorDialogInit PROVE DialogInv
  OBVIOUS
<1>1. PICK kind \in {"picker", "recorder"}, live \in SUBSET Pinnable :
        /\ kind = "recorder" => live = {}
        /\ pins = [p \in Pinnable |-> IF p \in live THEN [tag |-> None, no |-> 1] ELSE None]
        /\ pinned = [p \in Pinnable |-> IF p \in live THEN 1 ELSE 0]
        /\ dialog = [kind |-> kind, pc |-> IF kind = "picker" THEN "loading" ELSE "edit",
                     want |-> Nothing, old |-> NoneOf, barred |-> {},
                     todo |-> {}, drop |-> {}, new |-> {}, recorded |-> FALSE]
  BY DEF AnchorDialogInit
<1>2. [tag |-> None, no |-> 1] \in Pin
  BY AnchorDialogAssumption DEF Pin
<1>3. pins \in [Pinnable -> Pin \cup {None}] /\ pinned \in [Pinnable -> 0..MaxPins]
  BY <1>1, <1>2, AnchorDialogAssumption
<1>4. Nothing \in [Pinnable -> Choice] /\ NoneOf \in [Pinnable -> 1..MaxPins \cup {None}]
  BY DEF Nothing, NoneOf, Choice
<1>5. dialog \in DialogState
  BY <1>1, <1>4 DEF DialogState, DialogPc
<1>6. Live = live
  BY <1>1, <1>2, AnchorDialogAssumption DEF Live
<1>7. DialogTypes
  BY <1>1, <1>3, <1>5, <1>6 DEF DialogTypes
<1>8. BetweenSaves /\ OnlyOwnPins /\ SaveProgress
  BY <1>1, <1>6 DEF BetweenSaves, OnlyOwnPins, SaveProgress
<1> QED
  BY <1>7, <1>8 DEF DialogInv

\* What a target shows of pins that do not change, or change for touched products only.
LEMMA OthersChange ==
  ASSUME DialogInv, NEW p \in Pinnable, UNCHANGED dialog, touched' = touched \cup {p},
         pins' \in [Pinnable -> Pin \cup {None}], pinned' \in [Pinnable -> 0..MaxPins],
         \A q \in Pinnable \ {p} : pins'[q] = pins[q] /\ pinned'[q] = pinned[q],
         pins'[p] # None => pinned'[p] >= 1
  PROVE  DialogInv'
<1>1. \A q \in Pinnable \ {p} : q \in Live' <=> q \in Live
  BY DEF Live
<1>2. p \in Live' => pinned'[p] >= 1
  BY DEF Live
<1>3. Live' \subseteq Pinnable /\ Live \subseteq Pinnable
  BY DEF Live
<1>4. DialogTypes'
  BY <1>1, <1>2, <1>3 DEF DialogInv, DialogTypes
<1>5. BetweenSaves'
  BY DEF DialogInv, BetweenSaves
<1>6. OnlyOwnPins'
  BY <1>1 DEF DialogInv, OnlyOwnPins
<1>7. UNCHANGED <<Chosen, ToRemove>> /\ Chosen \subseteq Pinnable /\ ToRemove \subseteq Pinnable
  BY DEF Chosen, ToRemove
<1>8. SaveProgress'
  BY <1>1, <1>7 DEF DialogInv, SaveProgress
<1> QED
  BY <1>4, <1>5, <1>6, <1>8 DEF DialogInv

\* A dialog between two saves that changes its form, or moves between two such places.
LEMMA FormChanges ==
  ASSUME DialogInv, dialog' \in DialogState, UNCHANGED <<pins, pinned>>,
         dialog'.pc \in {"edit", "recording", "partial"},
         dialog'.todo = {}, dialog'.drop = {}, dialog'.new = {},
         dialog'.kind = "recorder" => dialog'.old = NoneOf,
         dialog'.pc \in {"recording", "partial"} => dialog'.kind = "recorder",
         \A p \in Pinnable \ touched' : p \in Live => dialog'.old[p] # None
  PROVE  DialogInv'
<1>1. Live' = Live
  BY DEF Live
<1>2. DialogTypes'
  BY <1>1 DEF DialogInv, DialogTypes
<1>3. BetweenSaves' /\ OnlyOwnPins' /\ SaveProgress'
  BY <1>1 DEF BetweenSaves, OnlyOwnPins, SaveProgress
<1> QED
  BY <1>2, <1>3 DEF DialogInv

\* A save starts from the form as it is.
LEMMA SaveStarts ==
  ASSUME DialogInv, dialog.pc \in {"edit", "recording", "partial"},
         NEW d \in DialogState, d.drop = ToRemove, d.kind = dialog.kind, d.want = dialog.want,
         d.old = dialog.old, dialog' = Starts(d), UNCHANGED <<pins, pinned, touched>>
  PROVE  DialogInv'
<1>1. Chosen \in SUBSET Pinnable
  BY DEF Chosen
<1> DEFINE pc == IF Chosen = {} THEN AfterAnchoring(d) ELSE "anchoring"
<1>2. /\ pc \in {"anchoring", "removing", "saved"}
      /\ pc = "saved" => Chosen = {} /\ (d.kind = "picker" => ToRemove = {})
      /\ pc # "anchoring" => Chosen = {}
  BY DEF AfterAnchoring
<1>3. dialog' = [d EXCEPT !.pc = pc, !.todo = Chosen, !.new = {}]
  BY DEF Starts
<1> HIDE DEF pc
<1>4. dialog' \in DialogState
  <2> DEFINE c == [d EXCEPT !.pc = pc]
  <2>1. c \in DialogState
    BY <1>2 DEF DialogState, DialogPc
  <2>2. dialog' = [c EXCEPT !.todo = Chosen, !.new = {}]
    BY <1>3 DEF DialogState
  <2> HIDE DEF c
  <2> QED
    BY <1>1, <2>1, <2>2 DEF DialogState
<1>5. /\ dialog'.pc = pc /\ dialog'.todo = Chosen /\ dialog'.new = {} /\ dialog'.drop = ToRemove
      /\ dialog'.want = dialog.want /\ dialog'.old = dialog.old /\ dialog'.kind = dialog.kind
  BY <1>3 DEF DialogState
<1>6. Chosen' = Chosen /\ ToRemove' = ToRemove /\ Live' = Live
  BY <1>5 DEF Chosen, ToRemove, Live
<1>7. DialogTypes'
  BY <1>2, <1>4, <1>5, <1>6 DEF DialogInv, DialogTypes
<1>8. BetweenSaves'
  BY <1>2, <1>5 DEF BetweenSaves
<1>9. OnlyOwnPins'
  BY <1>5, <1>6 DEF DialogInv, OnlyOwnPins, BetweenSaves
<1>10. dialog.kind = "recorder" => ToRemove = {}
  BY DEF DialogInv, DialogTypes, ToRemove, NoneOf
<1>11. dialog.kind \in {"picker", "recorder"}
  BY DEF DialogInv, DialogTypes, DialogState
<1>12. SaveProgress'
  BY <1>2, <1>5, <1>6, <1>10, <1>11 DEF SaveProgress
<1> QED
  BY <1>7, <1>8, <1>9, <1>12 DEF DialogInv

LEMMA AnchorOneKeeps ==
  ASSUME DialogInv, NEW p \in Pinnable, AnchorOne(p)
  PROVE  DialogInv'
<1>1. /\ dialog.pc = "anchoring" /\ dialog \in DialogState /\ UNCHANGED touched
      /\ dialog.todo \in SUBSET Pinnable /\ dialog.new \in SUBSET Pinnable
  BY DEF AnchorOne, DialogInv, DialogTypes, DialogState
<1>2. p \in dialog.todo
  BY DEF AnchorOne
<1>3. Chosen \in SUBSET Pinnable /\ ToRemove \in SUBSET Pinnable /\ Chosen \cap ToRemove = {}
  BY DEF Chosen, ToRemove
<1>4. CASE p \in Live /\ dialog' = [dialog EXCEPT !.todo = @ \ {p}] /\ UNCHANGED <<pins, pinned>>
  <2>1. dialog' \in DialogState
    BY <1>1, <1>4 DEF DialogState
  <2>2. /\ dialog'.todo = dialog.todo \ {p}
        /\ dialog'.pc = dialog.pc /\ dialog'.want = dialog.want /\ dialog'.old = dialog.old
        /\ dialog'.kind = dialog.kind /\ dialog'.drop = dialog.drop /\ dialog'.new = dialog.new
    BY <1>1, <1>4 DEF DialogState
  <2>3. Live' = Live /\ Chosen' = Chosen /\ ToRemove' = ToRemove
    BY <1>4, <2>2 DEF Live, Chosen, ToRemove
  <2>4. DialogTypes'
    BY <1>4, <2>1, <2>2, <2>3 DEF DialogInv, DialogTypes
  <2>5. BetweenSaves'
    BY <1>1, <2>2 DEF BetweenSaves
  <2>6. OnlyOwnPins'
    BY <1>1, <2>2, <2>3 DEF DialogInv, OnlyOwnPins
  <2>7. SaveProgress'
    BY <1>1, <1>4, <2>2, <2>3 DEF DialogInv, SaveProgress
  <2> QED
    BY <2>4, <2>5, <2>6, <2>7 DEF DialogInv
<1>5. CASE /\ p \notin Live /\ pinned[p] < MaxPins
           /\ pins' = [pins EXCEPT ![p] = [tag |-> dialog.want[p], no |-> pinned[p] + 1]]
           /\ pinned' = [pinned EXCEPT ![p] = @ + 1]
           /\ dialog' = [dialog EXCEPT !.todo = @ \ {p}, !.new = @ \cup {p}]
  <2>1. dialog' \in DialogState
    BY <1>1, <1>5 DEF DialogState
  <2>2. /\ dialog'.todo = dialog.todo \ {p} /\ dialog'.new = dialog.new \cup {p}
        /\ dialog'.pc = dialog.pc /\ dialog'.want = dialog.want /\ dialog'.old = dialog.old
        /\ dialog'.kind = dialog.kind /\ dialog'.drop = dialog.drop
    BY <1>1, <1>5 DEF DialogState
  <2>3. Chosen' = Chosen /\ ToRemove' = ToRemove
    BY <2>2 DEF Chosen, ToRemove
  <2>4. p \in Chosen
    BY <1>1, <1>2 DEF DialogInv, SaveProgress
  <2>5. dialog.want[p] \in {None} \cup Tag
    BY <1>1, <2>4 DEF Chosen, DialogState, Choice
  <2>6. pinned[p] + 1 \in 1..MaxPins /\ pinned[p] \in 0..MaxPins
    BY <1>5, AnchorDialogAssumption DEF DialogInv, DialogTypes
  <2> DEFINE pin == [tag |-> dialog.want[p], no |-> pinned[p] + 1]
  <2>7. pin \in Pin /\ pin # None /\ pin.tag = dialog.want[p]
    BY <2>5, <2>6, AnchorDialogAssumption DEF Pin
  <2>8. pins' = [pins EXCEPT ![p] = pin]
    BY <1>5
  <2> HIDE DEF pin
  <2>9. /\ pins' \in [Pinnable -> Pin \cup {None}] /\ pinned' \in [Pinnable -> 0..MaxPins]
        /\ pins'[p] = pin /\ \A q \in Pinnable \ {p} : pins'[q] = pins[q] /\ pinned'[q] = pinned[q]
        /\ pinned'[p] >= 1
    BY <1>5, <2>6, <2>7, <2>8, AnchorDialogAssumption DEF DialogInv, DialogTypes
  <2>10. Live' = Live \cup {p}
    BY <2>7, <2>9 DEF Live
  <2>11. DialogTypes'
    BY <2>1, <2>2, <2>9, <2>10 DEF DialogInv, DialogTypes, Live
  <2>12. BetweenSaves'
    BY <1>1, <2>2 DEF BetweenSaves
  <2>13. OnlyOwnPins'
    BY <1>1, <2>2, <2>10 DEF DialogInv, OnlyOwnPins
  <2>14. SaveProgress'
    BY <1>1, <1>3, <2>2, <2>3, <2>4, <2>7, <2>9, <2>10 DEF DialogInv, SaveProgress
  <2> QED
    BY <2>11, <2>12, <2>13, <2>14 DEF DialogInv
<1> QED
  BY <1>4, <1>5 DEF AnchorOne, AlreadyAnchored

LEMMA RemoveOneKeeps ==
  ASSUME DialogInv, NEW p \in Pinnable, RemoveOne(p)
  PROVE  DialogInv'
<1> DEFINE pc == IF dialog.drop = {p} THEN "saved" ELSE "removing"
<1>1. /\ dialog.pc = "removing" /\ dialog \in DialogState /\ p \in dialog.drop
      /\ dialog.drop \in SUBSET Pinnable /\ UNCHANGED <<pinned, touched>>
      /\ pins' = [pins EXCEPT ![p] = None]
      /\ dialog' = [dialog EXCEPT !.drop = @ \ {p}, !.pc = pc]
  BY DEF RemoveOne, DialogInv, DialogTypes, DialogState
<1>2. pc \in {"removing", "saved"} /\ (pc = "saved" => dialog.drop \ {p} = {})
  OBVIOUS
<1> HIDE DEF pc
<1>3. /\ dialog' \in DialogState
      /\ dialog'.drop = dialog.drop \ {p} /\ dialog'.pc = pc /\ dialog'.want = dialog.want
      /\ dialog'.old = dialog.old /\ dialog'.kind = dialog.kind /\ dialog'.todo = dialog.todo
      /\ dialog'.new = dialog.new
  BY <1>1, <1>2 DEF DialogState, DialogPc
<1>4. Chosen' = Chosen /\ ToRemove' = ToRemove
      /\ Chosen \in SUBSET Pinnable /\ ToRemove \in SUBSET Pinnable /\ Chosen \cap ToRemove = {}
  BY <1>3 DEF Chosen, ToRemove
<1>5. /\ pins' \in [Pinnable -> Pin \cup {None}]
      /\ \A q \in Pinnable \ {p} : pins'[q] = pins[q]
      /\ Live' = Live \ {p}
  BY <1>1 DEF DialogInv, DialogTypes, Live
<1>6. p \in ToRemove /\ p \notin Chosen
  BY <1>1, <1>4 DEF DialogInv, SaveProgress
<1>7. DialogTypes'
  BY <1>1, <1>2, <1>3, <1>5 DEF DialogInv, DialogTypes
<1>8. BetweenSaves'
  BY <1>2, <1>3 DEF BetweenSaves
<1>9. OnlyOwnPins'
  BY <1>1, <1>3, <1>5 DEF DialogInv, OnlyOwnPins
<1>10. SaveProgress'
  BY <1>1, <1>2, <1>3, <1>4, <1>5, <1>6 DEF DialogInv, SaveProgress
<1> QED
  BY <1>7, <1>8, <1>9, <1>10 DEF DialogInv

LEMMA AnsweredKeeps ==
  ASSUME DialogInv, AnchorsAnswered
  PROVE  DialogInv'
<1> DEFINE pc == AfterAnchoring(dialog)
<1>1. /\ dialog.pc = "anchoring" /\ dialog.todo = {} /\ dialog \in DialogState
      /\ UNCHANGED <<pins, pinned, touched>> /\ dialog' = [dialog EXCEPT !.pc = pc]
  BY DEF AnchorsAnswered, DialogInv, DialogTypes
<1>2. pc \in {"removing", "saved"} /\ (pc = "saved" => dialog.kind = "recorder" \/ dialog.drop = {})
  BY <1>1 DEF AfterAnchoring, DialogState
<1>3. dialog.kind = "recorder" => dialog.drop = {}
  BY <1>1 DEF DialogInv, DialogTypes, SaveProgress, ToRemove, NoneOf
<1> HIDE DEF pc
<1>4. /\ dialog' \in DialogState
      /\ dialog'.drop = dialog.drop /\ dialog'.pc = pc /\ dialog'.want = dialog.want
      /\ dialog'.old = dialog.old /\ dialog'.kind = dialog.kind /\ dialog'.todo = dialog.todo
      /\ dialog'.new = dialog.new
  BY <1>1, <1>2 DEF DialogState, DialogPc
<1>5. Chosen' = Chosen /\ ToRemove' = ToRemove /\ Live' = Live
  BY <1>1, <1>4 DEF Chosen, ToRemove, Live
<1>6. DialogTypes'
  BY <1>1, <1>2, <1>4, <1>5 DEF DialogInv, DialogTypes
<1>7. BetweenSaves' /\ OnlyOwnPins'
  BY <1>1, <1>2, <1>4, <1>5 DEF DialogInv, BetweenSaves, OnlyOwnPins
<1>8. SaveProgress'
  BY <1>1, <1>2, <1>3, <1>4, <1>5 DEF DialogInv, SaveProgress
<1> QED
  BY <1>6, <1>7, <1>8 DEF DialogInv

\* The pins of the save that failed count as touched from then on.
LEMMA FailsKeeps ==
  ASSUME DialogInv, SaveFails
  PROVE  DialogInv'
<1> DEFINE pc == IF dialog.kind = "picker" THEN "edit" ELSE "partial"
<1>1. /\ dialog.pc \in {"anchoring", "removing"} /\ dialog \in DialogState
      /\ dialog' = [dialog EXCEPT !.pc = pc, !.todo = {}, !.drop = {}, !.new = {}]
      /\ touched' = touched \cup dialog.new /\ UNCHANGED <<pins, pinned>>
  BY DEF SaveFails, DialogInv, DialogTypes
<1>2. pc \in {"edit", "partial"} /\ (pc = "partial" => dialog.kind = "recorder")
  BY <1>1 DEF DialogState
<1> HIDE DEF pc
<1>3. dialog' \in DialogState
  <2> DEFINE c == [dialog EXCEPT !.pc = pc, !.todo = {}]
  <2>1. c \in DialogState
    BY <1>1, <1>2 DEF DialogState, DialogPc
  <2>2. dialog' = [c EXCEPT !.drop = {}, !.new = {}]
    BY <1>1 DEF DialogState
  <2> HIDE DEF c
  <2> QED
    BY <2>1, <2>2 DEF DialogState
<1>4. /\ dialog'.pc = pc /\ dialog'.todo = {} /\ dialog'.drop = {} /\ dialog'.new = {}
      /\ dialog'.kind = dialog.kind /\ dialog'.old = dialog.old
  BY <1>1 DEF DialogState
<1>5. \A p \in Pinnable \ touched' : p \in Live => dialog'.old[p] # None
  BY <1>1, <1>4 DEF DialogInv, OnlyOwnPins
<1>6. dialog'.kind = "recorder" => dialog'.old = NoneOf
  BY <1>4 DEF DialogInv, DialogTypes
<1> QED
  BY <1>1, <1>2, <1>3, <1>4, <1>5, <1>6, FormChanges

LEMMA ListingKeeps ==
  ASSUME DialogInv, withdrawn \in SUBSET Pinnable, AnchorsListed \/ ListingFails
  PROVE  DialogInv'
<1>1. /\ dialog \in DialogState /\ dialog.pc = "loading" /\ dialog.kind # "recorder"
      /\ dialog.todo = {} /\ dialog.drop = {} /\ dialog.new = {}
      /\ UNCHANGED <<pins, pinned>>
  BY DEF AnchorsListed, ListingFails, DialogInv, DialogTypes, BetweenSaves
<1> DEFINE want == [p \in Pinnable |-> IF p \in Live THEN pins[p].tag ELSE Out]
           old  == [p \in Pinnable |-> IF p \in Live THEN pins[p].no ELSE None]
<1>2. CASE AnchorsListed
  <2>1. \A p \in Live : pins[p] \in Pin
    BY DEF DialogInv, DialogTypes, Live
  <2>2. \A p \in Live : pins[p].tag \in Choice /\ pins[p].no \in 1..MaxPins
    BY <2>1 DEF Pin, Choice
  <2>3. want \in [Pinnable -> Choice] /\ old \in [Pinnable -> 1..MaxPins \cup {None}]
    BY <2>2 DEF Choice
  <2>4. \A p \in Pinnable : p \in Live => old[p] # None
    BY <2>2, AnchorDialogAssumption
  <2>5. dialog' = [dialog EXCEPT !.pc = "edit", !.want = want, !.old = old, !.barred = withdrawn]
    BY <1>2 DEF AnchorsListed
  <2> HIDE DEF want, old
  <2> DEFINE c == [dialog EXCEPT !.pc = "edit", !.want = want]
  <2>6. c \in DialogState
    BY <1>1, <2>3 DEF DialogState, DialogPc
  <2>7. dialog' = [c EXCEPT !.old = old, !.barred = withdrawn]
    BY <1>1, <2>5 DEF DialogState
  <2> HIDE DEF c
  <2>8. dialog' \in DialogState
    BY <2>3, <2>6, <2>7 DEF DialogState
  <2>9. /\ dialog'.pc = "edit" /\ dialog'.kind # "recorder" /\ dialog'.old = old
        /\ dialog'.todo = {} /\ dialog'.drop = {} /\ dialog'.new = {}
    BY <1>1, <2>5 DEF DialogState
  <2> QED
    BY <1>1, <2>4, <2>8, <2>9, FormChanges
<1>3. CASE ListingFails
  <2>1. dialog' = [dialog EXCEPT !.pc = "edit", !.barred = withdrawn] /\ touched' = Live
    BY <1>3 DEF ListingFails
  <2>2. dialog' \in DialogState
    BY <1>1, <2>1 DEF DialogState, DialogPc
  <2>3. /\ dialog'.pc = "edit" /\ dialog'.kind # "recorder"
        /\ dialog'.todo = {} /\ dialog'.drop = {} /\ dialog'.new = {}
    BY <1>1, <2>1 DEF DialogState
  <2> QED
    BY <1>1, <2>1, <2>2, <2>3, FormChanges
<1> QED
  BY <1>2, <1>3

\* The invariant of the dialogs is inductive.
LEMMA DialogNext1 ==
  ASSUME DialogInv, withdrawn \in SUBSET Pinnable, [AnchorDialogNext]_anchorDialogVars
  PROVE  DialogInv' /\ withdrawn' \in SUBSET Pinnable
<1>w. withdrawn' \in SUBSET Pinnable
  BY DEF AnchorDialogNext, anchorDialogVars, AnchorsListed, ListingFails, Save, SubmitRecord,
         Recorded, RecordFails, RetryAnchoring, AnchorsAnswered, SaveFails, Choose, AnchorOne,
         RemoveOne, OtherAnchors, OtherRemoves, Withdraw
<1> SUFFICES DialogInv'
  BY <1>w
<1>t. /\ dialog \in DialogState /\ (dialog.kind = "recorder" => dialog.old = NoneOf)
      /\ (dialog.pc \in {"recording", "partial"} => dialog.kind = "recorder")
  BY DEF DialogInv, DialogTypes
<1>e. dialog.pc \in {"edit", "recording", "partial"} =>
        /\ dialog.todo = {} /\ dialog.drop = {} /\ dialog.new = {}
        /\ \A p \in Pinnable \ touched : p \in Live => dialog.old[p] # None
  BY DEF DialogInv, BetweenSaves, OnlyOwnPins
<1>r. dialog.kind = "recorder" => ToRemove = {}
  BY <1>t DEF ToRemove, NoneOf
<1>1. CASE AnchorsListed \/ ListingFails
  BY <1>1, ListingKeeps
<1>2. ASSUME NEW p \in Pinnable, NEW choice \in Choice, Choose(p, choice) PROVE DialogInv'
  <2>1. dialog.pc = "edit" /\ dialog' = [dialog EXCEPT !.want[p] = choice]
        /\ UNCHANGED <<pins, pinned, touched>>
    BY <1>2 DEF Choose
  <2>2. dialog' \in DialogState
    BY <1>t, <2>1 DEF DialogState
  <2>3. /\ dialog'.pc = "edit" /\ dialog'.kind = dialog.kind /\ dialog'.old = dialog.old
        /\ dialog'.todo = dialog.todo /\ dialog'.drop = dialog.drop /\ dialog'.new = dialog.new
    BY <1>t, <2>1 DEF DialogState
  <2> QED
    BY <1>t, <1>e, <2>1, <2>2, <2>3, FormChanges
<1>3. CASE Save
  <2> DEFINE d == [dialog EXCEPT !.drop = ToRemove]
  <2>1. dialog.pc = "edit" /\ dialog' = Starts(d) /\ UNCHANGED <<pins, pinned, touched>>
    BY <1>3 DEF Save
  <2>2. d \in DialogState /\ d.drop = ToRemove /\ d.kind = dialog.kind
        /\ d.want = dialog.want /\ d.old = dialog.old
    BY <1>t DEF DialogState, ToRemove
  <2> HIDE DEF d
  <2> QED
    BY <2>1, <2>2, SaveStarts
<1>4. CASE SubmitRecord
  <2>1. dialog.pc = "edit" /\ dialog.kind = "recorder" /\ UNCHANGED <<pins, pinned, touched>>
        /\ dialog' = [dialog EXCEPT !.pc = "recording"]
    BY <1>4 DEF SubmitRecord
  <2>2. dialog' \in DialogState
    BY <1>t, <2>1 DEF DialogState, DialogPc
  <2>3. /\ dialog'.pc = "recording" /\ dialog'.kind = dialog.kind /\ dialog'.old = dialog.old
        /\ dialog'.todo = dialog.todo /\ dialog'.drop = dialog.drop /\ dialog'.new = dialog.new
    BY <1>t, <2>1 DEF DialogState
  <2> QED
    BY <1>t, <1>e, <2>1, <2>2, <2>3, FormChanges
<1>5. CASE Recorded
  <2> DEFINE d == [dialog EXCEPT !.recorded = TRUE]
  <2>1. dialog.pc = "recording" /\ dialog' = Starts(d) /\ UNCHANGED <<pins, pinned, touched>>
    BY <1>5 DEF Recorded
  <2>2. d \in DialogState /\ d.drop = ToRemove /\ d.kind = dialog.kind
        /\ d.want = dialog.want /\ d.old = dialog.old
    BY <1>t, <1>e, <1>r, <2>1 DEF DialogState
  <2> HIDE DEF d
  <2> QED
    BY <2>1, <2>2, SaveStarts
<1>6. CASE RecordFails
  <2>1. PICK recorded \in BOOLEAN : dialog' = [dialog EXCEPT !.pc = "edit", !.recorded = recorded]
    BY <1>t, <1>6 DEF RecordFails, DialogState
  <2>2. dialog.pc = "recording" /\ UNCHANGED <<pins, pinned, touched>>
    BY <1>6 DEF RecordFails
  <2>3. dialog' \in DialogState
    BY <1>t, <2>1 DEF DialogState, DialogPc
  <2>4. /\ dialog'.pc = "edit" /\ dialog'.kind = dialog.kind /\ dialog'.old = dialog.old
        /\ dialog'.todo = dialog.todo /\ dialog'.drop = dialog.drop /\ dialog'.new = dialog.new
    BY <1>t, <2>1 DEF DialogState
  <2> QED
    BY <1>t, <1>e, <2>2, <2>3, <2>4, FormChanges
<1>7. CASE RetryAnchoring
  <2>1. dialog.pc = "partial" /\ dialog' = Starts(dialog) /\ UNCHANGED <<pins, pinned, touched>>
    BY <1>7 DEF RetryAnchoring
  <2>2. dialog.drop = ToRemove
    BY <1>t, <1>e, <1>r, <2>1
  <2> QED
    BY <1>t, <2>1, <2>2, SaveStarts
<1>8. CASE AnchorsAnswered \/ SaveFails
  BY <1>8, AnsweredKeeps, FailsKeeps
<1>9. ASSUME NEW p \in Pinnable, AnchorOne(p) \/ RemoveOne(p) PROVE DialogInv'
  BY <1>9, AnchorOneKeeps, RemoveOneKeeps
<1>10. ASSUME NEW p \in Pinnable, OtherAnchors(p) PROVE DialogInv'
  <2> DEFINE pin == [tag |-> None, no |-> pinned[p] + 1]
  <2>1. /\ pinned[p] < MaxPins /\ pinned[p] \in 0..MaxPins
        /\ pins' = [pins EXCEPT ![p] = pin]
        /\ pinned' = [pinned EXCEPT ![p] = @ + 1]
        /\ touched' = touched \cup {p} /\ UNCHANGED dialog
    BY <1>10 DEF OtherAnchors, DialogInv, DialogTypes
  <2>2. pin \in Pin /\ pinned[p] + 1 \in 1..MaxPins
    BY <2>1, AnchorDialogAssumption DEF Pin
  <2> HIDE DEF pin
  <2>3. /\ pins' \in [Pinnable -> Pin \cup {None}] /\ pinned' \in [Pinnable -> 0..MaxPins]
        /\ \A q \in Pinnable \ {p} : pins'[q] = pins[q] /\ pinned'[q] = pinned[q]
        /\ pinned'[p] >= 1
    BY <2>1, <2>2, AnchorDialogAssumption DEF DialogInv, DialogTypes
  <2> QED
    BY <2>1, <2>3, OthersChange
<1>11. ASSUME NEW p \in Pinnable, OtherRemoves(p) PROVE DialogInv'
  <2>1. /\ pins' = [pins EXCEPT ![p] = None] /\ UNCHANGED <<pinned, dialog>>
        /\ touched' = touched \cup {p}
    BY <1>11 DEF OtherRemoves
  <2>2. /\ pins' \in [Pinnable -> Pin \cup {None}] /\ pinned' \in [Pinnable -> 0..MaxPins]
        /\ \A q \in Pinnable \ {p} : pins'[q] = pins[q] /\ pinned'[q] = pinned[q]
        /\ pins'[p] = None
    BY <2>1 DEF DialogInv, DialogTypes
  <2> QED
    BY <2>1, <2>2, OthersChange
<1>12. ASSUME UNCHANGED <<pins, pinned, dialog, touched>> PROVE DialogInv'
  <2>1. Live' = Live /\ Chosen' = Chosen /\ ToRemove' = ToRemove
    BY <1>12 DEF Live, Chosen, ToRemove
  <2> QED
    BY <1>12, <2>1 DEF DialogInv, DialogTypes, BetweenSaves, OnlyOwnPins, SaveProgress
<1>13. ASSUME NEW p \in Pinnable, Withdraw(p) PROVE DialogInv'
  BY <1>12, <1>13 DEF Withdraw
<1>14. CASE UNCHANGED anchorDialogVars
  BY <1>12, <1>14 DEF anchorDialogVars
<1> QED
  BY <1>1, <1>2, <1>3, <1>4, <1>5, <1>6, <1>7, <1>8, <1>9, <1>10, <1>11, <1>13, <1>14
     DEF AnchorDialogNext

\* When the dialog reports success, what is checked is pinned and the rest is
\* not, whatever failed before and whatever others did to other products.
THEOREM SavesArePinned == AnchorDialogSpec => []SavedMeansPinned
<1>1. DialogInv => SavedMeansPinned
  BY DEF DialogInv, OnlyOwnPins, SaveProgress, SavedMeansPinned, ToRemove, Chosen, Live
<1>2. AnchorDialogInit => DialogInv /\ withdrawn \in SUBSET Pinnable
  BY DialogInit1 DEF AnchorDialogInit
<1>3. DialogInv /\ withdrawn \in SUBSET Pinnable /\ [AnchorDialogNext]_anchorDialogVars
        => (DialogInv /\ withdrawn \in SUBSET Pinnable)'
  BY DialogNext1
<1> QED
  BY <1>1, <1>2, <1>3, PTL DEF AnchorDialogSpec

\* The numbers a dialog holds are of anchors the target has had.
NumbersOK ==
  /\ withdrawn \subseteq Pinnable /\ touched \subseteq Pinnable
  /\ \A p \in Pinnable : pins[p] # None => pins[p].no <= pinned[p]
  /\ \A p \in Pinnable : dialog.old[p] # None => dialog.old[p] <= pinned[p]

\* A dialog opens with nothing listed, over pins that are first ones.
LEMMA NumbersInit == AnchorDialogInit => NumbersOK
<1> SUFFICES ASSUME AnchorDialogInit PROVE NumbersOK
  OBVIOUS
<1>1. PICK kind \in {"picker", "recorder"}, live \in SUBSET Pinnable :
        /\ pins = [p \in Pinnable |-> IF p \in live THEN [tag |-> None, no |-> 1] ELSE None]
        /\ pinned = [p \in Pinnable |-> IF p \in live THEN 1 ELSE 0]
        /\ dialog = [kind |-> kind, pc |-> IF kind = "picker" THEN "loading" ELSE "edit",
                     want |-> Nothing, old |-> NoneOf, barred |-> {},
                     todo |-> {}, drop |-> {}, new |-> {}, recorded |-> FALSE]
  BY DEF AnchorDialogInit
<1>2. dialog.old = NoneOf
  BY <1>1
<1>3. \A p \in Pinnable : pins[p] # None => pins[p].no = 1 /\ pinned[p] = 1
  BY <1>1
<1> QED
  BY <1>2, <1>3 DEF AnchorDialogInit, NumbersOK, NoneOf

\* A save leaves the list it was opened with.
LEMMA StartsKeepsList ==
  ASSUME NEW d \in DialogState PROVE Starts(d).old = d.old
BY DEF Starts, DialogState

\* Only listing writes the list.
LEMMA ListIsKept ==
  ASSUME DialogInv, AnchorDialogNext, ~AnchorsListed
  PROVE  dialog'.old = dialog.old
<1>t. dialog \in DialogState
  BY DEF DialogInv, DialogTypes
<1>1. CASE Save
  <2>1. [dialog EXCEPT !.drop = ToRemove] \in DialogState
    BY <1>t DEF DialogState, ToRemove
  <2> QED
    BY <1>t, <1>1, <2>1, StartsKeepsList DEF Save, DialogState
<1>2. CASE Recorded
  <2>1. [dialog EXCEPT !.recorded = TRUE] \in DialogState
    BY <1>t DEF DialogState
  <2> QED
    BY <1>t, <1>2, <2>1, StartsKeepsList DEF Recorded, DialogState
<1>3. CASE RetryAnchoring
  BY <1>t, <1>3, StartsKeepsList DEF RetryAnchoring
<1>4. CASE ListingFails \/ SubmitRecord \/ RecordFails \/ AnchorsAnswered \/ SaveFails
  BY <1>t, <1>4 DEF DialogState, ListingFails, SubmitRecord, RecordFails, AnchorsAnswered, SaveFails
<1>5. ASSUME NEW p \in Pinnable,
             \/ \E choice \in Choice : Choose(p, choice)
             \/ AnchorOne(p) \/ RemoveOne(p)
             \/ OtherAnchors(p) \/ OtherRemoves(p) \/ Withdraw(p)
      PROVE  dialog'.old = dialog.old
  BY <1>t, <1>5 DEF DialogState, Choose, AnchorOne, RemoveOne, OtherAnchors, OtherRemoves, Withdraw
<1> QED
  BY <1>1, <1>2, <1>3, <1>4, <1>5 DEF AnchorDialogNext

\* A pin's number is the count of pins at the time, and counts only grow.
PinsOnly(p) ==
  \/ UNCHANGED <<pins, pinned>>
  \/ pins' = [pins EXCEPT ![p] = None] /\ UNCHANGED pinned
  \/ /\ pinned' = [pinned EXCEPT ![p] = @ + 1]
     /\ \E tag \in Choice : pins' = [pins EXCEPT ![p] = [tag |-> tag, no |-> pinned[p] + 1]]

\* Whoever pins, numbers and counts go up together.
LEMMA PinsOnlyKeeps ==
  ASSUME DialogInv, NumbersOK, NEW p \in Pinnable, PinsOnly(p)
  PROVE  /\ \A q \in Pinnable : pinned[q] <= pinned'[q]
         /\ \A q \in Pinnable : pins'[q] # None => pins'[q].no <= pinned'[q]
<1>t. pins \in [Pinnable -> Pin \cup {None}] /\ pinned \in [Pinnable -> 0..MaxPins]
  BY DEF DialogInv, DialogTypes
<1>n. \A q \in Pinnable : pinned[q] \in Nat
  BY <1>t, AnchorDialogAssumption
<1> QED
  BY <1>t, <1>n DEF PinsOnly, NumbersOK

\* No step leaves a dialog with an anchor the target never had.
LEMMA NumbersNext ==
  DialogInv /\ NumbersOK /\ [AnchorDialogNext]_anchorDialogVars => NumbersOK'
<1> SUFFICES ASSUME DialogInv, NumbersOK, [AnchorDialogNext]_anchorDialogVars PROVE NumbersOK'
  OBVIOUS
<1>t. /\ pins \in [Pinnable -> Pin \cup {None}] /\ pinned \in [Pinnable -> 0..MaxPins]
      /\ dialog \in DialogState
  BY DEF DialogInv, DialogTypes
<1>n. \A q \in Pinnable : pinned[q] \in Nat /\ (dialog.old[q] # None => dialog.old[q] \in Nat)
  BY <1>t, AnchorDialogAssumption DEF DialogState
<1>c. \A q \in Pinnable : dialog.want[q] \in Choice
  BY <1>t DEF DialogState
<1>1. CASE UNCHANGED anchorDialogVars
  BY <1>1 DEF anchorDialogVars, NumbersOK
<1>2. CASE AnchorsListed
  <2>1. \A p \in Pinnable : dialog'.old[p] # None => dialog'.old[p] = pins[p].no /\ pins[p] # None
    BY <1>t, <1>2 DEF AnchorsListed, Live, DialogState
  <2> QED
    BY <1>2, <2>1 DEF AnchorsListed, NumbersOK
<1>3. ASSUME AnchorDialogNext, ~AnchorsListed PROVE NumbersOK'
  <2>1. withdrawn' \subseteq Pinnable /\ touched' \subseteq Pinnable
    BY ZenonT(60), <1>t, <1>3 DEF NumbersOK, AnchorDialogNext, ListingFails, Save, SubmitRecord, Recorded, RecordFails,
         RetryAnchoring, AnchorsAnswered, SaveFails, Choose, AnchorOne, RemoveOne, OtherAnchors,
         OtherRemoves, Withdraw, Live, DialogState
  <2>2. UNCHANGED <<pins, pinned>> \/ \E p \in Pinnable : PinsOnly(p)
    BY <1>c, <1>3 DEF PinsOnly, AnchorDialogNext, ListingFails, Save, SubmitRecord, Recorded, RecordFails,
         RetryAnchoring, AnchorsAnswered, SaveFails, Choose, AnchorOne, RemoveOne, OtherAnchors,
         OtherRemoves, Withdraw, Choice
  <2>3. /\ \A q \in Pinnable : pinned[q] <= pinned'[q]
        /\ \A q \in Pinnable : pins'[q] # None => pins'[q].no <= pinned'[q]
    <3>1. CASE UNCHANGED <<pins, pinned>>
      BY <1>n, <3>1 DEF NumbersOK
    <3> QED
      BY <2>2, <3>1, PinsOnlyKeeps
  <2>4. \A q \in Pinnable : pinned'[q] \in Nat
    <3>1. CASE UNCHANGED <<pins, pinned>>
      BY <1>n, <3>1
    <3>2. ASSUME NEW p \in Pinnable, PinsOnly(p) PROVE \A q \in Pinnable : pinned'[q] \in Nat
      BY <1>t, <1>n, <3>2 DEF PinsOnly
    <3> QED
      BY <2>2, <3>1, <3>2
  <2>5. dialog'.old = dialog.old
    BY <1>3, ListIsKept
  <2> QED
    BY SMTT(40), <1>n, <2>1, <2>3, <2>4, <2>5 DEF NumbersOK
<1> QED
  BY <1>1, <1>2, <1>3

\* The dialog keeps its types: what it lists are anchors the target has had,
\* and what it has in hand are products of the shop.
LEMMA DialogTypesHold == AnchorDialogSpec => []AnchorDialogTypeOK
<1>1. DialogInv /\ NumbersOK => AnchorDialogTypeOK
  <2> SUFFICES ASSUME DialogInv, NumbersOK PROVE AnchorDialogTypeOK
    OBVIOUS
  <2>1. /\ pins \in [Pinnable -> Pin \cup {None}] /\ pinned \in [Pinnable -> 0..MaxPins]
        /\ dialog \in DialogState
    BY DEF DialogInv, DialogTypes
  <2>2. \A p \in Pinnable : pins[p] # None => pins[p] \in [tag : {None} \cup Tag, no : 1..pinned[p]]
    <3> SUFFICES ASSUME NEW p \in Pinnable, pins[p] # None
                 PROVE  pins[p] \in [tag : {None} \cup Tag, no : 1..pinned[p]]
      OBVIOUS
    <3>1. pins[p] \in Pin /\ pins[p].no <= pinned[p] /\ pinned[p] \in 0..MaxPins
      BY <2>1 DEF NumbersOK
    <3> QED
      BY <3>1, AnchorDialogAssumption DEF Pin
  <2>3. \A p \in Pinnable : dialog.old[p] # None => dialog.old[p] \in 1..pinned[p]
    <3> SUFFICES ASSUME NEW p \in Pinnable, dialog.old[p] # None PROVE dialog.old[p] \in 1..pinned[p]
      OBVIOUS
    <3>1. dialog.old[p] \in 1..MaxPins /\ dialog.old[p] <= pinned[p] /\ pinned[p] \in 0..MaxPins
      BY <2>1 DEF NumbersOK, DialogState
    <3> QED
      BY <3>1, AnchorDialogAssumption
  <2> QED
    BY <2>1, <2>2, <2>3 DEF AnchorDialogTypeOK, DialogState, DialogPc, NumbersOK
<1>2. AnchorDialogInit => DialogInv /\ NumbersOK /\ withdrawn \in SUBSET Pinnable
  BY DialogInit1, NumbersInit DEF AnchorDialogInit
<1>3. DialogInv /\ NumbersOK /\ withdrawn \in SUBSET Pinnable /\ [AnchorDialogNext]_anchorDialogVars
        => (DialogInv /\ NumbersOK /\ withdrawn \in SUBSET Pinnable)'
  BY DialogNext1, NumbersNext
<1> QED
  BY <1>1, <1>2, <1>3, PTL DEF AnchorDialogSpec

-----------------------------------------------------------------------------
(* The screens: unless it is excused, whatever the screen fails to show is *)
(* on its way, in a load that no later one has overtaken.                  *)

WriteNames == UNION {s.writes : s \in AllScreens}

TaskState == [pc : Phase, view : AnyView, write : WriteNames \cup {None},
              version : 0..MaxRows \cup {None}]

ScreenTypes ==
  /\ screen \in [kind : AllScreens, at : {"closed", "loading", "open", "left"}, view : AnyView,
                 shown : [view : AnyView, version : 0..MaxRows] \cup {None},
                 count : 0..MaxRows \cup {None}, error : BOOLEAN, token : BOOLEAN]
  /\ task \in [Task -> TaskState \cup {Idle}]
  /\ rows \in 0..MaxRows
  /\ memory \in Memory

Busy(t) == task[t] # Idle
AwaitsRows(t) == Busy(t) /\ task[t].pc \in {"asked", "answered"}
WritesRow(t) == Busy(t) /\ task[t].pc \in {"sent", "applied"}
Wiping == \E t \in Task : WritesRow(t) /\ task[t].write \in screen.kind.wipes
Opening == screen.at = "loading" /\ \E t \in Task : At(t, "session")

\* What a handler call knows, and which calls a screen may have under way.
TasksOK ==
  /\ memory.mine <= rows
  /\ \A t \in Task : Busy(t) =>
       /\ task[t].pc # "counted" => task[t].version \in 0..MaxRows
       /\ task[t].pc = "applied" => task[t].version <= rows
       /\ task[t].pc \in {"sent", "applied"} => task[t].write \in screen.kind.writes
       /\ task[t].pc \in {"counting", "counted"} => screen.kind.counted
       /\ task[t].pc = "resetting" => PageToReset(t)
       /\ task[t].pc = "session" => task[t].write = None
       /\ screen.at \in {"loading", "open"}
  /\ screen.at = "loading" =>
       \A t, u \in Task : At(t, "session") /\ Busy(u) => u = t
  /\ screen.at = "closed" => screen.count = None
  /\ ~screen.kind.counted => screen.count = None

\* Loads that are awaited have been asked one after the other; of the one whose
\* rows were shown all older ones are late, and of a late one as well.
OrderOK ==
  /\ memory.late \subseteq Loading
  /\ memory.stale \subseteq Loading
  /\ memory.before \subseteq Loading \X Loading
  /\ \A t \in Loading : <<t, t>> \notin memory.before
  /\ \A t, u \in Loading : t # u => <<t, u>> \in memory.before \/ <<u, t>> \in memory.before
  /\ \A t, u, v \in Loading :
       <<t, u>> \in memory.before /\ <<u, v>> \in memory.before => <<t, v>> \in memory.before
  /\ \A t, u \in Loading : <<u, t>> \in memory.before /\ ~AwaitsRows(t) => u \in memory.late
  /\ \A t, u \in Loading : <<u, t>> \in memory.before /\ t \in memory.late => u \in memory.late

\* The load will show the rows that are wanted; or it is excused.
RowsGood(t) ==
  /\ task[t].view = Wanted(task[t].write)
  /\ task[t].pc = "answered" => task[t].version >= memory.mine

RowsComing(t) ==
  AwaitsRows(t) /\ t \notin memory.late /\ (t \in memory.stale \/ RowsGood(t))

RowsCovered ==
  \A x \in Task : AwaitsRows(x) /\ x \notin memory.late /\ x \notin memory.stale /\ ~RowsGood(x) =>
    \E t \in Task : RowsComing(t) /\ <<x, t>> \in memory.before

\* The view the rows are to be of: a sync is about to set the page back.
Due ==
  IF \E t \in Task : At(t, "resetting") /\ t \notin memory.late
    THEN FirstPage(screen.view) ELSE screen.view

RowsFresh ==
  screen.shown # None /\ screen.shown.view = Due /\ screen.shown.version >= memory.mine

RowsPromised ==
  screen.at \in {"loading", "open"} =>
    \/ screen.error \/ Wiping \/ Opening
    \/ "rows" \in memory.astray
    \/ RowsFresh
    \/ \E t \in Task : RowsComing(t)

CountGood(t) ==
  task[t].pc = "counted" => task[t].version = None \/ task[t].version >= memory.mine

CountComing(t) == t \in Loading /\ t \notin memory.late /\ CountGood(t)

CountsCovered ==
  \A x \in Loading : x \notin memory.late /\ ~CountGood(x) =>
    \E t \in Task : CountComing(t) /\ <<x, t>> \in memory.before

CountsPromised ==
  screen.at \in {"loading", "open"} =>
    \/ screen.error \/ Wiping
    \/ "counts" \in memory.astray
    \/ screen.count = None \/ screen.count >= memory.mine
    \/ \E t \in Task : CountComing(t)

ScreenInv ==
  /\ ScreenTypes /\ TasksOK /\ OrderOK
  /\ RowsCovered /\ RowsPromised
  /\ CountsCovered /\ CountsPromised

\* What the ten screens have in common.
LEMMA KindFacts ==
  ASSUME NEW s \in AllScreens
  PROVE  /\ None \notin s.first /\ None \notin s.writes
         /\ s.wipes \subseteq s.reloads
         /\ \A w \in s.wipes : ~FromDialog(w)
         /\ \A w \in s.writes \ s.reloads : w \in RowsUnchanged
         /\ s.writes \subseteq WriteNames
         /\ s.counted => s.first = {}
         /\ Views(s) \subseteq AnyView
<1>1. None \notin s.writes /\ s.writes \subseteq WriteNames
  BY ScreensAssumption DEF WriteNames
<1>2. s.first \subseteq s.writes
  BY DEF AllScreens, PostsScreen, ContentScreen, CommentsScreen, PaidScreen, ProductsScreen,
         PlacementsScreen, ConversionsScreen, SchedulerScreen, DashboardScreen, SettingsScreen
<1>3. s.wipes \subseteq s.reloads
  BY DEF AllScreens, PostsScreen, ContentScreen, CommentsScreen, PaidScreen, ProductsScreen,
         PlacementsScreen, ConversionsScreen, SchedulerScreen, DashboardScreen, SettingsScreen
<1>4. \A w \in s.wipes : ~FromDialog(w)
  BY DEF AllScreens, PostsScreen, ContentScreen, CommentsScreen, PaidScreen, ProductsScreen,
         PlacementsScreen, ConversionsScreen, SchedulerScreen, DashboardScreen, SettingsScreen,
         FromDialog
<1>5. \A w \in s.writes \ s.reloads : w \in RowsUnchanged
  BY DEF AllScreens, PostsScreen, ContentScreen, CommentsScreen, PaidScreen, ProductsScreen,
         PlacementsScreen, ConversionsScreen, SchedulerScreen, DashboardScreen, SettingsScreen,
         RowsUnchanged, PostDialogs
<1>6. s.pages \subseteq {1, 2}
  BY DEF AllScreens, PostsScreen, ContentScreen, CommentsScreen, PaidScreen, ProductsScreen,
         PlacementsScreen, ConversionsScreen, SchedulerScreen, DashboardScreen, SettingsScreen
<1>7. Views(s) \subseteq AnyView
  BY <1>6 DEF Views, Filters, AnyView
<1>8. s.counted = FALSE \/ s.first = {}
  BY DEF AllScreens, PostsScreen, ContentScreen, CommentsScreen, PaidScreen, ProductsScreen,
         PlacementsScreen, ConversionsScreen, SchedulerScreen, DashboardScreen, SettingsScreen
<1> QED
  BY <1>1, <1>2, <1>3, <1>4, <1>5, <1>7, <1>8

\* A call under way is one, and awaits what its phase says.
LEMMA CallFacts ==
  ASSUME ScreenTypes, NEW t \in Task, NEW pc, At(t, pc)
  PROVE  task[t] \in TaskState /\ task[t].pc = pc /\ Busy(t) /\ (t \in Loading <=> pc \in LoadPhase)
BY DEF At, Busy, ScreenTypes, Loading

\* What each of the operators on the history changes.
LEMMA OvertakesIs ==
  ASSUME NEW m \in Memory, NEW t \in Task
  PROVE  LET n == Overtakes(m, t) IN
         /\ n \in Memory
         /\ n.mine = m.mine /\ n.before = m.before /\ n.stale = m.stale /\ n.astray = m.astray
         /\ n.late = m.late \cup {u \in Task : <<u, t>> \in m.before}
BY DEF Overtakes, Memory

LEMMA ForgetIs ==
  ASSUME NEW m \in Memory, NEW t \in Task
  PROVE  LET n == Forget(m, t) IN
         /\ n \in Memory
         /\ n.mine = m.mine /\ n.astray = m.astray
         /\ n.late = m.late \ {t} /\ n.stale = m.stale \ {t}
         /\ n.before \subseteq m.before
         /\ \A u, v : <<u, v>> \in n.before <=> <<u, v>> \in m.before /\ u # t /\ v # t
<1> DEFINE B == {p \in m.before : t \notin {p[1], p[2]}}
<1>1. B \subseteq m.before
  OBVIOUS
<1>2. \A u, v : <<u, v>> \in B <=> <<u, v>> \in m.before /\ t \notin {<<u, v>>[1], <<u, v>>[2]}
  OBVIOUS
<1>3. \A u, v : <<u, v>>[1] = u /\ <<u, v>>[2] = v
  OBVIOUS
<1>4. \A u, v : <<u, v>> \in B <=> <<u, v>> \in m.before /\ u # t /\ v # t
  <2> HIDE DEF B
  <2> QED
    BY <1>2, <1>3
<1>5. Forget(m, t) = [m EXCEPT !.before = B, !.late = @ \ {t}, !.stale = @ \ {t}]
  BY Zenon DEF Forget
<1> HIDE DEF B
<1>6. /\ Forget(m, t).mine = m.mine /\ Forget(m, t).astray = m.astray
      /\ Forget(m, t).late = m.late \ {t} /\ Forget(m, t).stale = m.stale \ {t}
      /\ Forget(m, t).before = B
  BY <1>5 DEF Memory
<1>7. Forget(m, t) \in Memory
  BY <1>1, <1>5 DEF Memory
<1> QED
  BY <1>1, <1>4, <1>6, <1>7

LEMMA ScreenInit1 == ScreenInit => ScreenInv
<1> SUFFICES ASSUME ScreenInit PROVE ScreenInv
  OBVIOUS
<1>1. PostsScreen \in AllScreens /\ FirstView \in AnyView
  BY DEF AllScreens, FirstView, AnyView
<1>2. NoMemory \in Memory
  BY ScreensAssumption DEF NoMemory, Memory
<1>3. ScreenTypes
  BY <1>1, <1>2, ScreensAssumption DEF ScreenInit, Blank, ScreenTypes
<1>4. \A t \in Task : ~Busy(t)
  BY DEF ScreenInit, Busy
<1>5. Loading = {}
  BY <1>4 DEF Loading, Busy
<1>6. /\ memory.mine = 0 /\ rows = 0 /\ screen.at = "closed" /\ screen.count = None
      /\ memory.late = {} /\ memory.stale = {} /\ memory.before = {}
  BY DEF ScreenInit, NoMemory, Blank
<1>7. TasksOK /\ OrderOK
  BY <1>4, <1>5, <1>6 DEF TasksOK, OrderOK
<1>8. RowsCovered /\ RowsPromised /\ CountsCovered /\ CountsPromised
  BY <1>4, <1>5, <1>6 DEF RowsCovered, RowsPromised, CountsCovered, CountsPromised, AwaitsRows
<1> QED
  BY <1>3, <1>7, <1>8 DEF ScreenInv

-----------------------------------------------------------------------------
(* Steps that ask for rows.  The new load is asked last: whatever the step *)
(* makes the others miss, it will bring.                                   *)

\* Call t asks for the rows of the view wanted, or its load is stale.
Asks(t) ==
  /\ t \notin Loading /\ task'[t] # Idle /\ task'[t].pc = "asked"
  /\ \A u \in Task \ {t} :
       task'[u] = task[u] \/ (task[u] = Idle /\ task'[u] # Idle /\ task'[u].pc = "session")
  /\ memory'.late = memory.late
  /\ memory'.before = memory.before \cup (Loading \X {t})
  /\ \/ task'[t].view = (Wanted(task[t].write))' /\ task'[t].write = task[t].write
                       /\ memory'.stale = memory.stale
     \/ task'[t].view = (Wanted(None))' /\ task'[t].write = None /\ memory'.stale = memory.stale
     \/ memory'.stale = memory.stale \cup {t}

LEMMA AskKeeps ==
  ASSUME ScreenInv, NEW t \in Task, Asks(t)
  PROVE  OrderOK' /\ RowsCovered' /\ RowsPromised' /\ CountsCovered' /\ CountsPromised'
<1>1. Loading' = Loading \cup {t}
  BY DEF Asks, Loading, LoadPhase
<1>2. \A u, v \in Task : <<u, v>> \in memory'.before <=>
        <<u, v>> \in memory.before \/ (u \in Loading /\ v = t)
  BY DEF Asks
<1>3. /\ memory'.late = memory.late /\ memory.late \subseteq Loading /\ t \notin Loading
      /\ memory'.stale \in {memory.stale, memory.stale \cup {t}} /\ memory.stale \subseteq Loading
      /\ memory.before \subseteq Loading \X Loading /\ Loading \subseteq Task
  BY DEF Asks, ScreenInv, OrderOK, Loading
<1>4. (AwaitsRows(t))' /\ \A u \in Loading : (AwaitsRows(u))' <=> AwaitsRows(u)
  BY <1>3 DEF Asks, AwaitsRows, Busy
<1>5. OrderOK'
  <2>1. memory'.before \subseteq Loading' \X Loading'
    BY <1>1, <1>3 DEF Asks
  <2>2. /\ \A u \in Loading' : <<u, u>> \notin memory'.before
        /\ \A u, v \in Loading' : u # v => <<u, v>> \in memory'.before \/ <<v, u>> \in memory'.before
    BY <1>1, <1>2, <1>3 DEF ScreenInv, OrderOK
  <2>3. \A u, v, x \in Loading' :
          <<u, v>> \in memory'.before /\ <<v, x>> \in memory'.before => <<u, x>> \in memory'.before
    BY <1>1, <1>2, <1>3 DEF ScreenInv, OrderOK
  <2>4. \A u, v \in Loading' : <<v, u>> \in memory'.before /\ ~(AwaitsRows(u))' => v \in memory'.late
    BY <1>1, <1>2, <1>3, <1>4 DEF ScreenInv, OrderOK
  <2>5. \A u, v \in Loading' : <<v, u>> \in memory'.before /\ u \in memory'.late => v \in memory'.late
    BY <1>1, <1>2, <1>3 DEF ScreenInv, OrderOK
  <2> QED
    BY <1>1, <1>3, <2>1, <2>2, <2>3, <2>4, <2>5 DEF OrderOK
<1>6. (RowsComing(t))'
  BY <1>3, <1>4 DEF Asks, RowsComing, RowsGood
<1>7. (CountComing(t))'
  BY <1>1, <1>3 DEF Asks, CountComing, CountGood
<1>8. \A u \in Task : (AwaitsRows(u))' => u \in Loading'
  BY DEF AwaitsRows, Busy, Loading, LoadPhase
<1>9. RowsCovered'
  BY <1>1, <1>2, <1>6, <1>8 DEF RowsCovered, RowsComing
<1>10. CountsCovered'
  BY <1>1, <1>2, <1>3, <1>7 DEF CountsCovered, CountComing
<1> QED
  BY <1>5, <1>6, <1>7, <1>9, <1>10 DEF RowsPromised, CountsPromised

-----------------------------------------------------------------------------
(* Steps that neither ask for rows nor show any: what was promised still is.*)

\* A load goes on as it was, or its rows, or its counts, are read now.
GoesOn(t) ==
  /\ task'[t].view = task[t].view /\ task'[t].write = task[t].write
  /\ \/ task'[t].pc = task[t].pc /\ task'[t].version = task[t].version
     \/ task[t].pc = "asked" /\ task'[t].pc = "answered" /\ task'[t].version = rows
     \/ task[t].pc = "counting" /\ task'[t].pc = "counted" /\ task'[t].version \in {None, rows}

Calm ==
  /\ screen'.kind = screen.kind /\ screen'.view = screen.view
  /\ screen'.shown = screen.shown /\ screen'.count = screen.count
  /\ screen'.at \in {"loading", "open"} => screen.at \in {"loading", "open"}
  /\ memory'.mine = memory.mine /\ memory'.before = memory.before
  /\ memory'.late = memory.late /\ memory'.stale = memory.stale
  /\ memory.astray \subseteq memory'.astray
  /\ Loading' = Loading
  /\ \A t \in Loading : GoesOn(t)
  /\ screen.error \/ Wiping =>
       (screen.error \/ Wiping)' \/ {"rows", "counts"} \subseteq memory'.astray
  /\ Opening => Opening' \/ screen'.error

LEMMA LoadingAre ==
  \A t \in Task : /\ t \in Loading <=> Busy(t) /\ task[t].pc \in LoadPhase
                  /\ AwaitsRows(t) => t \in Loading
BY DEF Loading, Busy, AwaitsRows, LoadPhase

LEMMA CalmKeeps ==
  ASSUME ScreenInv, Calm
  PROVE  OrderOK' /\ RowsCovered' /\ RowsPromised' /\ CountsCovered' /\ CountsPromised'
<1>1. memory'.mine <= rows /\ memory.mine \in 0..MaxRows /\ rows \in 0..MaxRows
  BY DEF ScreenInv, ScreenTypes, TasksOK, Memory, Calm
<1>2. \A t \in Task : /\ t \in Loading' <=> t \in Loading
                      /\ (AwaitsRows(t))' <=> AwaitsRows(t)
                      /\ (At(t, "resetting"))' <=> At(t, "resetting")
  <2>1. SUFFICES ASSUME NEW t \in Task, t \in Loading
                 PROVE  /\ (AwaitsRows(t))' <=> AwaitsRows(t)
                        /\ (At(t, "resetting"))' <=> At(t, "resetting")
    BY DEF Calm, Loading, AwaitsRows, At, Busy, LoadPhase
  <2> QED
    BY <2>1 DEF Calm, GoesOn, Loading, AwaitsRows, At, Busy
<1>3. \A t \in Task : AwaitsRows(t) => (RowsGood(t) <=> (RowsGood(t))')
  <2> SUFFICES ASSUME NEW t \in Task, AwaitsRows(t) PROVE RowsGood(t) <=> (RowsGood(t))'
    OBVIOUS
  <2>1. GoesOn(t)
    BY LoadingAre DEF Calm
  <2>2. (Wanted(task[t].write))' = Wanted(task[t].write)
    BY <2>1 DEF Calm, GoesOn, Wanted
  <2>3. task[t].pc \in {"asked", "answered"}
    BY DEF AwaitsRows
  <2> QED
    BY <1>1, <2>1, <2>2, <2>3 DEF Calm, GoesOn, RowsGood
<1>4. \A t \in Task : RowsComing(t) <=> (RowsComing(t))'
  BY <1>2, <1>3 DEF Calm, RowsComing
<1>5. \A t \in Loading : CountGood(t) => (CountGood(t))'
  BY <1>1 DEF Calm, GoesOn, CountGood
<1>6. \A t \in Task : CountComing(t) => (CountComing(t))'
  BY <1>2, <1>5 DEF Calm, CountComing
<1>7. OrderOK'
  BY <1>2 DEF Calm, ScreenInv, OrderOK, Loading
<1>8. RowsCovered'
  BY <1>2, <1>3, <1>4 DEF Calm, ScreenInv, RowsCovered
<1>9. CountsCovered'
  <2> SUFFICES ASSUME NEW x \in Loading', x \notin memory'.late, ~(CountGood(x))'
               PROVE  \E t \in Task : (CountComing(t))' /\ <<x, t>> \in memory'.before
    BY DEF CountsCovered
  <2>1. x \in Loading /\ x \notin memory.late /\ ~CountGood(x)
    BY <1>5 DEF Calm
  <2>2. PICK t \in Task : CountComing(t) /\ <<x, t>> \in memory.before
    BY <2>1 DEF ScreenInv, CountsCovered
  <2> QED
    BY <1>6, <2>2 DEF Calm
<1>10. Due' = Due
  BY <1>2 DEF Calm, Due
<1>11. RowsFresh' <=> RowsFresh
  BY <1>10 DEF Calm, RowsFresh
<1>12. RowsPromised'
  BY <1>4, <1>11 DEF Calm, ScreenInv, RowsPromised
<1>13. CountsPromised'
  BY <1>6 DEF Calm, ScreenInv, CountsPromised
<1> QED
  BY <1>7, <1>8, <1>9, <1>12, <1>13

-----------------------------------------------------------------------------
(* Steps of a load that leaves its rows behind: what it overtakes is late, *)
(* and what is not late keeps its promise.                                 *)

Before(t) == {u \in Task : <<u, t>> \in memory.before}

\* Load t has shown rows, or failed, and has perhaps no more to do.
Leaves(t) ==
  /\ t \in Loading
  /\ screen'.kind = screen.kind
  /\ memory'.mine = memory.mine
  /\ \A u \in Task \ {t} : task'[u] = task[u]
  /\ \/ /\ task'[t] = Idle
        /\ memory'.late = (memory.late \cup Before(t)) \ {t}
        /\ \A u, v : <<u, v>> \in memory'.before <=> <<u, v>> \in memory.before /\ u # t /\ v # t
     \/ /\ task'[t] # Idle /\ task'[t].pc \in {"counting", "resetting"}
        /\ memory'.late = memory.late \cup Before(t)
        /\ memory'.before = memory.before
  /\ memory'.before \subseteq memory.before
  /\ memory'.stale \subseteq Loading'

\* What the lemmas that follow need of a load that leaves.
LEMMA LeavesFacts ==
  ASSUME ScreenInv, NEW t \in Task, Leaves(t)
  PROVE  /\ ~(AwaitsRows(t))'
         /\ t \notin Before(t)
         /\ Loading' = IF task'[t] = Idle THEN Loading \ {t} ELSE Loading
         /\ \A u \in Task \ {t} :
              /\ task'[u] = task[u] /\ ((AwaitsRows(u))' <=> AwaitsRows(u))
              /\ u \in memory'.late <=> u \in memory.late \/ <<u, t>> \in memory.before
         /\ t \in memory'.late => t \in memory.late
         /\ \A u, v \in Task \ {t} : <<u, v>> \in memory'.before <=> <<u, v>> \in memory.before
         /\ \A u, v \in Task : /\ <<u, v>> \in memory.before => u \in Loading /\ v \in Loading
                               /\ <<u, v>> \in memory.before => <<v, u>> \notin memory.before
         /\ \A u, v, x \in Task :
              <<u, v>> \in memory.before /\ <<v, x>> \in memory.before => <<u, x>> \in memory.before
<1>1. ~(AwaitsRows(t))'
  BY DEF Leaves, AwaitsRows, Busy
<1>2. t \notin Before(t) /\ memory.before \subseteq Loading \X Loading /\ Loading \subseteq Task
  BY DEF ScreenInv, OrderOK, Leaves, Before, Loading
<1>3. Loading' = IF task'[t] = Idle THEN Loading \ {t} ELSE Loading
  BY DEF Leaves, Loading, LoadPhase
<1>4. \A u \in Task \ {t} : /\ task'[u] = task[u] /\ ((AwaitsRows(u))' <=> AwaitsRows(u))
                            /\ u \in memory'.late <=> u \in memory.late \/ <<u, t>> \in memory.before
  BY DEF Leaves, AwaitsRows, Busy, Before
<1>5. t \in memory'.late => t \in memory.late
  BY <1>2 DEF Leaves
<1>6. \A u, v \in Task \ {t} : <<u, v>> \in memory'.before <=> <<u, v>> \in memory.before
  BY DEF Leaves
<1>7. \A u, v \in Task : <<u, v>> \in memory.before => u \in Loading /\ v \in Loading
  BY <1>2
<1>8. \A u, v, x \in Task :
        <<u, v>> \in memory.before /\ <<v, x>> \in memory.before => <<u, x>> \in memory.before
  BY <1>7 DEF ScreenInv, OrderOK
<1>9. \A u, v \in Task : <<u, v>> \in memory.before => <<v, u>> \notin memory.before
  BY <1>7, <1>8 DEF ScreenInv, OrderOK
<1> QED
  BY <1>1, <1>2, <1>3, <1>4, <1>5, <1>6, <1>7, <1>8, <1>9

LEMMA LeavesOrder ==
  ASSUME ScreenInv, NEW t \in Task, Leaves(t)
  PROVE  OrderOK'
<1>1. Loading' \subseteq Loading /\ Loading \subseteq Task /\ (t \in Loading' => task'[t] # Idle)
  BY LeavesFacts DEF Loading
<1>2. memory'.late \subseteq Loading' /\ memory'.before \subseteq Loading' \X Loading'
  <2>1. memory.late \subseteq Loading /\ memory.before \subseteq Loading \X Loading /\ Before(t) \subseteq Loading
    BY DEF ScreenInv, OrderOK, Before
  <2>2. CASE task'[t] # Idle
    BY <2>1, <2>2, LeavesFacts DEF Leaves
  <2>3. CASE task'[t] = Idle
    <3>1. memory'.late \subseteq Loading'
      BY <2>1, <2>3, LeavesFacts DEF Leaves
    <3>2. \A p \in memory'.before : \E u, v \in Loading : p = <<u, v>>
      BY <2>1 DEF Leaves
    <3>3. \A u, v : <<u, v>> \in memory'.before => u # t /\ v # t
      BY <2>3 DEF Leaves
    <3> QED
      BY <2>3, <3>1, <3>2, <3>3, LeavesFacts
  <2> QED
    BY <2>2, <2>3
<1>3. \A u, v \in Loading' : <<u, v>> \in memory'.before <=> <<u, v>> \in memory.before
  BY <1>1 DEF Leaves
<1>4. \A u, v \in Loading' :
        <<v, u>> \in memory'.before /\ (~(AwaitsRows(u))' \/ u \in memory'.late) => v \in memory'.late
  <2> SUFFICES ASSUME NEW u \in Loading', NEW v \in Loading', <<v, u>> \in memory.before,
                      ~(AwaitsRows(u))' \/ u \in memory'.late
               PROVE  v \in memory'.late
    BY <1>3
  <2>1. CASE u = t
    BY <1>1, <2>1 DEF Leaves, Before
  <2>2. CASE u # t /\ v # t
    BY <1>1, <2>2, LeavesFacts DEF ScreenInv, OrderOK
  <2>3. CASE u # t /\ v = t
    <3>1. ~AwaitsRows(u) \/ u \in memory.late
      BY <1>1, <2>3, LeavesFacts
    <3>2. t \in memory.late
      BY <1>1, <2>3, <3>1 DEF ScreenInv, OrderOK
    <3> QED
      BY <1>1, <2>3, <3>2 DEF Leaves
  <2> QED
    BY <2>1, <2>2, <2>3
<1>5. /\ \A u \in Loading' : <<u, u>> \notin memory'.before
      /\ \A u, v \in Loading' : u # v => <<u, v>> \in memory'.before \/ <<v, u>> \in memory'.before
      /\ \A u, v, x \in Loading' :
           <<u, v>> \in memory'.before /\ <<v, x>> \in memory'.before => <<u, x>> \in memory'.before
  BY <1>1, <1>3 DEF ScreenInv, OrderOK
<1>6. memory'.stale \subseteq Loading'
  BY DEF Leaves
<1> QED
  BY <1>2, <1>4, <1>5, <1>6 DEF OrderOK

LEMMA LeavesCounts ==
  ASSUME ScreenInv, NEW t \in Task, Leaves(t)
  PROVE  /\ CountsCovered'
         /\ \A u \in Task : CountComing(u) =>
              \/ (CountComing(u))' \/ (u = t /\ task'[t] = Idle)
              \/ <<u, t>> \in memory.before /\ t \notin memory.late
<1>1. \A u \in Task \ {t} : CountGood(u) <=> (CountGood(u))'
  BY DEF Leaves, CountGood
<1>2. task'[t] # Idle => (CountGood(t))'
  BY DEF Leaves, CountGood
<1>3. CountsCovered'
  <2> SUFFICES ASSUME NEW x \in Loading', x \notin memory'.late, ~(CountGood(x))'
               PROVE  \E u \in Task : (CountComing(u))' /\ <<x, u>> \in memory'.before
    BY DEF CountsCovered
  <2>1. x \in Loading /\ x \in Task /\ x # t
    BY <1>2, LeavesFacts DEF Loading
  <2>2. x \notin memory.late /\ ~CountGood(x) /\ <<x, t>> \notin memory.before
    BY <1>1, <2>1, LeavesFacts
  <2>3. PICK u \in Task : CountComing(u) /\ <<x, u>> \in memory.before
    BY <2>1, <2>2 DEF ScreenInv, CountsCovered
  <2>4. u # t /\ <<u, t>> \notin memory.before
    BY <2>1, <2>2, <2>3, LeavesFacts
  <2> QED
    BY <1>1, <2>1, <2>3, <2>4, LeavesFacts DEF CountComing
<1>4. ASSUME NEW u \in Task, CountComing(u), <<u, t>> \notin memory.before,
             ~(u = t /\ task'[t] = Idle)
      PROVE  (CountComing(u))'
  BY <1>1, <1>2, <1>4, LeavesFacts DEF CountComing, Leaves
<1>5. ASSUME NEW u \in Task, CountComing(u), <<u, t>> \in memory.before
      PROVE  t \notin memory.late
  BY <1>5, LeavesFacts DEF ScreenInv, OrderOK, CountComing, Leaves
<1> QED
  BY <1>3, <1>4, <1>5

\* The rows, when the view is the same.
LEMMA LeavesRows ==
  ASSUME ScreenInv, NEW t \in Task, Leaves(t), screen'.view = screen.view,
         \A u \in Task \ {t} : u \in memory'.stale <=> u \in memory.stale
  PROVE  /\ RowsCovered'
         /\ \A u \in Task : RowsComing(u) /\ u # t =>
              (RowsComing(u))' \/ <<u, t>> \in memory.before
<1>1. \A w : (Wanted(w))' = Wanted(w)
  BY DEF Leaves, Wanted
<1>2. \A u \in Task \ {t} : RowsGood(u) <=> (RowsGood(u))'
  BY <1>1, LeavesFacts DEF Leaves, RowsGood
<1>3. ASSUME NEW u \in Task, RowsComing(u), u # t, <<u, t>> \notin memory.before
      PROVE  (RowsComing(u))'
  BY <1>2, <1>3, LeavesFacts DEF RowsComing
<1>4. RowsCovered'
  <2> SUFFICES ASSUME NEW x \in Task, (AwaitsRows(x))', x \notin memory'.late,
                      x \notin memory'.stale, ~(RowsGood(x))'
               PROVE  \E u \in Task : (RowsComing(u))' /\ <<x, u>> \in memory'.before
    BY DEF RowsCovered
  <2>1. x # t /\ AwaitsRows(x) /\ x \notin memory.late /\ x \notin memory.stale /\ ~RowsGood(x)
        /\ <<x, t>> \notin memory.before
    BY <1>2, LeavesFacts
  <2>2. PICK u \in Task : RowsComing(u) /\ <<x, u>> \in memory.before
    BY <2>1 DEF ScreenInv, RowsCovered
  <2>3. u # t /\ <<u, t>> \notin memory.before
    BY <2>1, <2>2, LeavesFacts
  <2> QED
    BY <1>3, <2>1, <2>2, <2>3, LeavesFacts
<1> QED
  BY <1>3, <1>4

-----------------------------------------------------------------------------
(* The actions, one by one.                                                *)

Advances(t, pc, version) == task' = [task EXCEPT ![t].pc = pc, ![t].version = version]

LEMMA AdvancesIs ==
  ASSUME ScreenTypes, NEW t \in Task, task[t] # Idle,
         NEW pc \in Phase, NEW version \in 0..MaxRows \cup {None},
         Advances(t, pc, version)
  PROVE  /\ task' \in [Task -> TaskState \cup {Idle}]
         /\ task'[t] # Idle /\ task'[t].pc = pc /\ task'[t].version = version
         /\ task'[t].view = task[t].view /\ task'[t].write = task[t].write
         /\ \A u \in Task \ {t} : task'[u] = task[u]
<1>1. task[t] \in TaskState
  BY DEF ScreenTypes
<1>2. task'[t] = [task[t] EXCEPT !.pc = pc, !.version = version]
  BY DEF ScreenTypes, Advances
<1>3. task'[t] \in TaskState
  <2>1. task'[t] = [pc |-> pc, view |-> task[t].view, write |-> task[t].write, version |-> version]
    BY <1>1, <1>2 DEF TaskState
  <2> QED
    BY <1>1, <2>1 DEF TaskState
<1>4. /\ task'[t].pc = pc /\ task'[t].version = version
      /\ task'[t].view = task[t].view /\ task'[t].write = task[t].write
  BY <1>1, <1>2 DEF TaskState
<1>5. task'[t] # Idle
  <2>1. Idle.pc = "idle"
    BY DEF Idle
  <2>2. "idle" \notin Phase
    BY DEF Phase
  <2> QED
    BY <1>4, <2>1, <2>2
<1> QED
  BY <1>3, <1>4, <1>5 DEF ScreenTypes, Advances

LEMMA GoesIs ==
  ASSUME ScreenTypes, NEW t \in Task, task[t] # Idle, NEW pc \in Phase, Goes(t, pc)
  PROVE  /\ task' \in [Task -> TaskState \cup {Idle}]
         /\ task'[t] # Idle /\ task'[t].pc = pc /\ task'[t].version = 0
         /\ task'[t].view = task[t].view /\ task'[t].write = task[t].write
         /\ \A u \in Task \ {t} : task'[u] = task[u]
<1>1. 0 \in 0..MaxRows \cup {None}
  BY ScreensAssumption
<1>2. Advances(t, pc, 0)
  BY DEF Goes, Advances
<1> QED
  BY <1>1, <1>2, AdvancesIs

LEMMA EndsIs ==
  ASSUME ScreenTypes, NEW t \in Task, Ends(t)
  PROVE  /\ task' \in [Task -> TaskState \cup {Idle}] /\ task'[t] = Idle
         /\ \A u \in Task \ {t} : task'[u] = task[u]
BY DEF ScreenTypes, Ends

LEMMA CallMade ==
  ASSUME NEW pc \in Phase, NEW view \in AnyView, NEW w \in WriteNames \cup {None}
  PROVE  /\ Call(pc, view, w) \in TaskState /\ Call(pc, view, w) # Idle
         /\ Call(pc, view, w).pc = pc /\ Call(pc, view, w).view = view
         /\ Call(pc, view, w).write = w /\ Call(pc, view, w).version = 0
BY ScreensAssumption DEF Call, TaskState, Idle, Phase

LEMMA OpenKeeps ==
  ASSUME ScreenInv, NEW t \in Task, NEW s \in AllScreens, ScreenOpens(s, t)
  PROVE  ScreenInv'
<1>1. \A u \in Task : ~Busy(u)
  BY DEF ScreenInv, TasksOK, ScreenOpens
<1>2. /\ screen' = [screen EXCEPT !.at = "loading", !.kind = s] /\ rows' = rows /\ memory' = memory
      /\ task' = [task EXCEPT ![t] = Call("session", FirstView, None)]
  BY DEF ScreenOpens
<1>3. FirstView \in AnyView
  BY DEF FirstView, AnyView
<1>4. /\ Call("session", FirstView, None) \in TaskState
      /\ Call("session", FirstView, None) # Idle
      /\ Call("session", FirstView, None).pc = "session"
      /\ Call("session", FirstView, None).write = None
      /\ Call("session", FirstView, None).version = 0
  BY <1>3, CallMade DEF Phase
<1>5. ScreenTypes'
  BY <1>2, <1>4 DEF ScreenInv, ScreenTypes
<1>6. /\ screen'.at = "loading" /\ screen'.count = None /\ memory.mine <= rows
  BY <1>2 DEF ScreenInv, ScreenTypes, TasksOK, ScreenOpens
<1>7. /\ (At(t, "session"))' /\ task'[t].write = None /\ task'[t].pc = "session"
      /\ task'[t].version = 0
      /\ \A u \in Task : (Busy(u))' => u = t
  BY <1>1, <1>2, <1>4 DEF ScreenInv, ScreenTypes, At, Busy
<1>8. TasksOK'
  BY <1>2, <1>6, <1>7, ScreensAssumption DEF TasksOK, At, Busy
<1>9. Loading = {} /\ Loading' = {} /\ \A u \in Task : ~(AwaitsRows(u))'
  BY <1>1, <1>7 DEF Loading, Busy, LoadPhase, AwaitsRows
<1>10. OrderOK'
  BY <1>2, <1>9 DEF ScreenInv, OrderOK
<1>11. RowsCovered' /\ CountsCovered' /\ RowsPromised' /\ CountsPromised'
  BY <1>6, <1>7, <1>9 DEF RowsCovered, CountsCovered, RowsPromised, CountsPromised, Opening
<1> QED
  BY <1>5, <1>8, <1>10, <1>11 DEF ScreenInv

LEMMA SessionKeeps ==
  ASSUME ScreenInv, NEW t \in Task, SessionAnswered(t)
  PROVE  ScreenInv'
<1>1. /\ task[t] \in TaskState /\ task[t].pc = "session" /\ Busy(t) /\ t \notin Loading
      /\ task[t].write = None
  BY CallFacts DEF SessionAnswered, ScreenInv, LoadPhase, TasksOK
<1>2. /\ task' \in [Task -> TaskState \cup {Idle}]
      /\ task'[t] # Idle /\ task'[t].pc = "asked" /\ task'[t].version = 0
      /\ task'[t].view = task[t].view /\ task'[t].write = None
      /\ \A u \in Task \ {t} : task'[u] = task[u]
  BY <1>1, GoesIs DEF SessionAnswered, ScreenInv, Phase, Busy
<1>3. /\ screen'.at = screen.at /\ screen'.kind = screen.kind /\ screen'.view = screen.view
      /\ screen'.count = screen.count /\ rows' = rows
  BY DEF SessionAnswered, ScreenInv, ScreenTypes
<1>4. memory' = Asked(memory, t, None, task[t].view) /\ memory \in Memory
  BY DEF SessionAnswered, ScreenInv, ScreenTypes
<1>5. /\ memory' \in Memory /\ memory'.mine = memory.mine /\ memory'.late = memory.late
      /\ memory'.before = memory.before \cup (Loading \X {t})
      /\ memory'.stale = IF task[t].view = Wanted(None) THEN memory.stale
                         ELSE memory.stale \cup {t}
  <2>1. Loading \X {t} \subseteq Task \X Task
    BY DEF Loading
  <2> QED
    BY <1>4, <2>1 DEF Asked, Memory
<1>6. ScreenTypes'
  BY <1>2, <1>5 DEF SessionAnswered, ScreenInv, ScreenTypes
<1>7. TasksOK'
  BY <1>1, <1>2, <1>3, <1>5, ScreensAssumption DEF ScreenInv, TasksOK, At, Busy, PageToReset
<1>8. (Wanted(None))' = Wanted(None)
  BY <1>3 DEF Wanted
<1>9. Asks(t)
  BY <1>1, <1>2, <1>5, <1>8 DEF Asks
<1> QED
  BY <1>6, <1>7, <1>9, AskKeeps DEF ScreenInv

\* Rows or counts are read, or the counts cannot be.
LEMMA ReadKeeps ==
  ASSUME ScreenInv, NEW t \in Task, RowsRead(t) \/ CountRead(t) \/ CountFails(t)
  PROVE  ScreenInv'
<1>1. PICK pc \in {"answered", "counted"}, version \in {None, rows} :
        /\ task' = [task EXCEPT ![t].pc = pc, ![t].version = version]
        /\ \/ At(t, "asked") /\ pc = "answered" /\ version = rows
           \/ At(t, "counting") /\ pc = "counted"
  BY DEF RowsRead, CountRead, CountFails
<1>2. UNCHANGED <<screen, rows, memory>>
  BY DEF RowsRead, CountRead, CountFails
<1>3. task[t] \in TaskState /\ Busy(t) /\ t \in Loading
      /\ task[t].pc = IF pc = "answered" THEN "asked" ELSE "counting"
  BY <1>1, CallFacts DEF ScreenInv, LoadPhase
<1>4. /\ task' \in [Task -> TaskState \cup {Idle}]
      /\ task'[t] # Idle /\ task'[t].pc = pc /\ task'[t].version = version
      /\ task'[t].view = task[t].view /\ task'[t].write = task[t].write
      /\ \A u \in Task \ {t} : task'[u] = task[u]
  <2>1. version \in 0..MaxRows \cup {None} /\ pc \in Phase
    BY <1>1 DEF ScreenInv, ScreenTypes, Phase
  <2> QED
    <3>1. Advances(t, pc, version)
      BY <1>1 DEF Advances
    <3>2. ScreenTypes /\ task[t] # Idle
      BY <1>3 DEF ScreenInv, Busy
    <3> QED
      BY <2>1, <3>1, <3>2, AdvancesIs
<1>5. ScreenTypes'
  BY <1>2, <1>4 DEF ScreenInv, ScreenTypes
<1>6. TasksOK'
  BY <1>1, <1>2, <1>3, <1>4 DEF ScreenInv, ScreenTypes, TasksOK, At, Busy, PageToReset
<1>7. Loading' = Loading
  BY <1>3, <1>4 DEF Loading, LoadPhase
<1>8. \A u \in Loading : GoesOn(u)
  <2> SUFFICES ASSUME NEW u \in Loading PROVE GoesOn(u)
    OBVIOUS
  <2>1. u \in Task
    BY DEF Loading
  <2> QED
    BY <1>1, <1>3, <1>4, <2>1 DEF GoesOn
<1>9. (Wiping <=> Wiping') /\ (Opening => Opening')
  BY <1>2, <1>3, <1>4 DEF Wiping, WritesRow, Opening, At, Busy
<1>10. Calm
  BY <1>2, <1>7, <1>8, <1>9 DEF Calm
<1> QED
  BY <1>5, <1>6, <1>10, CalmKeeps DEF ScreenInv

\* Loads whose rows are there, and the memory of those that show them.
LEMMA ShowKeeps ==
  ASSUME ScreenInv, NEW x \in Task, RowsShown(x)
  PROVE  ScreenInv'
<1> DEFINE wrong == memory.late \cup memory.stale
           last == ~screen.kind.counted /\ ~PageToReset(x)
           o == Overtakes(memory, x)
           m == Shown(o, x, "rows", wrong)
           next == IF PageToReset(x) THEN "resetting" ELSE "counting"
<1>1. /\ task[x] \in TaskState /\ task[x].pc = "answered" /\ Busy(x) /\ x \in Loading
      /\ AwaitsRows(x)
  BY CallFacts DEF RowsShown, ScreenInv, LoadPhase, AwaitsRows
<1>2. /\ screen' = [screen EXCEPT !.at = IF screen.kind.counted THEN @ ELSE "open",
                                  !.shown = [view |-> task[x].view, version |-> task[x].version]]
      /\ IF last THEN Ends(x) ELSE Goes(x, next)
      /\ memory' = IF last THEN Forget(m, x) ELSE m
      /\ rows' = rows
  BY DEF RowsShown
<1>3. memory \in Memory /\ screen.kind \in AllScreens /\ task[x].version \in 0..MaxRows
  BY <1>1 DEF ScreenInv, ScreenTypes, TasksOK
<1>4. /\ o \in Memory /\ o.mine = memory.mine /\ o.before = memory.before /\ o.stale = memory.stale
      /\ o.late = memory.late \cup Before(x) /\ o.astray = memory.astray
  BY <1>3, OvertakesIs DEF Before
<1>5. /\ m \in Memory /\ m.mine = memory.mine /\ m.before = memory.before /\ m.stale = memory.stale
      /\ m.late = memory.late \cup Before(x)
      /\ m.astray = IF x \in wrong THEN memory.astray \cup {"rows"} ELSE memory.astray \ {"rows"}
  <2>1. m = Shown(o, x, "rows", wrong) /\ "rows" \in {"rows", "counts"}
    OBVIOUS
  <2> HIDE DEF o, m, wrong
  <2>2. /\ m \in Memory /\ m.mine = o.mine /\ m.before = o.before /\ m.stale = o.stale
        /\ m.late = o.late
        /\ m.astray = IF x \in wrong THEN o.astray \cup {"rows"} ELSE o.astray \ {"rows"}
    BY <1>4, <2>1 DEF Shown, Memory
  <2> QED
    BY <1>4, <2>2
<1>6. /\ memory' \in Memory /\ memory'.mine = memory.mine /\ memory'.astray = m.astray
      /\ \A u \in Task \ {x} : u \in memory'.stale <=> u \in memory.stale
      /\ memory'.before \subseteq memory.before
      /\ last => /\ memory'.late = (memory.late \cup Before(x)) \ {x}
                 /\ memory'.stale = memory.stale \ {x}
                 /\ \A u, v : <<u, v>> \in memory'.before <=>
                                <<u, v>> \in memory.before /\ u # x /\ v # x
      /\ ~last => /\ memory'.late = memory.late \cup Before(x)
                  /\ memory'.stale = memory.stale /\ memory'.before = memory.before
  <2> HIDE DEF m, last
  <2>1. CASE last
    BY <1>2, <1>5, <2>1, ForgetIs
  <2>2. CASE ~last
    BY <1>2, <1>5, <2>2
  <2> QED
    BY <2>1, <2>2
<1>7. /\ task' \in [Task -> TaskState \cup {Idle}]
      /\ last => task'[x] = Idle
      /\ ~last => /\ task'[x] # Idle /\ task'[x].pc = next /\ task'[x].version = 0
                  /\ task'[x].view = task[x].view /\ task'[x].write = task[x].write
      /\ \A u \in Task \ {x} : task'[u] = task[u]
  <2> HIDE DEF last
  <2>1. CASE last
    BY <1>2, <2>1, EndsIs DEF ScreenInv
  <2>2. CASE ~last
    <3>1. next \in Phase
      BY DEF Phase
    <3> HIDE DEF next
    <3> QED
      BY <1>1, <1>2, <2>2, <3>1, GoesIs DEF ScreenInv, Busy
  <2> QED
    BY <2>1, <2>2
<1>8. /\ screen'.kind = screen.kind /\ screen'.view = screen.view /\ screen'.error = screen.error
      /\ screen'.count = screen.count
      /\ screen'.shown.view = task[x].view /\ screen'.shown.version = task[x].version
      /\ screen'.shown # None
      /\ screen'.at = (IF screen.kind.counted THEN screen.at ELSE "open")
      /\ screen' \in [kind : AllScreens, at : {"closed", "loading", "open", "left"}, view : AnyView,
                      shown : [view : AnyView, version : 0..MaxRows] \cup {None},
                      count : 0..MaxRows \cup {None}, error : BOOLEAN, token : BOOLEAN]
  <2> DEFINE sh == [view |-> task[x].view, version |-> task[x].version]
  <2>1. sh \in [view : AnyView, version : 0..MaxRows]
    BY <1>1, <1>3 DEF TaskState
  <2>2. sh.view = task[x].view /\ sh.version = task[x].version
    OBVIOUS
  <2>3. sh # None
    BY <2>1, ScreensAssumption
  <2> HIDE DEF sh
  <2>4. screen' = [screen EXCEPT !.at = IF screen.kind.counted THEN @ ELSE "open", !.shown = sh]
    BY <1>2 DEF sh
  <2> QED
    BY <2>1, <2>2, <2>3, <2>4 DEF ScreenInv, ScreenTypes
<1>9. ScreenTypes'
  BY <1>2, <1>6, <1>7, <1>8 DEF ScreenInv, ScreenTypes
<1>10. last \/ (next = "counting" /\ screen.kind.counted) \/ (next = "resetting" /\ PageToReset(x))
  OBVIOUS
<1> HIDE DEF wrong, last, o, m, next
<1>11. Leaves(x)
  <2>1. last => memory'.stale \subseteq Loading'
    BY <1>6, <1>7 DEF ScreenInv, OrderOK, Loading
  <2>2. ~last => memory'.stale \subseteq Loading'
    BY <1>6, <1>7, <1>10 DEF ScreenInv, OrderOK, Loading, LoadPhase
  <2> QED
    BY <1>1, <1>6, <1>7, <1>8, <1>10, <2>1, <2>2 DEF Leaves
<1>12. TasksOK'
  <2>1. screen.at \in {"loading", "open"} /\ screen'.at \in {"loading", "open"}
        /\ (screen'.at = "loading" => screen.at = "loading")
    BY <1>1, <1>8 DEF ScreenInv, TasksOK
  <2>2. \A u \in Task : (At(u, "session"))' => At(u, "session")
    BY <1>7, <1>10 DEF At
  <2>3. \A u \in Task : (Busy(u))' => Busy(u)
    BY <1>1, <1>7 DEF Busy
  <2>4. (PageToReset(x))' <=> (task'[x].write \in screen.kind.first)
    BY <1>8 DEF PageToReset
  <2>5. \A u \in Task \ {x} : (PageToReset(u))' <=> PageToReset(u)
    BY <1>7, <1>8 DEF PageToReset
  <2>6. \A u \in Task : (Busy(u))' =>
       /\ task'[u].pc # "counted" => task'[u].version \in 0..MaxRows
       /\ task'[u].pc = "applied" => task'[u].version <= rows
       /\ task'[u].pc \in {"sent", "applied"} => task'[u].write \in screen.kind.writes
       /\ task'[u].pc \in {"counting", "counted"} => screen.kind.counted
       /\ task'[u].pc = "resetting" => (PageToReset(u))'
       /\ task'[u].pc = "session" => task'[u].write = None
    <3>1. CASE last
      BY <1>7, <2>3, <2>5, <3>1 DEF ScreenInv, TasksOK, Busy
    <3>2. CASE ~last
      <4>1. PageToReset(x) => task'[x].write \in screen.kind.first
        BY <1>7, <3>2 DEF PageToReset
      <4>2. ASSUME NEW u \in Task, u # x, (Busy(u))' PROVE Busy(u) /\ task'[u] = task[u]
        BY <1>7, <4>2 DEF Busy
      <4> QED
        BY <1>7, <1>10, <2>4, <2>5, <3>2, <4>1, <4>2, ScreensAssumption DEF ScreenInv, TasksOK
    <3> QED
      BY <3>1, <3>2
  <2> QED
    BY <1>2, <1>6, <1>8, <2>1, <2>2, <2>3, <2>6 DEF ScreenInv, TasksOK
<1>13. RowsPromised'
  <2>1. CASE x \in wrong
    BY <1>5, <1>6, <2>1 DEF RowsPromised
  <2>2. CASE x \notin wrong /\ RowsGood(x)
    <3>1. x \notin memory.late /\ x \notin memory.stale
      BY <2>2 DEF wrong
    <3>2. Due' = task[x].view
      <4>1. ASSUME PageToReset(x) PROVE Due' = task[x].view
        <5>1. ~last /\ next = "resetting"
          BY <4>1 DEF last, next
        <5>2. (At(x, "resetting"))' /\ x \notin memory'.late
          BY <1>6, <1>7, <1>11, <3>1, <5>1, LeavesFacts DEF At
        <5>3. task[x].view = FirstPage(screen.view)
          BY <2>2, <4>1 DEF RowsGood, Wanted, PageToReset
        <5> QED
          BY <1>8, <5>2, <5>3 DEF Due
      <4>2. ASSUME ~PageToReset(x) PROVE Due' = task[x].view
        <5>1. task[x].view = screen.view
          BY <2>2, <4>2 DEF RowsGood, Wanted, PageToReset
        <5>2. ASSUME NEW t \in Task, (At(t, "resetting"))', t \notin memory'.late PROVE FALSE
          <6>1. t # x
            BY <1>7, <4>2, <5>2 DEF At, next
          <6>2. t \in Loading /\ ~AwaitsRows(t) /\ t \notin memory.late /\ <<t, x>> \notin memory.before
            BY <1>7, <1>11, <5>2, <6>1, LeavesFacts DEF At, Loading, LoadPhase, AwaitsRows, Busy
          <6> QED
            BY <1>1, <3>1, <6>1, <6>2 DEF ScreenInv, OrderOK
        <5> QED
          BY <1>8, <5>1, <5>2 DEF Due
      <4> QED
        BY <4>1, <4>2
    <3>3. task[x].version >= memory.mine
      BY <1>1, <2>2 DEF RowsGood
    <3> QED
      BY <1>6, <1>8, <3>2, <3>3 DEF RowsPromised, RowsFresh
  <2>3. CASE x \notin wrong /\ ~RowsGood(x)
    <3>1. PICK t \in Task : RowsComing(t) /\ <<x, t>> \in memory.before
      BY <1>1, <2>3 DEF ScreenInv, RowsCovered, wrong
    <3>2. <<t, x>> \notin memory.before /\ t # x
      BY <1>11, <3>1, LeavesFacts
    <3> QED
      BY <1>6, <1>8, <1>11, <3>1, <3>2, LeavesRows DEF RowsPromised
  <2> QED
    BY <2>1, <2>2, <2>3
<1>14. CountsPromised'
  <2>1. CASE last
    <3>1. screen'.count = None
      BY <1>8, <2>1 DEF last, ScreenInv, TasksOK
    <3> QED
      BY <3>1 DEF CountsPromised
  <2>2. CASE ~last
    <3>1. ASSUME x \notin memory.late PROVE (CountComing(x))'
      BY <1>1, <1>7, <1>10, <1>11, <2>2, <3>1, LeavesFacts DEF CountComing, CountGood
    <3>2. ASSUME NEW t \in Task, CountComing(t) PROVE \E u \in Task : (CountComing(u))'
      BY <1>7, <1>11, <2>2, <3>1, <3>2, LeavesCounts
    <3>3. Wiping => Wiping'
      <4>1. \A t \in Task : WritesRow(t) => t # x
        BY <1>1 DEF WritesRow
      <4> QED
        BY <1>7, <1>8, <4>1 DEF Wiping, WritesRow, Busy
    <3>4. screen'.at \in {"loading", "open"} => screen.at \in {"loading", "open"}
      BY <1>1 DEF ScreenInv, TasksOK
    <3>5. "counts" \in memory.astray => "counts" \in memory'.astray
      BY <1>5, <1>6
    <3> QED
      BY <1>6, <1>8, <3>2, <3>3, <3>4, <3>5 DEF ScreenInv, CountsPromised
  <2> QED
    BY <2>1, <2>2
<1>15. RowsCovered'
  BY <1>6, <1>8, <1>11, LeavesRows
<1>16. OrderOK' /\ CountsCovered'
  BY <1>11, LeavesOrder, LeavesCounts
<1> QED
  BY <1>9, <1>12, <1>13, <1>14, <1>15, <1>16 DEF ScreenInv

\* What the end of a call, and the same view, leave of TasksOK.
LEMMA EndKeepsTasks ==
  ASSUME ScreenInv, NEW x \in Task, Busy(x), Ends(x),
         screen'.kind = screen.kind, screen'.at \in {screen.at, "open"},
         screen'.count \in {screen.count} \cup (IF screen.kind.counted THEN 0..MaxRows \cup {None} ELSE {}),
         memory'.mine = memory.mine, rows' = rows
  PROVE  TasksOK'
<1>1. task'[x] = Idle /\ \A u \in Task \ {x} : task'[u] = task[u]
  BY EndsIs DEF ScreenInv
<1>2. \A u \in Task : (Busy(u))' => Busy(u) /\ task'[u] = task[u]
  BY <1>1 DEF Busy
<1>3. screen.at \in {"loading", "open"} /\ (screen'.at = "loading" => screen.at = "loading")
  BY DEF ScreenInv, TasksOK
<1>4. \A u \in Task : (Busy(u))' => ((PageToReset(u))' <=> PageToReset(u))
  BY <1>2 DEF PageToReset
<1>5. ~screen.kind.counted => screen'.count = None
  BY DEF ScreenInv, TasksOK
<1>6. \A t, u \in Task : screen'.at = "loading" /\ (At(t, "session"))' /\ (Busy(u))' => u = t
  BY <1>2, <1>3 DEF ScreenInv, TasksOK, At, Busy
<1> QED
  BY <1>2, <1>3, <1>4, <1>5, <1>6 DEF ScreenInv, TasksOK

LEMMA CountsKeep ==
  ASSUME ScreenInv, NEW x \in Task, CountsShown(x)
  PROVE  ScreenInv'
<1> DEFINE m == Shown(memory, x, "counts", memory.late)
<1>1. /\ task[x] \in TaskState /\ task[x].pc = "counted" /\ Busy(x) /\ x \in Loading
      /\ ~AwaitsRows(x)
  BY CallFacts DEF CountsShown, ScreenInv, LoadPhase, AwaitsRows
<1>2. /\ screen' = [screen EXCEPT !.at = "open", !.count = task[x].version]
      /\ Ends(x) /\ memory' = Forget(m, x) /\ rows' = rows
  BY DEF CountsShown
<1>3. memory \in Memory /\ task[x].version \in 0..MaxRows \cup {None} /\ screen.kind.counted
  BY <1>1 DEF ScreenInv, ScreenTypes, TaskState, TasksOK
<1>4. /\ m \in Memory /\ m.mine = memory.mine /\ m.before = memory.before /\ m.stale = memory.stale
      /\ m.late = memory.late
      /\ m.astray = IF x \in memory.late THEN memory.astray \cup {"counts"}
                    ELSE memory.astray \ {"counts"}
  BY <1>3 DEF Shown, Memory
<1> HIDE DEF m
<1>5. /\ memory' \in Memory /\ memory'.mine = memory.mine /\ memory'.astray = m.astray
      /\ memory'.late = memory.late \ {x} /\ memory'.stale = memory.stale \ {x}
      /\ memory'.before \subseteq memory.before
      /\ \A u, v : <<u, v>> \in memory'.before <=> <<u, v>> \in memory.before /\ u # x /\ v # x
  BY <1>2, <1>4, ForgetIs
<1>6. /\ task' \in [Task -> TaskState \cup {Idle}] /\ task'[x] = Idle
      /\ \A u \in Task \ {x} : task'[u] = task[u]
  BY <1>2, EndsIs DEF ScreenInv
<1>7. /\ screen'.kind = screen.kind /\ screen'.view = screen.view /\ screen'.error = screen.error
      /\ screen'.shown = screen.shown /\ screen'.at = "open" /\ screen'.count = task[x].version
      /\ screen' \in [kind : AllScreens, at : {"closed", "loading", "open", "left"}, view : AnyView,
                      shown : [view : AnyView, version : 0..MaxRows] \cup {None},
                      count : 0..MaxRows \cup {None}, error : BOOLEAN, token : BOOLEAN]
  BY <1>2, <1>3 DEF ScreenInv, ScreenTypes
<1>8. ScreenTypes'
  BY <1>2, <1>5, <1>6, <1>7 DEF ScreenInv, ScreenTypes
<1>9. TasksOK'
  BY <1>1, <1>2, <1>3, <1>5, <1>7, EndKeepsTasks
<1>10. Before(x) \subseteq memory.late
  BY <1>1 DEF ScreenInv, OrderOK, Before
<1>11. Leaves(x)
  <2>1. memory'.stale \subseteq Loading'
    BY <1>5, <1>6 DEF ScreenInv, OrderOK, Loading
  <2>2. memory'.late = (memory.late \cup Before(x)) \ {x}
    BY <1>5, <1>10
  <2> QED
    BY <1>1, <1>5, <1>6, <1>7, <2>1, <2>2 DEF Leaves
<1>12. RowsCovered' /\ \A u \in Task : RowsComing(u) => (RowsComing(u))'
  <2>1. \A u \in Task \ {x} : u \in memory'.stale <=> u \in memory.stale
    BY <1>5
  <2>2. \A u \in Task : RowsComing(u) => u # x /\ <<u, x>> \notin memory.before
    BY <1>1, <1>10 DEF RowsComing, Before
  <2> QED
    BY <1>7, <1>11, <2>1, <2>2, LeavesRows
<1>13. OrderOK' /\ CountsCovered'
  BY <1>11, LeavesOrder, LeavesCounts
<1>14. Wiping => Wiping'
  <2>1. \A t \in Task : WritesRow(t) => t # x
    BY <1>1 DEF WritesRow
  <2> QED
    BY <1>6, <1>7, <2>1 DEF Wiping, WritesRow, Busy
<1>15. ~Opening
  BY <1>1 DEF ScreenInv, TasksOK, Opening, At
<1>16. RowsPromised'
  <2>1. Due' = Due
    <3>1. \A t \in Task : (At(t, "resetting"))' <=> At(t, "resetting")
      BY <1>1, <1>6 DEF At
    <3>2. ~At(x, "resetting")
      BY <1>1 DEF At
    <3>3. \A t \in Task \ {x} : t \in memory'.late <=> t \in memory.late
      BY <1>5
    <3> QED
      BY <1>7, <3>1, <3>2, <3>3 DEF Due
  <2>2. RowsFresh => RowsFresh'
    BY <1>5, <1>7, <2>1 DEF RowsFresh
  <2>3. "rows" \in memory.astray => "rows" \in memory'.astray
    BY <1>4, <1>5
  <2>4. screen.at \in {"loading", "open"}
    BY <1>1 DEF ScreenInv, TasksOK
  <2> QED
    BY <1>7, <1>12, <1>14, <1>15, <2>2, <2>3, <2>4 DEF ScreenInv, RowsPromised
<1>17. CountsPromised'
  <2>1. CASE x \in memory.late
    BY <1>4, <1>5, <2>1 DEF CountsPromised
  <2>2. CASE CountGood(x)
    BY <1>1, <1>5, <1>7, <2>2 DEF CountsPromised, CountGood
  <2>3. CASE x \notin memory.late /\ ~CountGood(x)
    <3>1. PICK t \in Task : CountComing(t) /\ <<x, t>> \in memory.before
      BY <1>1, <2>3 DEF ScreenInv, CountsCovered
    <3>2. <<t, x>> \notin memory.before /\ t # x
      BY <1>11, <3>1, LeavesFacts
    <3> QED
      BY <1>11, <3>1, <3>2, LeavesCounts DEF CountsPromised
  <2> QED
    BY <2>1, <2>2, <2>3
<1> QED
  BY <1>8, <1>9, <1>12, <1>13, <1>16, <1>17 DEF ScreenInv

LEMMA LoadFailsKeeps ==
  ASSUME ScreenInv, NEW x \in Task, LoadFails(x)
  PROVE  ScreenInv'
<1> DEFINE o == Overtakes(memory, x)
<1>1. /\ task[x] \in TaskState /\ task[x].pc \in {"session", "asked"} /\ Busy(x)
      /\ x \in Loading <=> task[x].pc = "asked"
  BY CallFacts DEF LoadFails, ScreenInv, LoadPhase
<1>2. /\ screen' = [screen EXCEPT !.at = "open", !.error = TRUE]
      /\ IF PageToReset(x) THEN Goes(x, "resetting") ELSE Ends(x)
      /\ memory' = IF PageToReset(x) THEN o ELSE Forget(o, x)
      /\ rows' = rows
  BY DEF LoadFails
<1>3. memory \in Memory /\ screen.kind \in AllScreens
  BY DEF ScreenInv, ScreenTypes
<1>4. /\ o \in Memory /\ o.mine = memory.mine /\ o.before = memory.before /\ o.stale = memory.stale
      /\ o.late = memory.late \cup Before(x) /\ o.astray = memory.astray
  BY <1>3, OvertakesIs DEF Before
<1> HIDE DEF o
<1>5. /\ memory' \in Memory /\ memory'.mine = memory.mine /\ memory'.astray = memory.astray
      /\ \A u \in Task \ {x} : u \in memory'.stale <=> u \in memory.stale
      /\ memory'.before \subseteq memory.before
      /\ ~PageToReset(x) =>
           /\ memory'.late = (memory.late \cup Before(x)) \ {x}
           /\ memory'.stale = memory.stale \ {x}
           /\ \A u, v : <<u, v>> \in memory'.before <=> <<u, v>> \in memory.before /\ u # x /\ v # x
      /\ PageToReset(x) => /\ memory'.late = memory.late \cup Before(x)
                           /\ memory'.stale = memory.stale /\ memory'.before = memory.before
  <2>1. CASE PageToReset(x)
    BY <1>2, <1>4, <2>1
  <2>2. CASE ~PageToReset(x)
    BY <1>2, <1>4, <2>2, ForgetIs
  <2> QED
    BY <2>1, <2>2
<1>6. /\ task' \in [Task -> TaskState \cup {Idle}]
      /\ ~PageToReset(x) => task'[x] = Idle
      /\ PageToReset(x) => /\ task'[x] # Idle /\ task'[x].pc = "resetting" /\ task'[x].version = 0
                           /\ task'[x].view = task[x].view /\ task'[x].write = task[x].write
      /\ \A u \in Task \ {x} : task'[u] = task[u]
  <2>1. CASE ~PageToReset(x)
    BY <1>2, <2>1, EndsIs DEF ScreenInv
  <2>2. CASE PageToReset(x)
    <3>1. "resetting" \in Phase
      BY DEF Phase
    <3> QED
      BY <1>1, <1>2, <2>2, <3>1, GoesIs DEF ScreenInv, Busy
  <2> QED
    BY <2>1, <2>2
<1>7. /\ screen'.kind = screen.kind /\ screen'.view = screen.view /\ screen'.error = TRUE
      /\ screen'.shown = screen.shown /\ screen'.at = "open" /\ screen'.count = screen.count
      /\ screen' \in [kind : AllScreens, at : {"closed", "loading", "open", "left"}, view : AnyView,
                      shown : [view : AnyView, version : 0..MaxRows] \cup {None},
                      count : 0..MaxRows \cup {None}, error : BOOLEAN, token : BOOLEAN]
  BY <1>2 DEF ScreenInv, ScreenTypes
<1>8. ScreenTypes'
  BY <1>2, <1>5, <1>6, <1>7 DEF ScreenInv, ScreenTypes
<1>9. TasksOK'
  <2>1. CASE ~PageToReset(x)
    BY <1>1, <1>2, <1>5, <1>7, <2>1, EndKeepsTasks
  <2>2. CASE PageToReset(x)
    <3>1. (PageToReset(x))' /\ \A u \in Task \ {x} : (PageToReset(u))' <=> PageToReset(u)
      BY <1>6, <1>7, <2>2 DEF PageToReset
    <3> QED
      BY <1>1, <1>2, <1>5, <1>6, <1>7, <2>2, <3>1, ScreensAssumption DEF ScreenInv, TasksOK, Busy
  <2> QED
    BY <2>1, <2>2
<1>10. OrderOK' /\ RowsCovered' /\ CountsCovered'
  <2>1. CASE x \in Loading
    <3>1. memory'.stale \subseteq Loading'
      BY <1>1, <1>5, <1>6, <2>1 DEF ScreenInv, OrderOK, Loading, LoadPhase
    <3>2. Leaves(x)
      BY <1>5, <1>6, <1>7, <2>1, <3>1 DEF Leaves
    <3> QED
      BY <1>5, <1>7, <3>2, LeavesOrder, LeavesRows, LeavesCounts
  <2>2. CASE x \notin Loading
    <3>1. ~PageToReset(x)
      BY <1>1, <1>3, <2>2, KindFacts DEF ScreenInv, TasksOK, PageToReset
    <3>2. memory.late \subseteq Loading /\ memory.stale \subseteq Loading
          /\ memory.before \subseteq Loading \X Loading
      BY DEF ScreenInv, OrderOK
    <3>3. memory'.late = memory.late /\ memory'.stale = memory.stale
      BY <1>5, <2>2, <3>1, <3>2 DEF Before
    <3>4. memory'.before = memory.before
      <4>1. \A p \in memory.before : \E u, v \in Loading : p = <<u, v>>
        BY <3>2
      <4>2. \A p \in memory.before : p \in memory'.before
        BY <1>5, <2>2, <3>1, <4>1
      <4> QED
        BY <1>5, <4>2
    <3>5. Loading' = Loading
      BY <1>6, <2>2, <3>1 DEF Loading
    <3>6. \A u \in Loading : GoesOn(u)
      BY <1>6, <2>2 DEF Loading, GoesOn
    <3>7. screen.at \in {"loading", "open"}
      BY <1>1 DEF ScreenInv, TasksOK
    <3>8. Calm
      BY <1>5, <1>7, <3>3, <3>4, <3>5, <3>6, <3>7 DEF Calm
    <3> QED
      BY <3>8, CalmKeeps
  <2> QED
    BY <2>1, <2>2
<1>11. RowsPromised' /\ CountsPromised'
  BY <1>7 DEF RowsPromised, CountsPromised
<1> QED
  BY <1>8, <1>9, <1>10, <1>11 DEF ScreenInv

LEMMA ResetKeeps ==
  ASSUME ScreenInv, NEW x \in Task, PageReset(x)
  PROVE  ScreenInv'
<1> DEFINE otherPage == screen.view.page # 1
           first == FirstPage(screen.view)
           off == {u \in Loading : task[u].view # first}
           m == [memory EXCEPT
                   !.astray = IF otherPage /\ x \in memory.late THEN @ \cup {"rows"} ELSE @,
                   !.stale = IF otherPage THEN @ \cup off ELSE @]
<1>1. /\ task[x] \in TaskState /\ task[x].pc = "resetting" /\ Busy(x) /\ x \in Loading
      /\ ~AwaitsRows(x) /\ PageToReset(x)
  BY CallFacts DEF PageReset, ScreenInv, LoadPhase, AwaitsRows, TasksOK
<1>2. /\ screen' = [screen EXCEPT !.view = FirstPage(@)]
      /\ Ends(x) /\ memory' = Forget(m, x) /\ rows' = rows
  BY DEF PageReset
<1>3. /\ memory \in Memory /\ screen.kind \in AllScreens /\ screen.view \in AnyView
      /\ Loading \subseteq Task
  BY DEF ScreenInv, ScreenTypes, Loading
<1>4. /\ first \in AnyView /\ first.page = 1 /\ first.filter = screen.view.filter
      /\ ~otherPage => first = screen.view
      /\ FirstPage(first) = first
  BY <1>3 DEF FirstPage, AnyView
<1>5. /\ m \in Memory /\ m.mine = memory.mine /\ m.before = memory.before /\ m.late = memory.late
      /\ m.astray = IF otherPage /\ x \in memory.late THEN memory.astray \cup {"rows"}
                    ELSE memory.astray
      /\ m.stale = IF otherPage THEN memory.stale \cup off ELSE memory.stale
  <2>1. off \subseteq Task
    BY <1>3
  <2> HIDE DEF off, otherPage
  <2> QED
    BY <1>3, <2>1 DEF Memory
<1> HIDE DEF m
<1>6. /\ memory' \in Memory /\ memory'.mine = memory.mine /\ memory'.astray = m.astray
      /\ memory'.late = memory.late \ {x} /\ memory'.stale = m.stale \ {x}
      /\ memory'.before \subseteq memory.before
      /\ \A u, v : <<u, v>> \in memory'.before <=> <<u, v>> \in memory.before /\ u # x /\ v # x
  BY <1>2, <1>5, ForgetIs
<1>7. /\ task' \in [Task -> TaskState \cup {Idle}] /\ task'[x] = Idle
      /\ \A u \in Task \ {x} : task'[u] = task[u]
  BY <1>2, EndsIs DEF ScreenInv
<1>8. /\ screen'.kind = screen.kind /\ screen'.view = first /\ screen'.error = screen.error
      /\ screen'.shown = screen.shown /\ screen'.at = screen.at /\ screen'.count = screen.count
      /\ screen' \in [kind : AllScreens, at : {"closed", "loading", "open", "left"}, view : AnyView,
                      shown : [view : AnyView, version : 0..MaxRows] \cup {None},
                      count : 0..MaxRows \cup {None}, error : BOOLEAN, token : BOOLEAN]
  <2>1. screen' = [screen EXCEPT !.view = first]
    BY <1>2
  <2> HIDE DEF first
  <2> QED
    BY <1>4, <2>1 DEF ScreenInv, ScreenTypes
<1> HIDE DEF first, otherPage
<1>9. ScreenTypes'
  BY <1>2, <1>6, <1>7, <1>8 DEF ScreenInv, ScreenTypes
<1>10. TasksOK'
  BY <1>1, <1>2, <1>6, <1>8, EndKeepsTasks
<1>11. Before(x) \subseteq memory.late
  BY <1>1 DEF ScreenInv, OrderOK, Before
<1>12. Leaves(x)
  <2>1. memory'.stale \subseteq Loading'
    <3>1. Loading' = Loading \ {x}
      BY <1>7 DEF Loading
    <3> QED
      BY <1>5, <1>6, <3>1 DEF ScreenInv, OrderOK
  <2>2. memory'.late = (memory.late \cup Before(x)) \ {x}
    BY <1>6, <1>11
  <2> QED
    BY <1>1, <1>6, <1>7, <1>8, <2>1, <2>2 DEF Leaves
<1>13. OrderOK' /\ CountsCovered'
  BY <1>12, LeavesOrder, LeavesCounts
<1>14. /\ \A w : (Wanted(w))' = first
       /\ ~otherPage => \A w : Wanted(w) = first
       /\ \A u \in Loading \ {x} : u \notin memory'.stale =>
            u \notin memory.stale /\ (otherPage => task[u].view = first)
       /\ \A u \in Loading \ {x} : u \in memory.stale => u \in memory'.stale
  <2>1. \A w : (Wanted(w))' = first
    BY <1>4, <1>8 DEF Wanted
  <2>2. ~otherPage => \A w : Wanted(w) = first
    BY <1>4 DEF Wanted, first
  <2> QED
    BY <1>5, <1>6, <2>1, <2>2
<1>15. \A u \in Task \ {x} : RowsComing(u) => (RowsComing(u))'
  <2> SUFFICES ASSUME NEW u \in Task, u # x, RowsComing(u) PROVE (RowsComing(u))'
    OBVIOUS
  <2>1. (AwaitsRows(u))' /\ u \notin memory'.late /\ u \in Loading /\ task'[u] = task[u]
    BY <1>6, <1>7, LoadingAre DEF RowsComing, AwaitsRows, Busy
  <2>2. ASSUME u \notin memory'.stale PROVE (RowsGood(u))'
    <3>1. RowsGood(u) /\ (otherPage => task[u].view = first)
      BY <1>14, <2>1, <2>2 DEF RowsComing
    <3> QED
      BY <1>6, <1>5, <1>14, <2>1, <3>1 DEF RowsGood
  <2> QED
    BY <2>1, <2>2 DEF RowsComing
<1>16. RowsCovered'
  <2> SUFFICES ASSUME NEW y \in Task, (AwaitsRows(y))', y \notin memory'.late,
                      y \notin memory'.stale, ~(RowsGood(y))'
               PROVE  \E u \in Task : (RowsComing(u))' /\ <<y, u>> \in memory'.before
    BY DEF RowsCovered
  <2>1. y # x /\ task'[y] = task[y] /\ AwaitsRows(y) /\ y \in Loading /\ y \notin memory.late
    BY <1>6, <1>12, LeavesFacts, LoadingAre
  <2>2. y \notin memory.stale /\ (otherPage => task[y].view = first)
    BY <1>14, <2>1
  <2>3. ~RowsGood(y)
    BY <1>5, <1>6, <1>14, <2>1, <2>2 DEF RowsGood
  <2>4. PICK u \in Task : RowsComing(u) /\ <<y, u>> \in memory.before
    BY <2>1, <2>2, <2>3 DEF ScreenInv, RowsCovered
  <2>5. u # x
    BY <1>1, <2>4 DEF RowsComing
  <2> QED
    BY <1>6, <1>15, <2>1, <2>4, <2>5
<1>17. (Wiping => Wiping') /\ (Opening => Opening')
  <2>1. \A t \in Task : WritesRow(t) \/ At(t, "session") => t # x
    BY <1>1 DEF WritesRow, At
  <2> QED
    BY <1>7, <1>8, <2>1 DEF Wiping, WritesRow, Busy, Opening, At
<1>18. RowsPromised'
  <2>1. Due' = first
    BY <1>4, <1>8 DEF Due
  <2>2. RowsFresh => RowsFresh' \/ "rows" \in memory'.astray
    <3>1. CASE ~otherPage
      <4>1. Due = first
        BY <1>4, <3>1 DEF Due, first
      <4> QED
        BY <1>5, <1>6, <1>8, <2>1, <4>1 DEF RowsFresh
    <3>2. CASE otherPage /\ x \in memory.late
      BY <1>5, <1>6, <3>2
    <3>3. CASE x \notin memory.late
      <4>1. Due = first
        BY <1>1, <3>3 DEF Due, first, At, Busy
      <4> QED
        BY <1>5, <1>6, <1>8, <2>1, <4>1 DEF RowsFresh
    <3> QED
      BY <3>1, <3>2, <3>3
  <2>3. "rows" \in memory.astray => "rows" \in memory'.astray
    BY <1>5, <1>6
  <2>4. \A u \in Task : RowsComing(u) => u # x
    BY <1>1 DEF RowsComing
  <2> QED
    BY <1>8, <1>15, <1>17, <2>2, <2>3, <2>4 DEF ScreenInv, RowsPromised
<1>19. CountsPromised'
  <2>1. screen.kind.counted = FALSE
    BY <1>1, <1>3, KindFacts DEF PageToReset
  <2>2. screen'.count = None
    BY <1>8, <2>1 DEF ScreenInv, TasksOK
  <2> QED
    BY <2>2 DEF CountsPromised
<1> QED
  BY <1>9, <1>10, <1>13, <1>16, <1>18, <1>19 DEF ScreenInv

LEMMA SignedOutKeeps ==
  ASSUME ScreenInv, NEW t \in Task, SignedOut(t)
  PROVE  ScreenInv'
<1>1. /\ screen' = [Blank(screen.kind) EXCEPT !.at = "left"]
      /\ task' = [u \in Task |-> Idle] /\ memory' = NoMemory /\ rows' = rows
  BY DEF SignedOut
<1>2. FirstView \in AnyView
  BY DEF FirstView, AnyView
<1>3. screen'.at = "left" /\ screen'.count = None /\ screen'.kind = screen.kind
  BY <1>1 DEF Blank
<1>4. /\ memory' \in Memory /\ memory'.mine = 0 /\ memory'.late = {} /\ memory'.stale = {}
      /\ memory'.before = {}
  BY <1>1, ScreensAssumption DEF NoMemory, Memory
<1>5. ScreenTypes'
  <2>1. screen' \in [kind : AllScreens, at : {"closed", "loading", "open", "left"}, view : AnyView,
                     shown : [view : AnyView, version : 0..MaxRows] \cup {None},
                     count : 0..MaxRows \cup {None}, error : BOOLEAN, token : BOOLEAN]
    BY <1>1, <1>2 DEF ScreenInv, ScreenTypes, Blank
  <2> QED
    BY <1>1, <1>4, <2>1 DEF ScreenInv, ScreenTypes
<1>6. \A u \in Task : ~(Busy(u))' /\ ~(AwaitsRows(u))'
  BY <1>1 DEF Busy, AwaitsRows
<1>7. Loading' = {}
  BY <1>1 DEF Loading
<1>8. TasksOK'
  BY <1>1, <1>3, <1>4, <1>6 DEF ScreenInv, ScreenTypes, TasksOK
<1>9. OrderOK' /\ RowsCovered' /\ CountsCovered'
  BY <1>4, <1>6, <1>7 DEF OrderOK, RowsCovered, CountsCovered
<1>10. RowsPromised' /\ CountsPromised'
  BY <1>3 DEF RowsPromised, CountsPromised
<1> QED
  BY <1>5, <1>8, <1>9, <1>10 DEF ScreenInv

LEMMA ViewKeeps ==
  ASSUME ScreenInv, NEW t \in Task, NEW u \in Task, NEW v \in Views(screen.kind), ViewChanges(t, u, v)
  PROVE  ScreenInv'
<1> DEFINE whoami == Call("session", v, None)
           asked == Call("asked", v, None)
<1>1. /\ task[t] = Idle /\ task[u] = Idle /\ screen.at = "open"
      /\ screen' = [screen EXCEPT !.view = v]
      /\ task' = [task EXCEPT ![u] = whoami, ![t] = asked]
      /\ memory' = [memory EXCEPT !.before = @ \cup (Loading \X {t})] /\ rows' = rows
  BY DEF ViewChanges
<1>2. screen.kind \in AllScreens /\ v \in AnyView /\ memory \in Memory
  BY KindFacts DEF ScreenInv, ScreenTypes
<1>3. /\ whoami \in TaskState /\ whoami # Idle /\ whoami.pc = "session"
      /\ whoami.write = None /\ whoami.version = 0
      /\ asked \in TaskState /\ asked # Idle /\ asked.pc = "asked" /\ asked.view = v
      /\ asked.write = None /\ asked.version = 0
  <2>1. "session" \in Phase /\ "asked" \in Phase
    BY DEF Phase
  <2> QED
    BY <1>2, <2>1, CallMade
<1> HIDE DEF whoami, asked
<1>4. /\ task' \in [Task -> TaskState \cup {Idle}] /\ task'[t] = asked
      /\ u # t => task'[u] = whoami
      /\ \A x \in Task \ {t, u} : task'[x] = task[x]
  BY <1>1, <1>3 DEF ScreenInv, ScreenTypes
<1>5. /\ screen'.kind = screen.kind /\ screen'.at = "open" /\ screen'.view = v
      /\ screen'.count = screen.count
  BY <1>1 DEF ScreenInv, ScreenTypes
<1>6. /\ memory' \in Memory /\ memory'.mine = memory.mine /\ memory'.late = memory.late
      /\ memory'.before = memory.before \cup (Loading \X {t}) /\ memory'.stale = memory.stale
  <2>1. Loading \X {t} \subseteq Task \X Task
    BY DEF Loading
  <2> QED
    BY <1>1, <1>2, <2>1 DEF Memory
<1>7. ScreenTypes'
  BY <1>1, <1>2, <1>4, <1>6 DEF ScreenInv, ScreenTypes
<1>8. TasksOK'
  <2>1. \A x \in Task : (Busy(x))' => \/ Busy(x) /\ task'[x] = task[x]
                                      \/ task'[x] \in {whoami, asked}
    BY <1>4 DEF Busy
  <2>2. \A x \in Task : (PageToReset(x))' <=> task'[x].write \in screen.kind.first
    BY <1>5 DEF PageToReset
  <2>3. 0 \in 0..MaxRows
    BY ScreensAssumption
  <2>4. \A x \in Task : (Busy(x))' =>
       /\ task'[x].pc # "counted" => task'[x].version \in 0..MaxRows
       /\ task'[x].pc = "applied" => task'[x].version <= rows
       /\ task'[x].pc \in {"sent", "applied"} => task'[x].write \in screen.kind.writes
       /\ task'[x].pc \in {"counting", "counted"} => screen.kind.counted
       /\ task'[x].pc = "resetting" => (PageToReset(x))'
       /\ task'[x].pc = "session" => task'[x].write = None
    <3>1. ASSUME NEW x \in Task, Busy(x), task'[x] = task[x]
          PROVE  /\ task'[x].pc # "counted" => task'[x].version \in 0..MaxRows
                 /\ task'[x].pc = "applied" => task'[x].version <= rows
                 /\ task'[x].pc \in {"sent", "applied"} => task'[x].write \in screen.kind.writes
                 /\ task'[x].pc \in {"counting", "counted"} => screen.kind.counted
                 /\ task'[x].pc = "resetting" => (PageToReset(x))'
                 /\ task'[x].pc = "session" => task'[x].write = None
      BY <2>2, <3>1 DEF ScreenInv, TasksOK, PageToReset
    <3> QED
      BY <1>3, <2>1, <2>3, <3>1
  <2> QED
    BY <1>1, <1>5, <1>6, <2>4 DEF ScreenInv, TasksOK
<1>9. Asks(t)
  <2>1. t \notin Loading
    BY <1>1 DEF Loading
  <2>2. (Wanted(None))' = v
    BY <1>2, <1>5, KindFacts DEF Wanted
  <2> QED
    BY <1>1, <1>3, <1>4, <1>6, <2>1, <2>2 DEF Asks
<1> QED
  BY <1>7, <1>8, <1>9, AskKeeps DEF ScreenInv

\* Steps of the user and the server that leave all loads alone.
LEMMA DialogKeeps ==
  ASSUME ScreenInv, DialogOpens
  PROVE  ScreenInv'
<1>1. /\ screen' = [screen EXCEPT !.error = FALSE] /\ rows' = rows /\ task' = task
      /\ memory' = [memory EXCEPT !.astray = {"rows", "counts"}]
  BY DEF DialogOpens
<1>2. /\ memory' \in Memory /\ memory'.mine = memory.mine /\ memory'.before = memory.before
      /\ memory'.late = memory.late /\ memory'.stale = memory.stale
      /\ memory'.astray = {"rows", "counts"} /\ memory.astray \subseteq {"rows", "counts"}
  BY <1>1 DEF ScreenInv, ScreenTypes, Memory
<1>3. /\ screen'.kind = screen.kind /\ screen'.at = screen.at /\ screen'.view = screen.view
      /\ screen'.shown = screen.shown /\ screen'.count = screen.count
  BY <1>1 DEF ScreenInv, ScreenTypes
<1>4. ScreenTypes'
  BY <1>1, <1>2 DEF ScreenInv, ScreenTypes
<1>5. TasksOK'
  BY <1>1, <1>2, <1>3 DEF ScreenInv, TasksOK, Busy, At, PageToReset
<1>6. Loading' = Loading /\ (Opening => Opening')
  BY <1>1, <1>3 DEF Loading, Opening, At
<1>7. \A u \in Loading : GoesOn(u)
  BY <1>1 DEF GoesOn
<1>8. Calm
  BY <1>2, <1>3, <1>6, <1>7 DEF Calm
<1> QED
  BY <1>4, <1>5, <1>8, CalmKeeps DEF ScreenInv

LEMMA SubmitKeeps ==
  ASSUME ScreenInv, NEW t \in Task, NEW w \in screen.kind.writes, Submits(t, w)
  PROVE  ScreenInv'
<1> DEFINE request == Call("sent", screen.view, w)
<1>1. /\ task[t] = Idle /\ screen.at = "open" /\ task' = [task EXCEPT ![t] = request]
      /\ screen' = [screen EXCEPT !.error = @ /\ w \notin screen.kind.wipes]
      /\ rows' = rows /\ memory' = memory
  BY DEF Submits
<1>2. screen.kind \in AllScreens /\ screen.view \in AnyView /\ w \in WriteNames
  BY KindFacts DEF ScreenInv, ScreenTypes
<1>3. /\ request \in TaskState /\ request # Idle /\ request.pc = "sent" /\ request.write = w /\ request.version = 0
  BY <1>2, CallMade DEF Phase
<1> HIDE DEF request
<1>4. /\ task' \in [Task -> TaskState \cup {Idle}] /\ task'[t] = request
      /\ \A x \in Task \ {t} : task'[x] = task[x]
  BY <1>1, <1>3 DEF ScreenInv, ScreenTypes
<1>5. /\ screen'.kind = screen.kind /\ screen'.at = "open" /\ screen'.view = screen.view
      /\ screen'.shown = screen.shown /\ screen'.count = screen.count
      /\ screen'.error = (screen.error /\ w \notin screen.kind.wipes)
  BY <1>1 DEF ScreenInv, ScreenTypes
<1>6. ScreenTypes'
  BY <1>1, <1>4 DEF ScreenInv, ScreenTypes
<1>7. TasksOK'
  <2>1. \A x \in Task : (Busy(x))' => (Busy(x) /\ task'[x] = task[x]) \/ x = t
    BY <1>4 DEF Busy
  <2>2. \A x \in Task : (PageToReset(x))' <=> task'[x].write \in screen.kind.first
    BY <1>5 DEF PageToReset
  <2> QED
    BY <1>1, <1>3, <1>4, <1>5, <2>1, <2>2, ScreensAssumption DEF ScreenInv, TasksOK, PageToReset
<1>8. Loading' = Loading /\ \A u \in Loading : GoesOn(u)
  BY <1>1, <1>3, <1>4 DEF Loading, LoadPhase, GoesOn
<1>9. screen.error \/ Wiping => (screen.error \/ Wiping)'
  <2>1. \A x \in Task : WritesRow(x) => (WritesRow(x))' /\ task'[x] = task[x]
    BY <1>1, <1>4 DEF WritesRow, Busy
  <2>2. (WritesRow(t))' /\ task'[t].write = w
    BY <1>3, <1>4 DEF WritesRow, Busy
  <2> QED
    BY <1>5, <2>1, <2>2 DEF Wiping
<1>10. Calm
  BY <1>1, <1>5, <1>8, <1>9 DEF Calm, Opening
<1> QED
  BY <1>6, <1>7, <1>10, CalmKeeps DEF ScreenInv

LEMMA AppliedKeeps ==
  ASSUME ScreenInv, NEW t \in Task, WriteApplied(t)
  PROVE  ScreenInv'
<1>1. /\ task[t] \in TaskState /\ task[t].pc = "sent" /\ Busy(t) /\ t \notin Loading
  BY CallFacts DEF WriteApplied, ScreenInv, LoadPhase
<1>2. rows' \in 0..MaxRows /\ rows' >= rows
  BY ScreensAssumption DEF WriteApplied, ScreenInv, ScreenTypes
<1>3. screen' = screen /\ memory' = memory
  BY DEF WriteApplied
<1>4. /\ task' \in [Task -> TaskState \cup {Idle}]
      /\ task'[t] # Idle /\ task'[t].pc = "applied" /\ task'[t].version = rows'
      /\ task'[t].view = task[t].view /\ task'[t].write = task[t].write
      /\ \A u \in Task \ {t} : task'[u] = task[u]
  <2>1. Advances(t, "applied", rows')
    BY DEF WriteApplied, Advances
  <2>2. "applied" \in Phase /\ ScreenTypes /\ task[t] # Idle
    BY <1>1 DEF Phase, ScreenInv, Busy
  <2> QED
    BY <1>2, <2>1, <2>2, AdvancesIs
<1>5. ScreenTypes'
  BY <1>2, <1>3, <1>4 DEF ScreenInv, ScreenTypes
<1>6. TasksOK'
  <2>1. \A x \in Task : ((Busy(x))' <=> Busy(x)) /\ ((At(x, "session"))' <=> At(x, "session"))
    BY <1>1, <1>4 DEF Busy, At
  <2>2. \A x \in Task : (PageToReset(x))' <=> task'[x].write \in screen.kind.first
    BY <1>3 DEF PageToReset
  <2>3. memory.mine \in 0..MaxRows /\ rows \in 0..MaxRows
    BY DEF ScreenInv, ScreenTypes, Memory
  <2>4. \A x \in Task : Busy(x) /\ task[x].pc = "applied" => task[x].version \in 0..MaxRows
    BY DEF ScreenInv, TasksOK
  <2>5. \A x \in Task : (Busy(x))' =>
       /\ task'[x].pc # "counted" => task'[x].version \in 0..MaxRows
       /\ task'[x].pc = "applied" => task'[x].version <= rows'
       /\ task'[x].pc \in {"sent", "applied"} => task'[x].write \in screen.kind.writes
       /\ task'[x].pc \in {"counting", "counted"} => screen.kind.counted
       /\ task'[x].pc = "resetting" => (PageToReset(x))'
       /\ task'[x].pc = "session" => task'[x].write = None
       /\ screen.at \in {"loading", "open"}
    <3> SUFFICES ASSUME NEW x \in Task, (Busy(x))'
                 PROVE  /\ task'[x].pc # "counted" => task'[x].version \in 0..MaxRows
                        /\ task'[x].pc = "applied" => task'[x].version <= rows'
                        /\ task'[x].pc \in {"sent", "applied"} => task'[x].write \in screen.kind.writes
                        /\ task'[x].pc \in {"counting", "counted"} => screen.kind.counted
                        /\ task'[x].pc = "resetting" => (PageToReset(x))'
                        /\ task'[x].pc = "session" => task'[x].write = None
                        /\ screen.at \in {"loading", "open"}
      OBVIOUS
    <3>1. CASE x = t
      BY <1>1, <1>2, <1>4, <3>1 DEF ScreenInv, TasksOK
    <3>2. CASE x # t
      BY <1>2, <1>4, <2>1, <2>2, <2>3, <2>4, <3>2 DEF ScreenInv, TasksOK, PageToReset
    <3> QED
      BY <3>1, <3>2
  <2> QED
    BY <1>2, <1>3, <2>1, <2>3, <2>5 DEF ScreenInv, TasksOK
<1>7. Loading' = Loading /\ \A u \in Loading : GoesOn(u)
  BY <1>1, <1>4 DEF Loading, LoadPhase, GoesOn
<1>8. (Wiping => Wiping') /\ (Opening => Opening')
  <2>1. \A x \in Task : WritesRow(x) => (WritesRow(x))' /\ task'[x].write = task[x].write
    BY <1>4 DEF WritesRow, Busy
  <2>2. \A x \in Task : At(x, "session") => (At(x, "session"))'
    BY <1>1, <1>4 DEF At
  <2> QED
    BY <1>3, <2>1, <2>2 DEF Wiping, Opening
<1>9. Calm
  BY <1>3, <1>7, <1>8 DEF Calm
<1> QED
  BY <1>5, <1>6, <1>9, CalmKeeps DEF ScreenInv

\* A call that is no load ends: a write is refused, or needs no reload.
LEMMA EndsCalmly ==
  ASSUME ScreenInv, NEW t \in Task, At(t, "sent") \/ At(t, "applied"), Ends(t),
         rows' = rows, memory' = memory, screen' = [screen EXCEPT !.error = screen'.error],
         screen'.error \in BOOLEAN, screen.error => screen'.error,
         task[t].write \in screen.kind.wipes => screen'.error
  PROVE  ScreenInv'
<1>1. /\ task[t] \in TaskState /\ task[t].pc \in {"sent", "applied"} /\ Busy(t) /\ t \notin Loading
  BY CallFacts DEF ScreenInv, LoadPhase
<1>2. /\ task' \in [Task -> TaskState \cup {Idle}] /\ task'[t] = Idle
      /\ \A u \in Task \ {t} : task'[u] = task[u]
  BY EndsIs DEF ScreenInv
<1>3. /\ screen'.kind = screen.kind /\ screen'.at = screen.at /\ screen'.view = screen.view
      /\ screen'.shown = screen.shown /\ screen'.count = screen.count
  BY DEF ScreenInv, ScreenTypes
<1>4. screen' \in [kind : AllScreens, at : {"closed", "loading", "open", "left"}, view : AnyView,
                   shown : [view : AnyView, version : 0..MaxRows] \cup {None},
                   count : 0..MaxRows \cup {None}, error : BOOLEAN, token : BOOLEAN]
  BY DEF ScreenInv, ScreenTypes
<1>5. ScreenTypes'
  BY <1>2, <1>4 DEF ScreenInv, ScreenTypes
<1>6. TasksOK'
  BY <1>1, <1>3, EndKeepsTasks
<1>7. Loading' = Loading /\ \A u \in Loading : GoesOn(u)
  BY <1>1, <1>2 DEF Loading, LoadPhase, GoesOn
<1>8. Opening => Opening'
  BY <1>1, <1>2, <1>3 DEF Opening, At
<1>9. screen.error \/ Wiping => (screen.error \/ Wiping)'
  <2>1. \A x \in Task \ {t} : WritesRow(x) => (WritesRow(x))' /\ task'[x] = task[x]
    BY <1>2 DEF WritesRow, Busy
  <2> QED
    BY <1>3, <2>1 DEF Wiping
<1>10. Calm
  BY <1>3, <1>7, <1>8, <1>9 DEF Calm
<1> QED
  BY <1>5, <1>6, <1>10, CalmKeeps DEF ScreenInv

LEMMA AcknowledgedKeeps ==
  ASSUME ScreenInv, NEW t \in Task, WriteAnswered(t)
  PROVE  ScreenInv'
<1> DEFINE w == task[t].write
           view == IF w \in screen.kind.first THEN FirstPage(task[t].view) ELSE task[t].view
           m == [memory EXCEPT !.mine = IF w \in RowsUnchanged \/ @ > task[t].version THEN @
                                        ELSE task[t].version]
<1>1. /\ task[t] \in TaskState /\ task[t].pc = "applied" /\ Busy(t) /\ t \notin Loading
      /\ At(t, "applied")
  BY CallFacts DEF WriteAnswered, ScreenInv, LoadPhase
<1>2. /\ IF ReloadsAfter(w)
           THEN /\ task' = [task EXCEPT ![t].pc = "asked", ![t].view = view, ![t].version = 0]
                /\ memory' = Asked(m, t, w, view)
           ELSE Ends(t) /\ memory' = m
      /\ screen' = screen /\ rows' = rows
  BY DEF WriteAnswered
<1>3. /\ memory \in Memory /\ screen.kind \in AllScreens /\ w \in screen.kind.writes
      /\ task[t].version \in 0..MaxRows /\ task[t].version <= rows /\ memory.mine <= rows
      /\ rows \in 0..MaxRows
  BY <1>1 DEF ScreenInv, ScreenTypes, TasksOK
<1>4. /\ m \in Memory /\ m.mine <= rows /\ m.before = memory.before /\ m.stale = memory.stale
      /\ m.late = memory.late /\ m.astray = memory.astray
      /\ w \in RowsUnchanged => m = memory
  BY <1>3 DEF Memory
<1>5. CASE ~ReloadsAfter(w)
  <2>1. w \in RowsUnchanged /\ w \notin screen.kind.wipes
    BY <1>3, <1>5, KindFacts DEF ReloadsAfter
  <2>2. Ends(t) /\ memory' = memory /\ screen' = screen /\ rows' = rows
    BY <1>2, <1>4, <1>5, <2>1
  <2>3. screen' = [screen EXCEPT !.error = screen'.error] /\ screen'.error \in BOOLEAN
        /\ (screen.error => screen'.error)
    BY <2>2 DEF ScreenInv, ScreenTypes
  <2> QED
    BY <1>1, <2>1, <2>2, <2>3, EndsCalmly
<1>6. CASE ReloadsAfter(w)
  <2> HIDE DEF m, view, w
  <2>1. view \in AnyView
    <3>1. task[t].view \in AnyView
      BY <1>1 DEF TaskState
    <3> QED
      BY <3>1 DEF view, FirstPage, AnyView
  <2>2. /\ task' = [task EXCEPT ![t].pc = "asked", ![t].view = view, ![t].version = 0]
        /\ memory' = Asked(m, t, w, view)
    BY <1>2, <1>6
  <2>3. /\ task' \in [Task -> TaskState \cup {Idle}]
        /\ task'[t] # Idle /\ task'[t].pc = "asked" /\ task'[t].version = 0
        /\ task'[t].view = view /\ task'[t].write = w
        /\ \A u \in Task \ {t} : task'[u] = task[u]
    <3>1. task'[t] = [pc |-> "asked", view |-> view, write |-> w, version |-> 0]
      BY <1>1, <2>2 DEF ScreenInv, ScreenTypes, TaskState, w
    <3>2. task'[t] \in TaskState
      BY <1>1, <2>1, <3>1, ScreensAssumption DEF TaskState, Phase, w
    <3>3. task'[t] # Idle
      BY <3>1 DEF Idle
    <3> QED
      BY <2>2, <3>1, <3>2, <3>3 DEF ScreenInv, ScreenTypes
  <2>4. /\ memory' \in Memory /\ memory'.mine = m.mine /\ memory'.late = memory.late
        /\ memory'.before = memory.before \cup (Loading \X {t})
        /\ memory'.stale = IF view = Wanted(w) THEN memory.stale ELSE memory.stale \cup {t}
    <3>1. Loading \X {t} \subseteq Task \X Task
      BY DEF Loading
    <3> QED
      BY <1>4, <2>2, <3>1 DEF Asked, Memory
  <2>5. ScreenTypes'
    BY <1>2, <2>3, <2>4 DEF ScreenInv, ScreenTypes
  <2>6. TasksOK'
    <3>1. \A x \in Task : ((Busy(x))' <=> Busy(x)) /\ ((At(x, "session"))' <=> At(x, "session"))
      BY <1>1, <2>3 DEF Busy, At
    <3>2. \A x \in Task : (PageToReset(x))' <=> task'[x].write \in screen.kind.first
      BY <1>2 DEF PageToReset
    <3> QED
      BY <1>1, <1>2, <1>4, <2>3, <2>4, <3>1, <3>2, ScreensAssumption
         DEF ScreenInv, TasksOK, PageToReset
  <2>7. (Wanted(task[t].write))' = Wanted(w)
    BY <1>2, <2>3 DEF Wanted
  <2>8. Asks(t)
    BY <1>1, <2>3, <2>4, <2>7 DEF Asks, w
  <2> QED
    BY <2>5, <2>6, <2>8, AskKeeps DEF ScreenInv
<1> QED
  BY <1>5, <1>6

LEMMA WriteFailsKeeps ==
  ASSUME ScreenInv, NEW t \in Task, WriteFails(t)
  PROVE  ScreenInv'
<1>1. /\ At(t, "sent") \/ At(t, "applied")
      /\ screen' = [screen EXCEPT !.error = @ \/ ~FromDialog(task[t].write)]
      /\ Ends(t) /\ rows' = rows /\ memory' = memory
  BY DEF WriteFails
<1>2. screen'.error = (screen.error \/ ~FromDialog(task[t].write)) /\ screen.error \in BOOLEAN
      /\ screen.kind \in AllScreens
  BY <1>1 DEF ScreenInv, ScreenTypes
<1>3. screen' = [screen EXCEPT !.error = screen'.error] /\ screen'.error \in BOOLEAN
  BY <1>1, <1>2
<1>4. task[t].write \in screen.kind.wipes => screen'.error
  BY <1>2, KindFacts
<1> QED
  BY <1>1, <1>2, <1>3, <1>4, EndsCalmly

LEMMA OthersKeep ==
  ASSUME ScreenInv, OthersWrite
  PROVE  ScreenInv'
<1>1. /\ screen' = screen /\ task' = task /\ memory' = memory
      /\ rows' \in 0..MaxRows /\ rows' = rows + 1 /\ rows \in 0..MaxRows
  BY ScreensAssumption DEF OthersWrite, ScreenInv, ScreenTypes
<1>2. ScreenTypes'
  BY <1>1 DEF ScreenInv, ScreenTypes
<1>3. memory.mine <= rows' /\ \A t \in Task : Busy(t) /\ task[t].pc = "applied" => task[t].version <= rows'
  BY <1>1 DEF ScreenInv, ScreenTypes, TasksOK, Memory
<1>4. TasksOK'
  BY <1>1, <1>3 DEF ScreenInv, TasksOK, Busy, At, PageToReset
<1>5. Loading' = Loading /\ (Opening => Opening') /\ (Wiping => Wiping')
  BY <1>1 DEF Loading, Opening, Wiping, WritesRow, Busy, At
<1>6. \A u \in Loading : GoesOn(u)
  BY <1>1 DEF GoesOn
<1>7. Calm
  BY <1>1, <1>5, <1>6 DEF Calm
<1> QED
  BY <1>2, <1>4, <1>7, CalmKeeps DEF ScreenInv

LEMMA ScreenNext1 == ScreenInv /\ [ScreenNext]_screenVars => ScreenInv'
<1> SUFFICES ASSUME ScreenInv, [ScreenNext]_screenVars PROVE ScreenInv'
  OBVIOUS
<1>1. CASE UNCHANGED screenVars
  <2>1. UNCHANGED <<screen, task, rows, memory>>
    BY <1>1 DEF screenVars
  <2>2. ScreenTypes' /\ TasksOK'
    BY <2>1 DEF ScreenInv, ScreenTypes, TasksOK, Busy, At, PageToReset
  <2>3. Loading' = Loading /\ (Opening => Opening') /\ (Wiping => Wiping')
    BY <2>1 DEF Loading, Opening, Wiping, WritesRow, Busy, At
  <2>4. \A u \in Loading : GoesOn(u)
    BY <2>1 DEF GoesOn
  <2>5. Calm
    BY <2>1, <2>3, <2>4 DEF Calm
  <2> QED
    BY <2>2, <2>5, CalmKeeps DEF ScreenInv
<1>2. ASSUME NEW t \in Task,
             \/ \E s \in AllScreens : ScreenOpens(s, t)
             \/ SessionAnswered(t) \/ RowsRead(t) \/ RowsShown(t) \/ LoadFails(t)
             \/ CountRead(t) \/ CountFails(t) \/ CountsShown(t)
             \/ PageReset(t) \/ SignedOut(t)
      PROVE  ScreenInv'
  BY <1>2, OpenKeeps, SessionKeeps, ReadKeeps, ShowKeeps, LoadFailsKeeps, CountsKeep, ResetKeeps,
     SignedOutKeeps
<1>3. ASSUME NEW t \in Task,
             \/ \E u \in Task, v \in Views(screen.kind) : ViewChanges(t, u, v)
             \/ \E w \in screen.kind.writes : Submits(t, w)
             \/ WriteApplied(t) \/ WriteAnswered(t) \/ WriteFails(t)
      PROVE  ScreenInv'
  BY <1>3, ViewKeeps, SubmitKeeps, AppliedKeeps, AcknowledgedKeeps, WriteFailsKeeps
<1> QED
  BY <1>1, <1>2, <1>3, DialogKeeps, OthersKeep DEF ScreenNext

\* A screen at rest shows the rows of its view, none older than its user's own
\* writes, and no older count beside them, unless what it shows was overtaken.
THEOREM ScreensAreCurrent == ScreenSpec => []ScreenIsCurrent
<1>1. ScreenInv => ScreenIsCurrent
  <2> SUFFICES ASSUME ScreenInv, screen.at = "open", ~Awaiting, ~screen.error
               PROVE  /\ "rows" \notin memory.astray =>
                           /\ screen.shown # None
                           /\ screen.shown.view = screen.view
                           /\ screen.shown.version >= memory.mine
                      /\ "counts" \notin memory.astray /\ screen.count # None =>
                           screen.count >= memory.mine
    BY DEF ScreenIsCurrent
  <2>1. \A t \in Task : ~Busy(t)
    BY DEF Awaiting, Busy
  <2>2. Loading = {} /\ ~Wiping /\ ~Opening /\ \A t \in Task : ~RowsComing(t)
    BY <2>1 DEF Loading, Busy, Wiping, WritesRow, Opening, RowsComing, AwaitsRows
  <2>3. Due = screen.view
    BY <2>1 DEF Due, At, Busy
  <2> QED
    BY <2>2, <2>3 DEF ScreenInv, RowsPromised, RowsFresh, CountsPromised, CountComing
<1> QED
  BY <1>1, ScreenInit1, ScreenNext1, PTL DEF ScreenSpec

\* Every view a screen holds, shows or loads is one that screen offers.
HeldViews ==
  /\ screen.view \in Views(screen.kind)
  /\ screen.shown # None => screen.shown.view \in Views(screen.kind)
  /\ \A t \in Task : Busy(t) => task[t].view \in Views(screen.kind)
  /\ screen.at = "closed" =>
       screen.view = FirstView /\ screen.shown = None /\ \A t \in Task : ~Busy(t)

\* Every screen has a first page to go back to.
LEMMA FirstPageOffered ==
  ASSUME NEW s \in AllScreens
  PROVE  /\ FirstView \in Views(s)
         /\ \A v \in Views(s) : FirstPage(v) \in Views(s)
<1>1. 1 \in s.pages
  BY DEF AllScreens, PostsScreen, ContentScreen, CommentsScreen, PaidScreen, ProductsScreen,
         PlacementsScreen, ConversionsScreen, SchedulerScreen, DashboardScreen, SettingsScreen
<1>2. "all" \in Filters(s)
  BY DEF Filters
<1> QED
  BY <1>1, <1>2 DEF Views, FirstView, FirstPage

\* The views stay among those offered while the kind does.
LEMMA ViewsStay ==
  ASSUME ScreenTypes, HeldViews, UNCHANGED screen.kind, screen'.at # "closed",
         screen'.view \in Views(screen.kind),
         screen'.shown = screen.shown \/ screen'.shown.view \in Views(screen.kind),
         \A t \in Task : task'[t] # Idle =>
           \/ task[t] # Idle /\ task'[t].view = task[t].view
           \/ task'[t].view \in Views(screen.kind)
  PROVE  HeldViews'
BY DEF HeldViews, Busy

\* A closed screen holds the first view.
LEMMA ViewsInit == ScreenInit => HeldViews
<1> SUFFICES ASSUME ScreenInit PROVE HeldViews
  OBVIOUS
<1>1. PostsScreen \in AllScreens
  BY DEF AllScreens
<1>2. /\ screen.kind = PostsScreen /\ screen.view = FirstView /\ screen.shown = None
      /\ \A t \in Task : ~Busy(t)
  BY DEF ScreenInit, Blank, Busy
<1> QED
  BY <1>1, <1>2, FirstPageOffered DEF HeldViews

\* No step gives a screen a view it does not offer.
LEMMA ViewsNext == ScreenInv /\ HeldViews /\ [ScreenNext]_screenVars => HeldViews'
<1> SUFFICES ASSUME ScreenInv, HeldViews, [ScreenNext]_screenVars PROVE HeldViews'
  OBVIOUS
<1>s. /\ screen \in [kind : AllScreens, at : {"closed", "loading", "open", "left"}, view : AnyView,
                     shown : [view : AnyView, version : 0..MaxRows] \cup {None},
                     count : 0..MaxRows \cup {None}, error : BOOLEAN, token : BOOLEAN]
      /\ task \in [Task -> TaskState \cup {Idle}] /\ ScreenTypes
  BY DEF ScreenInv, ScreenTypes
<1>p. \A v \in Views(screen.kind) : FirstPage(v) \in Views(screen.kind)
  BY <1>s, FirstPageOffered
<1>o. ASSUME NEW t \in Task, NEW pc, At(t, pc)
      PROVE  /\ task[t] \in TaskState /\ Busy(t) /\ task[t] # Idle /\ screen.at # "closed"
             /\ task[t].view \in Views(screen.kind)
  BY <1>o, <1>s DEF At, Busy, HeldViews
<1>v. screen.view \in Views(screen.kind)
  BY DEF HeldViews
<1>1. ASSUME NEW t \in Task, NEW s \in AllScreens, ScreenOpens(s, t) PROVE HeldViews'
  <2> DEFINE q == Call("session", FirstView, None)
  <2>1. q.view = FirstView
    BY DEF Call
  <2>2. screen.at = "closed" /\ screen' = [screen EXCEPT !.at = "loading", !.kind = s]
        /\ task' = [task EXCEPT ![t] = q]
    BY <1>1 DEF ScreenOpens
  <2> HIDE DEF q
  <2>3. screen'.kind = s /\ screen'.at = "loading" /\ screen'.view = FirstView /\ screen'.shown = None
    BY <1>s, <2>2 DEF HeldViews
  <2>4. \A u \in Task : task'[u] # Idle => task'[u].view = FirstView
    BY <1>s, <2>1, <2>2 DEF HeldViews, Busy
  <2> QED
    BY <2>3, <2>4, FirstPageOffered DEF HeldViews, Busy
<1>2. ASSUME NEW t \in Task,
             \/ SessionAnswered(t) \/ RowsRead(t) \/ CountRead(t) \/ CountFails(t) \/ WriteApplied(t)
      PROVE  HeldViews'
  <2>1. task[t] \in TaskState /\ Busy(t) /\ screen.at # "closed"
    BY <1>2, <1>o DEF SessionAnswered, RowsRead, CountRead, CountFails, WriteApplied
  <2>2. /\ screen'.kind = screen.kind /\ screen'.at = screen.at /\ screen'.view = screen.view
        /\ screen'.shown = screen.shown
    BY <1>2, <1>s DEF SessionAnswered, RowsRead, CountRead, CountFails, WriteApplied
  <2>3. \A u \in Task : task'[u] # Idle => task[u] # Idle /\ task'[u].view = task[u].view
    <3>1. task'[t].view = task[t].view /\ \A u \in Task \ {t} : task'[u] = task[u]
      BY <1>2, <1>s, <2>1 DEF SessionAnswered, RowsRead, CountRead, CountFails, WriteApplied, Goes,
                              TaskState
    <3> QED
      BY <2>1, <3>1 DEF Busy
  <2> QED
    BY <1>s, <1>v, <2>1, <2>2, <2>3, ViewsStay
<1>3. ASSUME NEW t \in Task, RowsShown(t) \/ LoadFails(t) \/ CountsShown(t) \/ PageReset(t)
      PROVE  HeldViews'
  <2>1. task[t].view \in Views(screen.kind) /\ task[t] # Idle /\ task[t] \in TaskState
        /\ screen.at # "closed"
    BY <1>3, <1>o DEF RowsShown, LoadFails, CountsShown, PageReset
  <2>2. /\ screen'.kind = screen.kind /\ screen'.at \in {screen.at, "open"}
        /\ screen'.view \in {screen.view, FirstPage(screen.view)}
        /\ screen'.shown = screen.shown \/ screen'.shown.view = task[t].view
    <3>1. CASE RowsShown(t)
      BY <1>s, <3>1 DEF RowsShown
    <3>2. CASE LoadFails(t)
      BY <1>s, <3>2 DEF LoadFails
    <3>3. CASE CountsShown(t)
      BY <1>s, <3>3 DEF CountsShown
    <3>4. CASE PageReset(t)
      BY <1>s, <3>4 DEF PageReset
    <3> QED
      BY <1>3, <3>1, <3>2, <3>3, <3>4
  <2>3. \A u \in Task : task'[u] # Idle => task[u] # Idle /\ task'[u].view = task[u].view
    <3>1. Ends(t) \/ (\E pc \in {"resetting", "counting"} : Goes(t, pc))
      BY <1>3 DEF RowsShown, LoadFails, CountsShown, PageReset
    <3>2. CASE Ends(t)
      BY <1>s, <3>2, EndsIs
    <3>3. ASSUME NEW pc \in {"resetting", "counting"}, Goes(t, pc)
          PROVE  \A u \in Task : task'[u] # Idle => task[u] # Idle /\ task'[u].view = task[u].view
      <4>1. pc \in Phase
        BY DEF Phase
      <4> QED
        BY <1>s, <2>1, <3>3, <4>1, GoesIs
    <3> QED
      BY <3>1, <3>2, <3>3
  <2>4. screen'.view \in Views(screen.kind)
    BY <1>p, <1>v, <2>2
  <2> QED
    BY <1>s, <2>1, <2>2, <2>3, <2>4, ViewsStay
<1>4. ASSUME NEW t \in Task, SignedOut(t) PROVE HeldViews'
  <2>1. /\ screen'.kind = screen.kind /\ screen'.at = "left" /\ screen'.view = FirstView
        /\ screen'.shown = None /\ \A u \in Task : task'[u] = Idle
    BY <1>4, <1>s DEF SignedOut, Blank
  <2>2. FirstView \in Views(screen.kind)
    BY <1>s, FirstPageOffered
  <2> QED
    BY <2>1, <2>2 DEF HeldViews, Busy
<1>5. ASSUME NEW t \in Task, NEW u \in Task, NEW v \in Views(screen.kind), ViewChanges(t, u, v)
      PROVE  HeldViews'
  <2>1. /\ screen'.kind = screen.kind /\ screen'.at = "open" /\ screen'.view = v
        /\ screen'.shown = screen.shown
    BY <1>5, <1>s DEF ViewChanges
  <2>2. \A q \in Task : task'[q] \in {task[q], Call("session", v, None), Call("asked", v, None)}
    BY <1>5, <1>s DEF ViewChanges
  <2>3. Call("session", v, None).view = v /\ Call("asked", v, None).view = v
    BY DEF Call
  <2> QED
    BY <1>s, <2>1, <2>2, <2>3, ViewsStay
<1>6. ASSUME NEW t \in Task, NEW w \in screen.kind.writes, Submits(t, w) PROVE HeldViews'
  <2>1. /\ screen'.kind = screen.kind /\ screen'.at = "open" /\ screen'.view = screen.view
        /\ screen'.shown = screen.shown
    BY <1>6, <1>s DEF Submits
  <2>2. \A q \in Task : task'[q] \in {task[q], Call("sent", screen.view, w)}
    BY <1>6, <1>s DEF Submits
  <2>3. Call("sent", screen.view, w).view = screen.view
    BY DEF Call
  <2> QED
    BY <1>s, <1>v, <2>1, <2>2, <2>3, ViewsStay
<1>7. ASSUME NEW t \in Task, WriteAnswered(t) PROVE HeldViews'
  <2>1. task[t] \in TaskState /\ Busy(t) /\ screen.at # "closed" /\ task[t].view \in Views(screen.kind)
        /\ UNCHANGED screen
    BY <1>7, <1>o DEF WriteAnswered
  <2>2. \A q \in Task \ {t} : task'[q] = task[q]
    BY <1>7, <1>s DEF WriteAnswered, Ends
  <2>3. task'[t] # Idle => task'[t].view \in {task[t].view, FirstPage(task[t].view)}
    BY <1>7, <1>s, <2>1 DEF WriteAnswered, Ends, TaskState
  <2>4. task'[t] # Idle => task'[t].view \in Views(screen.kind)
    BY <1>p, <2>1, <2>3
  <2> QED
    BY <1>s, <1>v, <2>1, <2>2, <2>4, ViewsStay
<1>8. ASSUME NEW t \in Task, WriteFails(t) PROVE HeldViews'
  <2>1. screen.at # "closed"
    BY <1>8, <1>o DEF WriteFails
  <2>2. /\ screen'.kind = screen.kind /\ screen'.at = screen.at /\ screen'.view = screen.view
        /\ screen'.shown = screen.shown
    BY <1>8, <1>s DEF WriteFails
  <2>3. \A u \in Task : task'[u] # Idle => task'[u] = task[u]
    BY <1>8, <1>s DEF WriteFails, Ends
  <2> QED
    BY <1>s, <1>v, <2>1, <2>2, <2>3, ViewsStay
<1>9. CASE DialogOpens
  <2>1. /\ screen'.kind = screen.kind /\ screen'.at = "open" /\ screen'.view = screen.view
        /\ screen'.shown = screen.shown /\ task' = task
    BY <1>9, <1>s DEF DialogOpens
  <2> QED
    BY <1>s, <1>v, <2>1, ViewsStay
<1>10. CASE UNCHANGED <<screen, task>>
  BY <1>10 DEF HeldViews, Busy
<1> QED
  BY <1>1, <1>2, <1>3, <1>4, <1>5, <1>6, <1>7, <1>8, <1>9, <1>10
     DEF ScreenNext, OthersWrite, screenVars

\* Every screen keeps its types: it holds, shows and loads only views that it
\* offers.
LEMMA ScreenTypesHold == ScreenSpec => []ScreenTypeOK
<1>1. ScreenInv /\ HeldViews => ScreenTypeOK
  <2> SUFFICES ASSUME ScreenInv, HeldViews PROVE ScreenTypeOK
    OBVIOUS
  <2>1. ScreenTypes
    BY DEF ScreenInv
  <2>2. screen.shown = None \/ screen.shown \in [view : Views(screen.kind), version : 0..MaxRows]
    BY <2>1 DEF ScreenTypes, HeldViews
  <2>3. \A t \in Task : task[t] # Idle =>
          /\ task[t].pc \in Phase
          /\ task[t].view \in Views(screen.kind)
          /\ task[t].version \in 0..MaxRows \cup {None}
    BY <2>1 DEF ScreenTypes, TaskState, HeldViews, Busy
  <2> QED
    BY <2>1, <2>2, <2>3 DEF ScreenTypes, ScreenTypeOK, HeldViews
<1> QED
  BY <1>1, ScreenInit1, ScreenNext1, ViewsInit, ViewsNext, PTL DEF ScreenSpec

-----------------------------------------------------------------------------
(* The HTTP contract: the client and the controllers agree call by call,   *)
(* so a call fits its route whatever is filled in; what is refused is      *)
(* refused for the session.                                                *)

\* Whatever is filled in, the fields a call sends are fields its DTO takes.
Fits(sends, dto) ==
  /\ dto.required \subseteq sends.always
  /\ sends.always \subseteq dto.required \cup dto.optional
  /\ sends.maybe \subseteq dto.required \cup dto.optional

\* A call fits its route: the fields it sends, the token where the CSRF guard asks
\* for one, and both guards on every write.
Agree(name, api, route) ==
  /\ Fits(api.sends, route.dto)
  /\ api.signed \in BOOLEAN
  /\ "csrf" \in route.guards => api.signed
  /\ api.signed /\ name # "logout" => {"admin", "csrf"} \subseteq route.guards

Agrees(client, routes) ==
  /\ DOMAIN client = DOMAIN routes
  /\ \A name \in DOMAIN client : Agree(name, client[name], routes[name])

\* A read of a route the admin guard covers.
LEMMA ReadAgrees ==
  ASSUME NEW name, NEW sends, NEW dto, Fits(sends, dto)
  PROVE  Agree(name, Plain(sends), Read(dto))
BY DEF Agree, Plain, Read, Route

\* A write that carries the token, to a route both guards cover.
LEMMA WriteAgrees ==
  ASSUME NEW name, NEW sends, NEW dto, Fits(sends, dto)
  PROVE  Agree(name, Signed(sends), Write(dto))
BY DEF Agree, Signed, Write, Route

\* The same where the route is throttled too.
LEMMA ThrottledAgrees ==
  ASSUME NEW name, NEW sends, NEW dto, Fits(sends, dto)
  PROVE  Agree(name, Signed(sends), Throttled(dto))
BY DEF Agree, Signed, Throttled, Route

\* The two calls of a session itself.
LEMMA OpenAgrees ==
  ASSUME NEW sends, NEW dto, Fits(sends, dto)
  PROVE  /\ Agree("logout", Signed(sends), Route({}, dto))
         /\ Agree("me", Plain(sends), Route({}, dto))
BY DEF Agree, Signed, Plain, Route

\* Groups of calls that agree with their controllers agree when taken together.
LEMMA MergeAgrees ==
  ASSUME NEW c, NEW d, NEW r, NEW s, Agrees(c, r), Agrees(d, s)
  PROVE  Agrees(c ++ d, r ++ s)
<1>1. DOMAIN (c ++ d) = DOMAIN c \cup DOMAIN d /\ DOMAIN (r ++ s) = DOMAIN r \cup DOMAIN s
  BY DEF ++
<1>2. ASSUME NEW n \in DOMAIN (c ++ d)
      PROVE  Agree(n, (c ++ d)[n], (r ++ s)[n])
  BY <1>1, <1>2 DEF Agrees, ++
<1> QED
  BY <1>1, <1>2 DEF Agrees

\* Group by group, the calls of the client and the routes of their controller:
\* what every call sends fits what its route takes.
LEMMA AuthAgrees == Agrees(AuthCalls, AuthController)
<1> DEFINE names == {"logout", "me"}
<1>1. DOMAIN AuthCalls = names /\ DOMAIN AuthController = names
  BY DEF AuthCalls, AuthController
<1>2. Fits(Empty, NoDto)
  BY DEF Fits, Takes, Sends, Empty, NoDto
<1>3. /\ Agree("logout", AuthCalls.logout, AuthController.logout)
      /\ Agree("me", AuthCalls.me, AuthController.me)
  BY <1>2, OpenAgrees
  DEF AuthCalls, AuthController
<1> QED
  BY <1>1, <1>3 DEF Agrees

LEMMA AccountAgrees == Agrees(AccountCalls, ConnectedAccountsController)
<1> DEFINE names == {"listConnectedAccounts", "disconnectAccount"}
<1>1. DOMAIN AccountCalls = names /\ DOMAIN ConnectedAccountsController = names
  BY DEF AccountCalls, ConnectedAccountsController
<1>2. Fits(Empty, NoDto)
  BY DEF Fits, Takes, Sends, Empty, NoDto
<1>3. /\ Agree("listConnectedAccounts", AccountCalls.listConnectedAccounts,
               ConnectedAccountsController.listConnectedAccounts)
      /\ Agree("disconnectAccount", AccountCalls.disconnectAccount,
               ConnectedAccountsController.disconnectAccount)
  BY <1>2, ReadAgrees, WriteAgrees
  DEF AccountCalls, ConnectedAccountsController
<1> QED
  BY <1>1, <1>3 DEF Agrees

LEMMA ContentAgrees == Agrees(ContentCalls, ContentController)
<1> DEFINE names == {"listContents", "getContent", "createContent", "updateContent",
                      "archiveContent", "uploadMedia", "listAssets", "addAsset", "removeAsset"}
<1>1. DOMAIN ContentCalls = names /\ DOMAIN ContentController = names
  BY DEF ContentCalls, ContentController
<1>2. Fits(ListContentQuery, ListContentQueryDto)
  BY DEF Fits, Takes, Sends, ListContentQuery, ListContentQueryDto
<1>3. Fits(Empty, NoDto)
  BY DEF Fits, Takes, Sends, Empty, NoDto
<1>4. Fits(CreateContentInput, CreateContentDto)
  BY DEF Fits, Takes, Sends, CreateContentDto, CreateContentInput
<1>5. Fits(UpdateContentInput, UpdateContentDto)
  BY DEF Fits, Takes, Sends, UpdateContentDto, UpdateContentInput
<1>6. Fits(CreateContentAssetInput, CreateContentAssetDto)
  BY DEF Fits, Takes, Sends, CreateContentAssetDto, CreateContentAssetInput
<1>7. /\ Agree("listContents", ContentCalls.listContents, ContentController.listContents)
      /\ Agree("getContent", ContentCalls.getContent, ContentController.getContent)
      /\ Agree("createContent", ContentCalls.createContent, ContentController.createContent)
      /\ Agree("updateContent", ContentCalls.updateContent, ContentController.updateContent)
      /\ Agree("archiveContent", ContentCalls.archiveContent, ContentController.archiveContent)
      /\ Agree("uploadMedia", ContentCalls.uploadMedia, ContentController.uploadMedia)
      /\ Agree("listAssets", ContentCalls.listAssets, ContentController.listAssets)
      /\ Agree("addAsset", ContentCalls.addAsset, ContentController.addAsset)
      /\ Agree("removeAsset", ContentCalls.removeAsset, ContentController.removeAsset)
  BY <1>2, <1>3, <1>4, <1>5, <1>6, ReadAgrees, WriteAgrees
  DEF ContentCalls, ContentController
<1> QED
  BY <1>1, <1>7 DEF Agrees

LEMMA RankingAgrees == Agrees(RankingCalls, RankingController)
<1> DEFINE names == {"rankContent", "getScores"}
<1>1. DOMAIN RankingCalls = names /\ DOMAIN RankingController = names
  BY DEF RankingCalls, RankingController
<1>2. Fits(Empty, NoDto)
  BY DEF Fits, Takes, Sends, Empty, NoDto
<1>3. /\ Agree("rankContent", RankingCalls.rankContent, RankingController.rankContent)
      /\ Agree("getScores", RankingCalls.getScores, RankingController.getScores)
  BY <1>2, ReadAgrees, WriteAgrees
  DEF RankingCalls, RankingController
<1> QED
  BY <1>1, <1>3 DEF Agrees

LEMMA SchedulerAgrees == Agrees(SchedulerCalls, SchedulerController)
<1> DEFINE names == {"getSchedulerOverview"}
<1>1. DOMAIN SchedulerCalls = names /\ DOMAIN SchedulerController = names
  BY DEF SchedulerCalls, SchedulerController
<1>2. Fits(Empty, NoDto)
  BY DEF Fits, Takes, Sends, Empty, NoDto
<1>3. /\ Agree("getSchedulerOverview", SchedulerCalls.getSchedulerOverview,
               SchedulerController.getSchedulerOverview)
  BY <1>2, ReadAgrees
  DEF SchedulerCalls, SchedulerController
<1> QED
  BY <1>1, <1>3 DEF Agrees

LEMMA PostAgrees == Agrees(PostCalls, PostsController)
<1> DEFINE names == {"createPost", "recordManualExternalPost", "publishPost", "listPosts",
                      "resolvePosted", "resolveNotPosted"}
<1>1. DOMAIN PostCalls = names /\ DOMAIN PostsController = names
  BY DEF PostCalls, PostsController
<1>2. Fits(CreatePostInput, CreatePostDto)
  BY DEF Fits, Takes, Sends, CreatePostDto, CreatePostInput
<1>3. Fits(RecordManualExternalInput, RecordManualExternalDto)
  BY DEF Fits, Takes, Sends, RecordManualExternalDto, RecordManualExternalInput
<1>4. Fits(Sends({"password"}, {}), PublishRetryDto)
  BY DEF Fits, Takes, Sends, PublishRetryDto
<1>5. Fits(Sends({}, {"status"}), ListPostsQueryDto)
  BY DEF Fits, Takes, Sends, ListPostsQueryDto
<1>6. Fits(Sends({"externalPostId"}, {}), ResolvePostedDto)
  BY DEF Fits, Takes, Sends, ResolvePostedDto
<1>7. Fits(Empty, NoDto)
  BY DEF Fits, Takes, Sends, Empty, NoDto
<1>8. /\ Agree("createPost", PostCalls.createPost, PostsController.createPost)
      /\ Agree("recordManualExternalPost", PostCalls.recordManualExternalPost,
               PostsController.recordManualExternalPost)
      /\ Agree("publishPost", PostCalls.publishPost, PostsController.publishPost)
      /\ Agree("listPosts", PostCalls.listPosts, PostsController.listPosts)
      /\ Agree("resolvePosted", PostCalls.resolvePosted, PostsController.resolvePosted)
      /\ Agree("resolveNotPosted", PostCalls.resolveNotPosted, PostsController.resolveNotPosted)
  BY <1>2, <1>3, <1>4, <1>5, <1>6, <1>7, ReadAgrees, ThrottledAgrees, WriteAgrees
  DEF PostCalls, PostsController
<1> QED
  BY <1>1, <1>8 DEF Agrees

LEMMA MetricAgrees == Agrees(MetricCalls, MetricsController)
<1> DEFINE names == {"syncMetrics", "addManualMetric", "listMetrics"}
<1>1. DOMAIN MetricCalls = names /\ DOMAIN MetricsController = names
  BY DEF MetricCalls, MetricsController
<1>2. Fits(Empty, NoDto)
  BY DEF Fits, Takes, Sends, Empty, NoDto
<1>3. Fits(CreateManualMetricInput, CreateManualMetricDto)
  BY DEF Fits, Takes, Sends, CreateManualMetricDto, CreateManualMetricInput
<1>4. /\ Agree("syncMetrics", MetricCalls.syncMetrics, MetricsController.syncMetrics)
      /\ Agree("addManualMetric", MetricCalls.addManualMetric,
               MetricsController.addManualMetric)
      /\ Agree("listMetrics", MetricCalls.listMetrics, MetricsController.listMetrics)
  BY <1>2, <1>3, ReadAgrees, WriteAgrees
  DEF MetricCalls, MetricsController
<1> QED
  BY <1>1, <1>4 DEF Agrees

LEMMA DashboardAgrees == Agrees(DashboardCalls, DashboardController)
<1> DEFINE names == {"getDashboardOverview", "getDashboardRevenue", "getContentRevenue"}
<1>1. DOMAIN DashboardCalls = names /\ DOMAIN DashboardController = names
  BY DEF DashboardCalls, DashboardController
<1>2. Fits(Empty, NoDto)
  BY DEF Fits, Takes, Sends, Empty, NoDto
<1>3. /\ Agree("getDashboardOverview", DashboardCalls.getDashboardOverview,
               DashboardController.getDashboardOverview)
      /\ Agree("getDashboardRevenue", DashboardCalls.getDashboardRevenue,
               DashboardController.getDashboardRevenue)
      /\ Agree("getContentRevenue", DashboardCalls.getContentRevenue,
               DashboardController.getContentRevenue)
  BY <1>2, ReadAgrees
  DEF DashboardCalls, DashboardController
<1> QED
  BY <1>1, <1>3 DEF Agrees

LEMMA ReportAgrees == Agrees(ReportCalls, ReportsController)
<1> DEFINE names == {"reportCsv"}
<1>1. DOMAIN ReportCalls = names /\ DOMAIN ReportsController = names
  BY DEF ReportCalls, ReportsController
<1>2. Fits(ReportQuery, ReportQueryDto)
  BY DEF Fits, Takes, Sends, Empty, ReportQuery, ReportQueryDto
<1>3. /\ Agree("reportCsv", ReportCalls.reportCsv, ReportsController.reportCsv)
  BY <1>2, ReadAgrees
  DEF ReportCalls, ReportsController
<1> QED
  BY <1>1, <1>3 DEF Agrees

LEMMA CommentAgrees == Agrees(CommentCalls, CommentsController)
<1> DEFINE names == {"listComments", "syncComments", "replyComment", "listEscalations",
                      "ackEscalation", "eraseComment"}
<1>1. DOMAIN CommentCalls = names /\ DOMAIN CommentsController = names
  BY DEF CommentCalls, CommentsController
<1>2. Fits(ListCommentsQuery, ListCommentsQueryDto)
  BY DEF Fits, Takes, Sends, ListCommentsQuery, ListCommentsQueryDto
<1>3. Fits(Empty, NoDto)
  BY DEF Fits, Takes, Sends, Empty, NoDto
<1>4. Fits(ReplyCommentInput, ReplyCommentDto)
  BY DEF Fits, Takes, Sends, ReplyCommentDto, ReplyCommentInput
<1>5. Fits(Sends({"active"}, {}), ListEscalationsQueryDto)
  BY DEF Fits, Takes, Sends, ListEscalationsQueryDto
<1>6. /\ Agree("listComments", CommentCalls.listComments, CommentsController.listComments)
      /\ Agree("syncComments", CommentCalls.syncComments, CommentsController.syncComments)
      /\ Agree("replyComment", CommentCalls.replyComment, CommentsController.replyComment)
      /\ Agree("listEscalations", CommentCalls.listEscalations,
               CommentsController.listEscalations)
      /\ Agree("ackEscalation", CommentCalls.ackEscalation, CommentsController.ackEscalation)
      /\ Agree("eraseComment", CommentCalls.eraseComment, CommentsController.eraseComment)
  BY <1>2, <1>3, <1>4, <1>5, ReadAgrees, ThrottledAgrees, WriteAgrees
  DEF CommentCalls, CommentsController
<1> QED
  BY <1>1, <1>6 DEF Agrees

LEMMA CommentTemplateAgrees == Agrees(CommentTemplateCalls, CommentTemplatesController)
<1> DEFINE names == {"listCommentTemplates"}
<1>1. DOMAIN CommentTemplateCalls = names /\ DOMAIN CommentTemplatesController = names
  BY DEF CommentTemplateCalls, CommentTemplatesController
<1>2. Fits(Empty, NoDto)
  BY DEF Fits, Takes, Sends, Empty, NoDto
<1>3. /\ Agree("listCommentTemplates", CommentTemplateCalls.listCommentTemplates,
               CommentTemplatesController.listCommentTemplates)
  BY <1>2, ReadAgrees
  DEF CommentTemplateCalls, CommentTemplatesController
<1> QED
  BY <1>1, <1>3 DEF Agrees

LEMMA CatalogAgrees == Agrees(CatalogCalls, CommerceCatalogController)
<1> DEFINE names == {"listCommerceProducts", "createCommerceProduct", "updateCommerceProduct",
                      "retireCommerceProduct", "listAffiliateLinks", "createAffiliateLink",
                      "retireAffiliateLink"}
<1>1. DOMAIN CatalogCalls = names /\ DOMAIN CommerceCatalogController = names
  BY DEF CatalogCalls, CommerceCatalogController
<1>2. Fits(ListCommerceProductsQuery, ListProductsQueryDto)
  BY DEF Fits, Takes, Sends, ListCommerceProductsQuery, ListProductsQueryDto
<1>3. Fits(CreateCommerceProductInput, CreateProductDto)
  BY DEF Fits, Takes, Sends, CreateCommerceProductInput, CreateProductDto
<1>4. Fits(UpdateCommerceProductInput, UpdateProductDto)
  BY DEF Fits, Takes, Sends, UpdateCommerceProductInput, UpdateProductDto
<1>5. Fits(Empty, NoDto)
  BY DEF Fits, Takes, Sends, Empty, NoDto
<1>6. Fits(CreateAffiliateLinkInput, CreateAffiliateLinkDto)
  BY DEF Fits, Takes, Sends, CreateAffiliateLinkDto, CreateAffiliateLinkInput
<1>7. /\ Agree("listCommerceProducts", CatalogCalls.listCommerceProducts,
               CommerceCatalogController.listCommerceProducts)
      /\ Agree("createCommerceProduct", CatalogCalls.createCommerceProduct,
               CommerceCatalogController.createCommerceProduct)
      /\ Agree("updateCommerceProduct", CatalogCalls.updateCommerceProduct,
               CommerceCatalogController.updateCommerceProduct)
      /\ Agree("retireCommerceProduct", CatalogCalls.retireCommerceProduct,
               CommerceCatalogController.retireCommerceProduct)
      /\ Agree("listAffiliateLinks", CatalogCalls.listAffiliateLinks,
               CommerceCatalogController.listAffiliateLinks)
      /\ Agree("createAffiliateLink", CatalogCalls.createAffiliateLink,
               CommerceCatalogController.createAffiliateLink)
      /\ Agree("retireAffiliateLink", CatalogCalls.retireAffiliateLink,
               CommerceCatalogController.retireAffiliateLink)
  BY <1>2, <1>3, <1>4, <1>5, <1>6, ReadAgrees, WriteAgrees
  DEF CatalogCalls, CommerceCatalogController
<1> QED
  BY <1>1, <1>7 DEF Agrees

LEMMA PostAnchorAgrees == Agrees(PostAnchorCalls, PostAnchorsController)
<1> DEFINE names == {"listPostProductAnchors", "anchorProductsToPost", "removePostProductAnchor"}
<1>1. DOMAIN PostAnchorCalls = names /\ DOMAIN PostAnchorsController = names
  BY DEF PostAnchorCalls, PostAnchorsController
<1>2. Fits(Empty, NoDto)
  BY DEF Fits, Takes, Sends, Empty, NoDto
<1>3. Fits(RecordProductAnchorsInput, RecordProductAnchorsDto)
  BY DEF Fits, Takes, Sends, RecordProductAnchorsDto, RecordProductAnchorsInput
<1>4. /\ Agree("listPostProductAnchors", PostAnchorCalls.listPostProductAnchors,
               PostAnchorsController.listPostProductAnchors)
      /\ Agree("anchorProductsToPost", PostAnchorCalls.anchorProductsToPost,
               PostAnchorsController.anchorProductsToPost)
      /\ Agree("removePostProductAnchor", PostAnchorCalls.removePostProductAnchor,
               PostAnchorsController.removePostProductAnchor)
  BY <1>2, <1>3, ReadAgrees, WriteAgrees
  DEF PostAnchorCalls, PostAnchorsController
<1> QED
  BY <1>1, <1>4 DEF Agrees

LEMMA PlacementAgrees == Agrees(PlacementCalls, CommercePlacementController)
<1> DEFINE names == {"listPlacementProductAnchors", "anchorProductsToPlacement",
                      "removePlacementProductAnchor", "recordCommercePlacement",
                      "listCommercePlacements"}
<1>1. DOMAIN PlacementCalls = names /\ DOMAIN CommercePlacementController = names
  BY DEF PlacementCalls, CommercePlacementController
<1>2. Fits(Empty, NoDto)
  BY DEF Fits, Takes, Sends, Empty, NoDto
<1>3. Fits(RecordProductAnchorsInput, RecordProductAnchorsDto)
  BY DEF Fits, Takes, Sends, RecordProductAnchorsDto, RecordProductAnchorsInput
<1>4. Fits(RecordCommercePlacementInput, RecordCommercePlacementDto)
  BY DEF Fits, Takes, Sends, RecordCommercePlacementDto, RecordCommercePlacementInput
<1>5. Fits(ListCommercePlacementsQuery, ListPlacementsQueryDto)
  BY DEF Fits, Takes, Sends, ListCommercePlacementsQuery, ListPlacementsQueryDto
<1>6. /\ Agree("listPlacementProductAnchors", PlacementCalls.listPlacementProductAnchors,
               CommercePlacementController.listPlacementProductAnchors)
      /\ Agree("anchorProductsToPlacement", PlacementCalls.anchorProductsToPlacement,
               CommercePlacementController.anchorProductsToPlacement)
      /\ Agree("removePlacementProductAnchor", PlacementCalls.removePlacementProductAnchor,
               CommercePlacementController.removePlacementProductAnchor)
      /\ Agree("recordCommercePlacement", PlacementCalls.recordCommercePlacement,
               CommercePlacementController.recordCommercePlacement)
      /\ Agree("listCommercePlacements", PlacementCalls.listCommercePlacements,
               CommercePlacementController.listCommercePlacements)
  BY <1>2, <1>3, <1>4, <1>5, ReadAgrees, ThrottledAgrees, WriteAgrees
  DEF PlacementCalls, CommercePlacementController
<1> QED
  BY <1>1, <1>6 DEF Agrees

LEMMA ConversionAgrees == Agrees(ConversionCalls, CommerceConversionController)
<1> DEFINE names == {"createCommerceConversion", "listCommerceConversions",
                      "checkConversionOverlap"}
<1>1. DOMAIN ConversionCalls = names /\ DOMAIN CommerceConversionController = names
  BY DEF ConversionCalls, CommerceConversionController
<1>2. Fits(CreateCommerceConversionInput, CreateConversionDto)
  BY DEF Fits, Takes, Sends, CreateCommerceConversionInput, CreateConversionDto
<1>3. Fits(ListCommerceConversionsQuery, ListConversionsQueryDto)
  BY DEF Fits, Takes, Sends, ListCommerceConversionsQuery, ListConversionsQueryDto
<1>4. Fits(OverlapCheckQuery, OverlapCheckQueryDto)
  BY DEF Fits, Takes, Sends, OverlapCheckQuery, OverlapCheckQueryDto
<1>5. /\ Agree("createCommerceConversion", ConversionCalls.createCommerceConversion,
               CommerceConversionController.createCommerceConversion)
      /\ Agree("listCommerceConversions", ConversionCalls.listCommerceConversions,
               CommerceConversionController.listCommerceConversions)
      /\ Agree("checkConversionOverlap", ConversionCalls.checkConversionOverlap,
               CommerceConversionController.checkConversionOverlap)
  BY <1>2, <1>3, <1>4, ReadAgrees, WriteAgrees
  DEF ConversionCalls, CommerceConversionController
<1> QED
  BY <1>1, <1>5 DEF Agrees

LEMMA SummaryAgrees == Agrees(SummaryCalls, CommerceSummaryController)
<1> DEFINE names == {"getCommerceSummary", "getContentCommerceSummary"}
<1>1. DOMAIN SummaryCalls = names /\ DOMAIN CommerceSummaryController = names
  BY DEF SummaryCalls, CommerceSummaryController
<1>2. Fits(CommerceSummaryQuery, CommerceSummaryQueryDto)
  BY DEF Fits, Takes, Sends, CommerceSummaryQuery, CommerceSummaryQueryDto
<1>3. Fits(Empty, NoDto)
  BY DEF Fits, Takes, Sends, Empty, NoDto
<1>4. /\ Agree("getCommerceSummary", SummaryCalls.getCommerceSummary,
               CommerceSummaryController.getCommerceSummary)
      /\ Agree("getContentCommerceSummary", SummaryCalls.getContentCommerceSummary,
               CommerceSummaryController.getContentCommerceSummary)
  BY <1>2, <1>3, ReadAgrees
  DEF SummaryCalls, CommerceSummaryController
<1> QED
  BY <1>1, <1>4 DEF Agrees

LEMMA PaidAgrees == Agrees(PaidCalls, PaidController)
<1> DEFINE names == {"listPaidCampaigns", "createPaidCampaign", "updatePaidCampaign",
                      "retirePaidCampaign", "listPerformanceEntries", "createPerformanceEntry",
                      "checkPerformanceOverlap", "getPaidSummary"}
<1>1. DOMAIN PaidCalls = names /\ DOMAIN PaidController = names
  BY DEF PaidCalls, PaidController
<1>2. Fits(ListPaidCampaignsQuery, ListPaidCampaignsQueryDto)
  BY DEF Fits, Takes, Sends, ListPaidCampaignsQuery, ListPaidCampaignsQueryDto
<1>3. Fits(CreatePaidCampaignInput, CreatePaidCampaignDto)
  BY DEF Fits, Takes, Sends, CreatePaidCampaignDto, CreatePaidCampaignInput
<1>4. Fits(UpdatePaidCampaignInput, UpdatePaidCampaignDto)
  BY DEF Fits, Takes, Sends, UpdatePaidCampaignDto, UpdatePaidCampaignInput
<1>5. Fits(Empty, NoDto)
  BY DEF Fits, Takes, Sends, Empty, NoDto
<1>6. Fits(CreatePerformanceEntryInput, CreatePerformanceEntryDto)
  BY DEF Fits, Takes, Sends, CreatePerformanceEntryDto, CreatePerformanceEntryInput
<1>7. Fits(PerformanceOverlapCheckQuery, PerformanceOverlapCheckQueryDto)
  BY DEF Fits, Takes, Sends, PerformanceOverlapCheckQuery, PerformanceOverlapCheckQueryDto
<1>8. Fits(PaidSummaryQuery, PaidSummaryQueryDto)
  BY DEF Fits, Takes, Sends, PaidSummaryQuery, PaidSummaryQueryDto
<1>9. /\ Agree("listPaidCampaigns", PaidCalls.listPaidCampaigns,
               PaidController.listPaidCampaigns)
      /\ Agree("createPaidCampaign", PaidCalls.createPaidCampaign,
               PaidController.createPaidCampaign)
      /\ Agree("updatePaidCampaign", PaidCalls.updatePaidCampaign,
               PaidController.updatePaidCampaign)
      /\ Agree("retirePaidCampaign", PaidCalls.retirePaidCampaign,
               PaidController.retirePaidCampaign)
      /\ Agree("listPerformanceEntries", PaidCalls.listPerformanceEntries,
               PaidController.listPerformanceEntries)
      /\ Agree("createPerformanceEntry", PaidCalls.createPerformanceEntry,
               PaidController.createPerformanceEntry)
      /\ Agree("checkPerformanceOverlap", PaidCalls.checkPerformanceOverlap,
               PaidController.checkPerformanceOverlap)
      /\ Agree("getPaidSummary", PaidCalls.getPaidSummary, PaidController.getPaidSummary)
  BY <1>2, <1>3, <1>4, <1>5, <1>6, <1>7, <1>8, ReadAgrees, WriteAgrees
  DEF PaidCalls, PaidController
<1> QED
  BY <1>1, <1>9 DEF Agrees

\* What admins write and who they are.
LEMMA EditorialAgrees == Agrees(EditorialCalls, EditorialRoutes)
<1> DEFINE c2 == AuthCalls ++ AccountCalls
           r2 == AuthController ++ ConnectedAccountsController
<1>1. Agrees(c2, r2)
  BY AuthAgrees, AccountAgrees, MergeAgrees
<1> HIDE DEF c2, r2
<1> DEFINE c3 == c2 ++ ContentCalls
           r3 == r2 ++ ContentController
<1>2. Agrees(c3, r3)
  BY <1>1, ContentAgrees, MergeAgrees
<1> HIDE DEF c3, r3
<1> DEFINE c4 == c3 ++ RankingCalls
           r4 == r3 ++ RankingController
<1>3. Agrees(c4, r4)
  BY <1>2, RankingAgrees, MergeAgrees
<1> HIDE DEF c4, r4
<1> DEFINE c5 == c4 ++ SchedulerCalls
           r5 == r4 ++ SchedulerController
<1>4. Agrees(c5, r5)
  BY <1>3, SchedulerAgrees, MergeAgrees
<1> HIDE DEF c5, r5
<1> QED
  BY <1>4 DEF EditorialCalls, EditorialRoutes, c2, r2, c3, r3, c4, r4, c5, r5

\* What is published, and what comes back of it.
LEMMA PublishingAgrees == Agrees(PublishingCalls, PublishingRoutes)
<1> DEFINE c2 == PostCalls ++ MetricCalls
           r2 == PostsController ++ MetricsController
<1>1. Agrees(c2, r2)
  BY PostAgrees, MetricAgrees, MergeAgrees
<1> HIDE DEF c2, r2
<1> DEFINE c3 == c2 ++ DashboardCalls
           r3 == r2 ++ DashboardController
<1>2. Agrees(c3, r3)
  BY <1>1, DashboardAgrees, MergeAgrees
<1> HIDE DEF c3, r3
<1> DEFINE c4 == c3 ++ ReportCalls
           r4 == r3 ++ ReportsController
<1>3. Agrees(c4, r4)
  BY <1>2, ReportAgrees, MergeAgrees
<1> HIDE DEF c4, r4
<1> DEFINE c5 == c4 ++ CommentCalls
           r5 == r4 ++ CommentsController
<1>4. Agrees(c5, r5)
  BY <1>3, CommentAgrees, MergeAgrees
<1> HIDE DEF c5, r5
<1> DEFINE c6 == c5 ++ CommentTemplateCalls
           r6 == r5 ++ CommentTemplatesController
<1>5. Agrees(c6, r6)
  BY <1>4, CommentTemplateAgrees, MergeAgrees
<1> HIDE DEF c6, r6
<1> QED
  BY <1>5 DEF PublishingCalls, PublishingRoutes, c2, r2, c3, r3, c4, r4, c5, r5, c6, r6

\* What is sold.
LEMMA CommerceAgrees == Agrees(CommerceCalls, CommerceRoutes)
<1> DEFINE c2 == CatalogCalls ++ PostAnchorCalls
           r2 == CommerceCatalogController ++ PostAnchorsController
<1>1. Agrees(c2, r2)
  BY CatalogAgrees, PostAnchorAgrees, MergeAgrees
<1> HIDE DEF c2, r2
<1> DEFINE c3 == c2 ++ PlacementCalls
           r3 == r2 ++ CommercePlacementController
<1>2. Agrees(c3, r3)
  BY <1>1, PlacementAgrees, MergeAgrees
<1> HIDE DEF c3, r3
<1> DEFINE c4 == c3 ++ ConversionCalls
           r4 == r3 ++ CommerceConversionController
<1>3. Agrees(c4, r4)
  BY <1>2, ConversionAgrees, MergeAgrees
<1> HIDE DEF c4, r4
<1> DEFINE c5 == c4 ++ SummaryCalls
           r5 == r4 ++ CommerceSummaryController
<1>4. Agrees(c5, r5)
  BY <1>3, SummaryAgrees, MergeAgrees
<1> HIDE DEF c5, r5
<1> QED
  BY <1>4 DEF CommerceCalls, CommerceRoutes, c2, r2, c3, r3, c4, r4, c5, r5

\* The whole client agrees with the whole server.
LEMMA ClientAgrees == Agrees(ApiClient, Routes)
<1> DEFINE c2 == EditorialCalls ++ PublishingCalls
           r2 == EditorialRoutes ++ PublishingRoutes
<1>1. Agrees(c2, r2)
  BY EditorialAgrees, PublishingAgrees, MergeAgrees
<1> HIDE DEF c2, r2
<1> DEFINE c3 == c2 ++ CommerceCalls
           r3 == r2 ++ CommerceRoutes
<1>2. Agrees(c3, r3)
  BY <1>1, CommerceAgrees, MergeAgrees
<1> HIDE DEF c3, r3
<1> DEFINE c4 == c3 ++ PaidCalls
           r4 == r3 ++ PaidController
<1>3. Agrees(c4, r4)
  BY <1>2, PaidAgrees, MergeAgrees
<1> HIDE DEF c4, r4
<1> QED
  BY <1>3 DEF ApiClient, Routes, c2, r2, c3, r3, c4, r4

\* A page holds the token of the running session exactly when no login came since it
\* loaded: tokens are issued one after another, and each login takes a new one.
TokensAreFresh ==
  /\ session \in {None} \cup 1..MaxLogins /\ issued \in 0..MaxLogins
  /\ isAdmin \in BOOLEAN /\ outdated \subseteq Tab
  /\ tab \in [Tab -> {None} \cup 1..MaxLogins]
  /\ session # None => session = issued
  /\ \A t \in Tab : tab[t] # None =>
       /\ tab[t] <= issued
       /\ t \in outdated => tab[t] < issued
       /\ t \notin outdated => tab[t] = issued

\* The call in progress is one the client makes, from a page that holds its token.
CallIsSent ==
  /\ call.pc = "sent"
  /\ call.by \in Tab /\ tab[call.by] # None
  /\ call.name \in DOMAIN ApiClient
  /\ LET api == ApiClient[call.name] IN
       /\ call.fields \in {api.sends.always, api.sends.always \cup api.sends.maybe}
       /\ call.token = IF api.signed THEN tab[call.by] ELSE None

\* Its answer is as the property says.
CallIsAnswered ==
  /\ call.pc = "answered"
  /\ call.by \in Tab /\ call.name \in DOMAIN ApiClient /\ call.status \in Statuses
  /\ ContractIsKept

CallIsFaithful == call = NoCall \/ CallIsSent \/ CallIsAnswered

ContractInv == TokensAreFresh /\ CallIsFaithful

\* Whatever a call fills in, the pipe takes it.
LEMMA FitsPasses ==
  ASSUME NEW name, NEW api, NEW route, Agree(name, api, route),
         NEW fields \in {api.sends.always, api.sends.always \cup api.sends.maybe}
  PROVE  PipeTakes(route.dto, fields)
BY DEF Agree, Fits, PipeTakes

\* Nobody is signed in and nothing is called.
LEMMA ContractInvInit == ContractInit => ContractInv
BY ContractAssumption DEF ContractInit, ContractInv, TokensAreFresh, CallIsFaithful

\* A call stays faithful while its page keeps the token it holds.
LEMMA CallStays ==
  ASSUME CallIsFaithful, call' = call,
         call # NoCall => tab'[call.by] = tab[call.by]
  PROVE  CallIsFaithful'
<1>1. CASE call = NoCall
  BY <1>1 DEF CallIsFaithful, NoCall
<1>2. CASE CallIsSent
  <2>1. call # NoCall
    BY <1>2 DEF CallIsSent, NoCall
  <2>2. CallIsSent'
    BY <1>2, <2>1 DEF CallIsSent
  <2> QED
    BY <2>2 DEF CallIsFaithful
<1>3. CASE CallIsAnswered
  <2>1. CallIsAnswered'
    BY <1>3 DEF CallIsAnswered, ContractIsKept
  <2> QED
    BY <2>1 DEF CallIsFaithful
<1> QED
  BY <1>1, <1>2, <1>3 DEF CallIsFaithful

\* The server answers a faithful call as the property says: its fields pass the
\* pipe, and only a live token of an admin passes the guards.
LEMMA AnswerIsFaithful ==
  ASSUME TokensAreFresh, CallIsFaithful, ServerAnswers
  PROVE  TokensAreFresh' /\ CallIsFaithful'
<1> USE ContractAssumption
<1> DEFINE api == ApiClient[call.name]
           route == Routes[call.name]
<1>1. PICK status \in Status(route) :
        /\ call' = [pc |-> "answered", by |-> call.by, name |-> call.name, status |-> status,
                    admin |-> isAdmin, late |-> call.by \in outdated]
        /\ session' = IF call.name = "logout" /\ status = 200 THEN None ELSE session
  BY DEF ServerAnswers
<1>2. call.pc = "sent" /\ UNCHANGED <<issued, isAdmin, tab, outdated>>
  BY DEF ServerAnswers
<1>3. CallIsSent
  BY <1>2 DEF CallIsFaithful, CallIsAnswered, NoCall
<1>4. /\ call.by \in Tab /\ tab[call.by] # None
      /\ call.name \in DOMAIN ApiClient
  BY <1>3 DEF CallIsSent
<1>5. /\ call.fields \in {api.sends.always, api.sends.always \cup api.sends.maybe}
      /\ call.token = IF api.signed THEN tab[call.by] ELSE None
  BY <1>3 DEF CallIsSent
<1>6. Agree(call.name, api, route)
  BY <1>4, ClientAgrees DEF Agrees
<1> HIDE DEF route
<1>7. PipeTakes(route.dto, call.fields)
  <2> HIDE DEF api
  <2>1. \A fields \in {api.sends.always, api.sends.always \cup api.sends.maybe} :
          PipeTakes(route.dto, fields)
    BY <1>6, FitsPasses
  <2> QED
    BY <1>5, <2>1
<1>8. session # None => (call.by \notin outdated <=> tab[call.by] = session)
  BY <1>4 DEF TokensAreFresh
<1>9. TokensAreFresh'
  BY <1>1, <1>2 DEF TokensAreFresh
<1>10. status # 400 /\ status \in Statuses
  BY <1>1, <1>7 DEF Status, Statuses
<1>11. /\ status = 403 => call.by \in outdated \/ ~isAdmin
       /\ status = 200 /\ api.signed /\ call.name # "logout" =>
            isAdmin /\ call.by \notin outdated
  <2> HIDE DEF api
  <2> QED
    BY <1>1, <1>4, <1>5, <1>6, <1>8 DEF Status, Agree
<1>12. /\ call'.pc = "answered" /\ call'.by = call.by /\ call'.name = call.name
       /\ call'.status = status /\ call'.admin = isAdmin
       /\ call'.late = (call.by \in outdated)
  BY <1>1
<1>13. ApiClient[call'.name].signed = api.signed
  BY <1>12
<1> HIDE DEF api
<1>14. ContractIsKept'
  <2>1. call'.status # 400
    BY <1>10, <1>12
  <2>2. call'.status = 403 => call'.late \/ ~call'.admin
    BY <1>11, <1>12
  <2>3. call'.status = 200 /\ api.signed /\ call'.name # "logout" => call'.admin /\ ~call'.late
    BY <1>11, <1>12
  <2> QED
    BY <1>13, <2>1, <2>2, <2>3 DEF ContractIsKept
<1>15. CallIsAnswered'
  BY <1>4, <1>10, <1>12, <1>14 DEF CallIsAnswered
<1> QED
  BY <1>9, <1>15 DEF CallIsFaithful

\* Logins, page loads, calls and answers keep tokens fresh and calls faithful.
LEMMA ContractInvNext == ContractInv /\ [ContractNext]_contractVars => ContractInv'
<1> SUFFICES ASSUME ContractInv, [ContractNext]_contractVars PROVE ContractInv'
  OBVIOUS
<1> USE ContractAssumption
<1>a. TokensAreFresh /\ CallIsFaithful
  BY DEF ContractInv
<1>1. CASE LogsIn
  <2>1. TokensAreFresh'
    BY <1>1, <1>a DEF LogsIn, TokensAreFresh
  <2>2. call' = call /\ tab' = tab
    BY <1>1 DEF LogsIn
  <2> QED
    BY <1>a, <2>1, <2>2, CallStays DEF ContractInv
<1>2. CASE SessionEnds
  <2>1. TokensAreFresh'
    BY <1>2, <1>a DEF SessionEnds, TokensAreFresh
  <2>2. call' = call /\ tab' = tab
    BY <1>2 DEF SessionEnds
  <2> QED
    BY <1>a, <2>1, <2>2, CallStays DEF ContractInv
<1>3. CASE RoleIsRevoked
  <2>1. TokensAreFresh'
    BY <1>3, <1>a DEF RoleIsRevoked, TokensAreFresh
  <2>2. call' = call /\ tab' = tab
    BY <1>3 DEF RoleIsRevoked
  <2> QED
    BY <1>a, <2>1, <2>2, CallStays DEF ContractInv
<1>4. CASE ServerAnswers
  BY <1>4, <1>a, AnswerIsFaithful DEF ContractInv
<1>5. CASE TabContinues
  <2>1. call.pc = "answered" /\ call' = NoCall /\ UNCHANGED <<session, issued, isAdmin, outdated>>
    BY <1>5 DEF TabContinues
  <2>2. call.by \in Tab
    BY <2>1, <1>a DEF CallIsFaithful, CallIsSent, CallIsAnswered, NoCall
  <2>3. TokensAreFresh'
    BY <1>5, <2>1, <2>2, <1>a DEF TabContinues, TokensAreFresh
  <2>4. CallIsFaithful'
    BY <2>1 DEF CallIsFaithful, NoCall
  <2> QED
    BY <2>3, <2>4 DEF ContractInv
<1>6. ASSUME NEW t \in Tab, PageLoads(t)
      PROVE  ContractInv'
  <2>1. TokensAreFresh'
    BY <1>6, <1>a DEF PageLoads, TokenIssued, TokensAreFresh
  <2>2. call' = call /\ \A u \in Tab : u # t => tab'[u] = tab[u]
    BY <1>6, <1>a DEF PageLoads, TokensAreFresh
  <2>3. call # NoCall => call.by \in Tab /\ call.by # t
    BY <1>6, <1>a DEF PageLoads, CallIsFaithful, CallIsSent, CallIsAnswered
  <2>4. CallIsFaithful'
    BY <2>2, <2>3, <1>a, CallStays
  <2> QED
    BY <2>1, <2>4 DEF ContractInv
<1>7. ASSUME NEW t \in Tab, NEW name \in DOMAIN ApiClient, CallSent(t, name)
      PROVE  ContractInv'
  <2> DEFINE api == ApiClient[name]
  <2>1. PICK fields \in {api.sends.always, api.sends.always \cup api.sends.maybe} :
          call' = [pc |-> "sent", by |-> t, name |-> name, fields |-> fields,
                   token |-> IF api.signed THEN tab[t] ELSE None]
    BY <1>7 DEF CallSent
  <2>2. tab[t] # None /\ UNCHANGED <<session, issued, isAdmin, tab, outdated>>
    BY <1>7 DEF CallSent
  <2>3. TokensAreFresh'
    BY <2>2, <1>a DEF TokensAreFresh
  <2>4. CallIsSent'
    BY <2>1, <2>2 DEF CallIsSent
  <2> QED
    BY <2>3, <2>4 DEF ContractInv, CallIsFaithful
<1>8. CASE UNCHANGED contractVars
  <2>1. TokensAreFresh'
    BY <1>8, <1>a DEF contractVars, TokensAreFresh
  <2>2. call' = call /\ tab' = tab
    BY <1>8 DEF contractVars
  <2> QED
    BY <1>a, <2>1, <2>2, CallStays DEF ContractInv
<1> QED
  BY <1>1, <1>2, <1>3, <1>4, <1>5, <1>6, <1>7, <1>8 DEF ContractNext

\* A session, the tokens of its tabs and the call under way keep their types, and
\* every call of the client has a route (api-client.ts, the controllers).
THEOREM ContractTypes == ContractSpec => []ContractTypeOK
<1>1. ContractInv => ContractTypeOK
  BY ClientAgrees
  DEF ContractInv, TokensAreFresh, CallIsFaithful, CallIsSent, CallIsAnswered, ContractTypeOK, Agrees
<1> QED
  BY <1>1, ContractInvInit, ContractInvNext, PTL DEF ContractSpec

\* For any number of tabs and logins, no call of the client is refused for its
\* fields, no page that loaded since the last login is refused as forged, and no
\* write goes through without an admin and the session's own token (the guards
\* of the routes, validated by the pipe of main.ts).
THEOREM ContractStaysKept == ContractSpec => []ContractIsKept
<1>1. ContractInv => ContractIsKept
  BY DEF ContractInv, CallIsFaithful, CallIsSent, CallIsAnswered, ContractIsKept, NoCall
<1> QED
  BY <1>1, ContractInvInit, ContractInvNext, PTL DEF ContractSpec

-----------------------------------------------------------------------------
(* The back office as a whole: its parts share no variable, so the types   *)
(* of all of them rest on those of each.                                   *)

\* For every value of the constants, and however the steps of the parts fall
\* between each other, every table, queue, session, page and request in hand of
\* the modules app.module.ts imports stays what its declaration says it is.
THEOREM OfficeTypes == OfficeSpec => []TypesOK
<1>1. CatalogSpec /\ PlacementSpec /\ ConversionSpec
        => [](CatalogTypeOK /\ PlacementTypeOK /\ ConversionTypeOK)
  BY CatalogTypes, PlacementTypes, ConversionTypes, PTL
<1>2. FactorsSpec /\ RankingSpec /\ MetricSpec => [](FactorsTypeOK /\ RankingTypeOK /\ MetricTypeOK)
  BY FactorTypes, RankingTypes, MetricTypes, PTL
<1>3. LoginSpec /\ SessionSpec => [](LoginTypeOK /\ SessionTypeOK)
  BY LoginTypes, SessionTypesHold, PTL
<1>4. AdapterSpec /\ RetentionSpec /\ UploadSpec
        => [](AdapterTypeOK /\ RetentionTypeOK /\ UploadTypeOK)
  BY AdapterTypes, RetentionTypes, UploadTypes, PTL
<1>5. ScreenSpec /\ AnchorDialogSpec /\ ContractSpec
        => [](ScreenTypeOK /\ AnchorDialogTypeOK /\ ContractTypeOK)
  BY ScreenTypesHold, DialogTypesHold, ContractTypes, PTL
<1> QED
  BY PaidTypes, <1>1, <1>2, <1>3, <1>4, <1>5, PTL DEF OfficeSpec, TypesOK
=============================================================================
