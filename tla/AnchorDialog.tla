---------------------------- MODULE AnchorDialog ----------------------------
(***************************************************************************)
(* Pinning products to one target from the frontend: the anchor picker of  *)
(* an existing post or placement (list, edit, one anchor request, then one *)
(* removal request per unchecked product), and the external-post recorder  *)
(* (record, then anchor, with "Retry anchoring"), over the server's        *)
(* item-by-item loops.  The target may meanwhile be changed by another     *)
(* admin and a product may be retired.                                     *)
(***************************************************************************)
EXTENDS BackOffice

CONSTANTS
  Pinnable,   \* products
  Tag,        \* affiliate links, of every product
  MaxPins     \* bound: times one product is pinned

Pin == [tag : {None} \cup Tag, no : 1..MaxPins]

ASSUME AnchorDialogAssumption ==
  MaxPins \in Nat \ {0} /\ None \notin Pin /\ None \notin 1..MaxPins

VARIABLES
  pins,       \* per product: None, or the live anchor's link and number
  pinned,     \* per product: anchors it ever had on the target
  withdrawn,  \* retired products
  dialog,     \* the dialog's state, and the requests it has in progress
  touched     \* history: products changed since the dialog opened by another
              \* admin, or by a save of its own that then failed

anchorDialogVars == <<pins, pinned, withdrawn, dialog, touched>>

Out == "out"
Choice == {Out, None} \cup Tag
NoneOf == [p \in Pinnable |-> None]
Nothing == [p \in Pinnable |-> Out]

AnchorDialogTypeOK ==
  /\ pinned \in [Pinnable -> 0..MaxPins]
  /\ \A p \in Pinnable : pins[p] # None =>
       pins[p] \in [tag : {None} \cup Tag, no : 1..pinned[p]]
  /\ withdrawn \subseteq Pinnable /\ touched \subseteq Pinnable
  /\ dialog.kind \in {"picker", "recorder"}
  /\ dialog.pc \in {"loading", "edit", "recording", "partial", "anchoring", "removing", "saved"}
  /\ dialog.want \in [Pinnable -> Choice]
  /\ \A p \in Pinnable : dialog.old[p] # None => dialog.old[p] \in 1..pinned[p]
  /\ dialog.barred \subseteq Pinnable
  /\ dialog.todo \subseteq Pinnable /\ dialog.drop \subseteq Pinnable /\ dialog.new \subseteq Pinnable
  /\ dialog.recorded \in BOOLEAN

Chosen == {p \in Pinnable : dialog.want[p] # Out}
Live == {p \in Pinnable : pins[p] # None}

\* A target's pins before the dialog opens; a recorded post is new.
AnchorDialogInit ==
  /\ \E kind \in {"picker", "recorder"}, live \in SUBSET Pinnable :
       /\ kind = "recorder" => live = {}
       /\ pins = [p \in Pinnable |-> IF p \in live THEN [tag |-> None, no |-> 1] ELSE None]
       /\ pinned = [p \in Pinnable |-> IF p \in live THEN 1 ELSE 0]
       /\ dialog = [kind |-> kind, pc |-> IF kind = "picker" THEN "loading" ELSE "edit",
                    want |-> Nothing, old |-> NoneOf, barred |-> {},
                    todo |-> {}, drop |-> {}, new |-> {}, recorded |-> FALSE]
  /\ withdrawn = {} /\ touched = {}

-----------------------------------------------------------------------------
\* The picker lists the target's live anchors once, when it opens.
AnchorsListed ==
  /\ dialog.pc = "loading"
  /\ dialog' = [dialog EXCEPT !.pc = "edit",
                  !.want = [p \in Pinnable |-> IF p \in Live THEN pins[p].tag ELSE Out],
                  !.old = [p \in Pinnable |-> IF p \in Live THEN pins[p].no ELSE None],
                  !.barred = withdrawn]
  /\ touched' = {}
  /\ UNCHANGED <<pins, pinned, withdrawn>>

\* A failed list leaves an empty picker that may still be saved.
ListingFails ==
  /\ dialog.pc = "loading"
  /\ dialog' = [dialog EXCEPT !.pc = "edit", !.barred = withdrawn]
  /\ touched' = Live
  /\ UNCHANGED <<pins, pinned, withdrawn>>

\* A retired product's box is disabled, whether it is checked or not.
Choose(p, choice) ==
  /\ dialog.pc = "edit"
  /\ p \notin dialog.barred
  /\ dialog' = [dialog EXCEPT !.want[p] = choice]
  /\ UNCHANGED <<pins, pinned, withdrawn, touched>>

\* Mutant: only what was unchecked in an otherwise empty picker.
ToRemoveIfEmpty == {p \in Pinnable : dialog.old[p] # None /\ Chosen = {}}

\* The unchecked ones among those listed at the opening.
ToRemove == {p \in Pinnable : dialog.old[p] # None /\ p \notin Chosen}

AfterAnchoring(d) ==
  IF d.kind = "picker" /\ d.drop # {} THEN "removing" ELSE "saved"

Starts(d) ==
  [d EXCEPT !.pc = IF Chosen = {} THEN AfterAnchoring(d) ELSE "anchoring",
            !.todo = Chosen, !.new = {}]

Save ==
  /\ dialog.kind = "picker" /\ dialog.pc = "edit"
  /\ dialog' = Starts([dialog EXCEPT !.drop = ToRemove])
  /\ UNCHANGED <<pins, pinned, withdrawn, touched>>

\* The recorder records first; a post already recorded is refused with 409.
SubmitRecord ==
  /\ dialog.kind = "recorder" /\ dialog.pc = "edit"
  /\ dialog' = [dialog EXCEPT !.pc = "recording"]
  /\ UNCHANGED <<pins, pinned, withdrawn, touched>>

Recorded ==
  /\ dialog.pc = "recording" /\ ~dialog.recorded
  /\ dialog' = Starts([dialog EXCEPT !.recorded = TRUE])
  /\ UNCHANGED <<pins, pinned, withdrawn, touched>>

\* Refused, or recorded and the answer lost: back to the form with an error.
RecordFails ==
  /\ dialog.pc = "recording"
  /\ \E reached \in BOOLEAN :
       dialog' = [dialog EXCEPT !.pc = "edit", !.recorded = @ \/ reached]
  /\ UNCHANGED <<pins, pinned, withdrawn, touched>>

RetryAnchoring ==
  /\ dialog.pc = "partial"
  /\ dialog' = Starts(dialog)
  /\ UNCHANGED <<pins, pinned, withdrawn, touched>>

-----------------------------------------------------------------------------
\* anchorOne: a live anchor is returned as it is, whatever the item says of the link.
AlreadyAnchored(p) == p \in Live

AnchorOne(p) ==
  /\ dialog.pc = "anchoring" /\ p \in dialog.todo
  /\ \/ /\ AlreadyAnchored(p)
        /\ dialog' = [dialog EXCEPT !.todo = @ \ {p}]
        /\ UNCHANGED <<pins, pinned>>
     \/ /\ ~AlreadyAnchored(p) /\ p \notin withdrawn /\ pinned[p] < MaxPins
        /\ pins' = [pins EXCEPT ![p] = [tag |-> dialog.want[p], no |-> pinned[p] + 1]]
        /\ pinned' = [pinned EXCEPT ![p] = @ + 1]
        /\ dialog' = [dialog EXCEPT !.todo = @ \ {p}, !.new = @ \cup {p}]
  /\ UNCHANGED <<withdrawn, touched>>

AnchorsAnswered ==
  /\ dialog.pc = "anchoring" /\ dialog.todo = {}
  /\ dialog' = [dialog EXCEPT !.pc = AfterAnchoring(dialog)]
  /\ UNCHANGED <<pins, pinned, withdrawn, touched>>

\* removeOne, by the anchor's id; each request awaited before the next.
RemoveOne(p) ==
  /\ dialog.pc = "removing" /\ p \in dialog.drop
  /\ p \in Live /\ pins[p].no = dialog.old[p]
  /\ pins' = [pins EXCEPT ![p] = None]
  /\ dialog' = [dialog EXCEPT !.drop = @ \ {p},
                              !.pc = IF dialog.drop = {p} THEN "saved" ELSE @]
  /\ UNCHANGED <<pinned, withdrawn, touched>>

\* An item is refused (retired, raced, 404 on what is already removed) or an
\* answer is lost: the items before it stay done, and what was listed at the
\* opening is not listed again.
SaveFails ==
  /\ dialog.pc \in {"anchoring", "removing"}
  /\ dialog' = [dialog EXCEPT !.pc = IF dialog.kind = "picker" THEN "edit" ELSE "partial",
                              !.todo = {}, !.drop = {}, !.new = {}]
  /\ touched' = touched \cup dialog.new
  /\ UNCHANGED <<pins, pinned, withdrawn>>

-----------------------------------------------------------------------------
OtherAnchors(p) ==
  /\ p \notin Live /\ p \notin withdrawn /\ pinned[p] < MaxPins
  /\ dialog.pc # "saved" /\ (dialog.kind = "picker" \/ dialog.recorded)
  /\ pins' = [pins EXCEPT ![p] = [tag |-> None, no |-> pinned[p] + 1]]
  /\ pinned' = [pinned EXCEPT ![p] = @ + 1]
  /\ touched' = touched \cup {p}
  /\ UNCHANGED <<withdrawn, dialog>>

OtherRemoves(p) ==
  /\ p \in Live /\ dialog.pc # "saved"
  /\ pins' = [pins EXCEPT ![p] = None]
  /\ touched' = touched \cup {p}
  /\ UNCHANGED <<pinned, withdrawn, dialog>>

Withdraw(p) ==
  /\ dialog.pc # "saved" /\ p \notin withdrawn
  /\ withdrawn' = withdrawn \cup {p}
  /\ UNCHANGED <<pins, pinned, dialog, touched>>

AnchorDialogNext ==
  \/ AnchorsListed \/ ListingFails \/ Save
  \/ SubmitRecord \/ Recorded \/ RecordFails \/ RetryAnchoring
  \/ AnchorsAnswered \/ SaveFails
  \/ \E p \in Pinnable : \/ \E choice \in Choice : Choose(p, choice)
                         \/ AnchorOne(p) \/ RemoveOne(p)
                         \/ OtherAnchors(p) \/ OtherRemoves(p) \/ Withdraw(p)

AnchorDialogSpec == AnchorDialogInit /\ [][AnchorDialogNext]_anchorDialogVars

-----------------------------------------------------------------------------
\* When the dialog reports success, every product nobody else touched is pinned
\* exactly when it is checked, and one that this save pinned carries the link it
\* was given.  A product an earlier failed save of the same dialog pinned is
\* excepted: unchecked afterwards it stays pinned, because the removals are
\* computed from the list read at the opening.
SavedMeansPinned ==
  dialog.pc = "saved" =>
    \A p \in Pinnable \ touched :
      /\ p \in Live <=> p \in Chosen
      /\ p \in dialog.new => pins[p].tag = dialog.want[p]
=============================================================================
