------------------------ MODULE ContentGateProofs ------------------------
(***************************************************************************)
(* Proofs about ContentGate for any number of editors and any ages.        *)
(***************************************************************************)
EXTENDS ContentGate, TLAPS

\* A PATCH whose row has not moved since its read is still acceptable, which
\* is what its check looked at.
FreshAccepted == \A e \in fresh : patch[e] \in Patch /\ Accepts(row, patch[e])

GateInv ==
  /\ row \in Row
  /\ patch \in [Editors -> Patch \cup {None}]
  /\ fresh \subseteq Editors
  /\ AgesStayOrdered
  /\ FreshAccepted

\* A PATCH changes no field's type: each of its fields has one of the values
\* the field may have.
LEMMA PatchValues ==
  ASSUME NEW p \in Patch, NEW f \in DOMAIN p
  PROVE  f \in DOMAIN Values /\ p[f] \in Values[f]
<1>1. PICK c \in Change, d \in Change : p = Override(c, d)
  BY DEF Patch
<1>2. ASSUME NEW x \in Change, NEW g \in DOMAIN x
      PROVE  g \in DOMAIN Values /\ x[g] \in Values[g]
  <2>1. PICK h \in DOMAIN Values : x \in [{h} -> Values[h]]
    BY <1>2 DEF Change
  <2> QED
    BY <1>2, <2>1
<1>3. CASE f \in DOMAIN c
  BY <1>1, <1>2, <1>3 DEF Override
<1>4. CASE f \notin DOMAIN c
  <2>1. f \in DOMAIN d /\ p[f] = d[f]
    BY <1>1, <1>4 DEF Override
  <2> QED
    BY <1>2, <2>1
<1> QED
  BY <1>3, <1>4

\* Merging a PATCH into a row gives a row.
LEMMA MergeIsRow ==
  ASSUME NEW r \in Row, NEW p \in Patch
  PROVE  Merge(r, p) \in Row
<1>1. /\ DOMAIN r = {"status", "cleared", "comedy", "evidence", "min", "max"}
      /\ \A f \in DOMAIN r : r[f] \in Values[f]
  BY DEF Row, Values
<1>2. DOMAIN p \subseteq DOMAIN r
  BY <1>1, PatchValues DEF Values
<1>3. /\ Merge(r, p) = [f \in DOMAIN r |-> Merge(r, p)[f]]
      /\ \A f \in DOMAIN r : Merge(r, p)[f] \in Values[f]
  BY <1>1, <1>2, PatchValues DEF Merge, Override
<1>4. Merge(r, p) =
        [status |-> Merge(r, p).status, cleared |-> Merge(r, p).cleared,
         comedy |-> Merge(r, p).comedy, evidence |-> Merge(r, p).evidence,
         min |-> Merge(r, p).min, max |-> Merge(r, p).max]
  BY <1>1, <1>3
<1>5. /\ Merge(r, p).status \in Values.status /\ Merge(r, p).cleared \in BOOLEAN
      /\ Merge(r, p).comedy \in BOOLEAN /\ Merge(r, p).evidence \in BOOLEAN
      /\ Merge(r, p).min \in Ages /\ Merge(r, p).max \in Ages
  BY <1>1, <1>3 DEF Values
<1> QED
  BY <1>4, <1>5 DEF Row

LEMMA GateInit == Init => GateInv
BY DEF Init, GateInv, Created, AgesStayOrdered, FreshAccepted

LEMMA GateNext == GateInv /\ [Next]_vars => GateInv'
<1> SUFFICES ASSUME GateInv, [Next]_vars PROVE GateInv'
  OBVIOUS
<1> USE DEF GateInv, AgesStayOrdered, FreshAccepted
<1>1. CASE Archive
  BY <1>1 DEF Archive, Row, Values, AgesOrdered
<1>2. ASSUME NEW e \in Editors, NEW p \in Patch, CheckPatch(e, p) PROVE GateInv'
  BY <1>2 DEF CheckPatch
<1>3. ASSUME NEW e \in Editors, WritePatch(e) PROVE GateInv'
  <2>1. patch[e] \in Patch
    BY <1>3 DEF WritePatch
  <2>2. row' \in Row
    BY <1>3, <2>1, MergeIsRow DEF WritePatch
  <2> QED
    BY <1>3, <2>2 DEF WritePatch, TableAccepts
<1>4. ASSUME NEW e \in Editors, WriteRefused(e) PROVE GateInv'
  BY <1>4 DEF WriteRefused
<1>5. CASE UNCHANGED vars
  BY <1>5 DEF vars
<1> QED
  BY <1>1, <1>2, <1>3, <1>4, <1>5 DEF Next

THEOREM GateInductive == Spec => []GateInv
BY GateInit, GateNext, PTL DEF Spec

\* The types of the row, of the PATCHes in hand and of `fresh`.
THEOREM ContentTypeCorrect == Spec => []TypeOK
<1>1. GateInv => TypeOK
  BY DEF GateInv, TypeOK
<1> QED
  BY <1>1, GateInductive, PTL

\* Whatever PATCHes overlap, the ages of a content stay in order.
THEOREM AgesAlwaysOrdered == Spec => []AgesStayOrdered
<1>1. GateInv => AgesStayOrdered
  BY DEF GateInv
<1> QED
  BY <1>1, GateInductive, PTL

\* A PATCH that nobody overlapped leaves a `ready` row cleared and with its
\* evidence.
THEOREM ReadyAlwaysChecked == Spec => ReadyIsChecked
<1>1. ASSUME GateInv, [Next]_vars, NEW e \in fresh,
             row' = Merge(row, patch[e]), row'.status = "ready"
      PROVE  ReadyAllowed(row')
  BY <1>1 DEF GateInv, FreshAccepted, Accepts, Gated
<1>2. GateInv /\ [Next]_vars =>
        [\A e \in fresh : row' = Merge(row, patch[e]) /\ patch'[e] = None
           => (row'.status = "ready" => ReadyAllowed(row'))]_vars
  BY <1>1
<1> QED
  BY <1>2, GateInductive, PTL DEF Spec, ReadyIsChecked

-----------------------------------------------------------------------------
(* How far "`ready` is unreachable while not cleared" does hold.           *)

\* The step that leaves a row ready and not cleared is the write of a PATCH
\* whose row was written after it was read: no other PATCH, and no archiving.
ReadyIsLostByOverlap ==
  [][ReadyIsCleared /\ ~ReadyIsCleared' => \E e \in Editors \ fresh : WritePatch(e)]_vars

\* For any number of editors.
THEOREM OverlapsAlone == Spec => ReadyIsLostByOverlap
<1>1. ASSUME GateInv, [Next]_vars, ReadyIsCleared, ~ReadyIsCleared'
      PROVE  \E e \in Editors \ fresh : WritePatch(e)
  <2>1. row' # row
    BY <1>1 DEF ReadyIsCleared
  <2>2. row'.status = "ready" /\ ~row'.cleared
    BY <1>1 DEF ReadyIsCleared
  <2>3. ~Archive
    BY <1>1, <2>2 DEF Archive, GateInv, Row, Values
  <2>4. PICK e \in Editors : WritePatch(e)
    BY <1>1, <2>1, <2>3 DEF Next, CheckPatch, WriteRefused, vars
  <2>5. e \notin fresh
    BY <1>1, <2>2, <2>4 DEF WritePatch, GateInv, FreshAccepted, Accepts, Gated, ReadyAllowed
  <2> QED
    BY <2>4, <2>5
<1>2. GateInv /\ [Next]_vars =>
        [ReadyIsCleared /\ ~ReadyIsCleared' => \E e \in Editors \ fresh : WritePatch(e)]_vars
  BY <1>1
<1> QED
  BY <1>2, GateInductive, PTL DEF Spec, ReadyIsLostByOverlap

\* What an editor has in hand leaves the row ready only if it may be.
Harmless(r, p) == Merge(r, p).status = "ready" => ReadyAllowed(Merge(r, p))

\* An archived row is ready again only by a PATCH that says so, and that PATCH
\* was checked against the same clearance and evidence.
LEMMA HarmlessWhenArchived ==
  ASSUME NEW r \in Row, NEW p \in Patch, Harmless(r, p)
  PROVE  Harmless([r EXCEPT !.status = "archived"], p)
<1> DEFINE gone == [r EXCEPT !.status = "archived"]
<1>1. /\ DOMAIN r = {"status", "cleared", "comedy", "evidence", "min", "max"}
      /\ DOMAIN gone = DOMAIN r /\ gone.status = "archived"
      /\ \A f \in DOMAIN r \ {"status"} : gone[f] = r[f]
  BY DEF Row
<1>2. \A f \in DOMAIN r \ {"status"} : Merge(gone, p)[f] = Merge(r, p)[f]
  BY <1>1 DEF Merge, Override
<1>3. Merge(gone, p).status = "ready" => Merge(r, p).status = "ready"
  BY <1>1 DEF Merge, Override
<1>4. Merge(gone, p).cleared = Merge(r, p).cleared /\ Merge(gone, p).comedy = Merge(r, p).comedy
      /\ Merge(gone, p).evidence = Merge(r, p).evidence
  BY <1>1, <1>2
<1> HIDE DEF gone
<1> QED
  BY <1>3, <1>4 DEF Harmless, ReadyAllowed, Eligible, gone

LoneInv ==
  /\ GateInv
  /\ row.status = "ready" => ReadyAllowed(row)
  /\ \A e \in Editors : patch[e] # None => Harmless(row, patch[e])

\* One PATCH at a time keeps the gate, whenever rows are archived: PATCHes that
\* overlap are all that BUG-QA-002's check cannot see.
THEOREM OneEditorKeepsTheGate ==
  ASSUME \A d, e \in Editors : d = e
  PROVE  Spec => []ReadyIsCleared
<1>1. LoneInv => ReadyIsCleared
  BY DEF LoneInv, ReadyIsCleared, ReadyAllowed
<1>2. Init => LoneInv
  BY GateInit DEF Init, LoneInv, Created
<1>3. ASSUME LoneInv, [Next]_vars  PROVE LoneInv'
  <2>1. GateInv /\ GateInv'
    BY <1>3, GateNext DEF LoneInv
  <2>2. CASE Archive
    <3>1. row'.status = "archived" /\ patch' = patch
      BY <2>1, <2>2 DEF Archive, GateInv, Row
    <3>2. \A e \in Editors : patch[e] # None => Harmless(row', patch[e])
      BY <1>3, <2>1, <2>2, HarmlessWhenArchived DEF Archive, GateInv, LoneInv
    <3> QED  BY <2>1, <3>1, <3>2 DEF LoneInv
  <2>3. ASSUME NEW e \in Editors, NEW p \in Patch, CheckPatch(e, p)  PROVE LoneInv'
    <3>1. Harmless(row, p)
      BY <2>3 DEF CheckPatch, Accepts, Gated, Harmless
    <3> QED  BY <1>3, <2>1, <2>3, <3>1 DEF CheckPatch, LoneInv, GateInv
  <2>4. ASSUME NEW e \in Editors, WritePatch(e)  PROVE LoneInv'
    <3>1. \A d \in Editors : patch'[d] = None
      BY <2>1, <2>4 DEF WritePatch, GateInv
    <3> QED  BY <1>3, <2>1, <2>4, <3>1 DEF WritePatch, LoneInv, Harmless
  <2>5. ASSUME NEW e \in Editors, WriteRefused(e)  PROVE LoneInv'
    BY <1>3, <2>1, <2>5 DEF WriteRefused, LoneInv, GateInv
  <2>6. CASE UNCHANGED vars
    BY <1>3, <2>1, <2>6 DEF vars, LoneInv
  <2> QED  BY <1>3, <2>2, <2>3, <2>4, <2>5, <2>6 DEF Next
<1> QED
  BY <1>1, <1>2, <1>3, PTL DEF Spec
=============================================================================
