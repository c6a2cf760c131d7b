---------------------------- MODULE ContentGate ----------------------------
(***************************************************************************)
(* Editing one content row: PATCH requests that check the row they read    *)
(* merged with their own fields, and write those fields alone.  The        *)
(* copyright gate lives in the service only; the order of the two ages is  *)
(* also a CHECK constraint of the table.                                   *)
(***************************************************************************)
EXTENDS Naturals

CONSTANTS
  Editors,   \* PATCH requests handled concurrently
  Ages,      \* target ages
  None       \* no PATCH in hand

ASSUME ContentGateAssumption == Ages \subseteq Nat

VARIABLES
  row,    \* the contents row
  patch,  \* per editor: the fields it has found good and is about to write
  fresh   \* editors since whose read nobody has written the row

vars == <<row, patch, fresh>>

\* The fields a rule looks at: clearance is cleared or not, the pillar comedy
\* or another (none included), the evidence URL blank or not.
Values == [status   |-> {"draft", "ready", "archived"},
           cleared  |-> BOOLEAN,
           comedy   |-> BOOLEAN,
           evidence |-> BOOLEAN,
           min      |-> Ages,
           max      |-> Ages]

Row == [status : Values.status, cleared : BOOLEAN, comedy : BOOLEAN,
        evidence : BOOLEAN, min : Ages, max : Ages]

Change == UNION {[{f} -> Values[f]] : f \in DOMAIN Values}

Override(c, d) ==
  [f \in DOMAIN c \cup DOMAIN d |-> IF f \in DOMAIN c THEN c[f] ELSE d[f]]

\* Bound: a PATCH names one or two of these fields.
Patch == {Override(c, d) : c, d \in Change}

Merge(r, p) == Override(p, r)

-----------------------------------------------------------------------------
(* The rules.                                                              *)

AgesOrdered(r) == r.min <= r.max

\* Mutant: the table has no CHECK constraint.
NoConstraint(r) == TRUE

\* The CHECK constraint contents_target_age_range_check.
TableAccepts(r) == AgesOrdered(r)

\* canMarkCopyrightCleared.
Eligible(r) == r.comedy \/ r.evidence

\* assertReadyTransitionAllowed.
ReadyAllowed(r) == r.cleared /\ Eligible(r)

\* Mutant: the gate is run only by a PATCH that sets the status itself.
GatedIfPatched(r, p) == "status" \in DOMAIN p /\ p.status = "ready"

\* The gate is run whenever the row would be ready afterwards.
Gated(r, p) == Merge(r, p).status = "ready"

Accepts(r, p) ==
  LET next == Merge(r, p) IN
  /\ AgesOrdered(next)
  /\ "cleared" \in DOMAIN p /\ p.cleared => Eligible(next)
  /\ Gated(r, p) => ReadyAllowed(next)

\* What create lets in.
Created ==
  {r \in Row : /\ r.status # "archived"
               /\ AgesOrdered(r)
               /\ r.cleared => Eligible(r)
               /\ r.status = "ready" => ReadyAllowed(r)}

-----------------------------------------------------------------------------

TypeOK ==
  /\ row \in Row
  /\ \A e \in Editors : patch[e] = None \/ patch[e] \in Patch
  /\ fresh \subseteq Editors

Init ==
  /\ row \in Created
  /\ patch = [e \in Editors |-> None]
  /\ fresh = {}

\* update, up to its write: the row is read and the merged state is checked.  A
\* PATCH that fails a check is answered 400 and changes nothing.
CheckPatch(e, p) ==
  /\ patch[e] = None
  /\ Accepts(row, p)
  /\ patch' = [patch EXCEPT ![e] = p]
  /\ fresh' = fresh \cup {e}
  /\ UNCHANGED row

\* The UPDATE names the row by id and sets the fields of the PATCH.
WritePatch(e) ==
  /\ patch[e] # None
  /\ TableAccepts(Merge(row, patch[e]))
  /\ row' = Merge(row, patch[e])
  /\ patch' = [patch EXCEPT ![e] = None]
  /\ fresh' = {}

\* The constraint refuses the UPDATE: answered 500, nothing changes.
WriteRefused(e) ==
  /\ patch[e] # None
  /\ ~TableAccepts(Merge(row, patch[e]))
  /\ patch' = [patch EXCEPT ![e] = None]
  /\ fresh' = fresh \ {e}
  /\ UNCHANGED row

\* Mutant: the row gets a status the enum does not have.
ArchiveDeletes ==
  /\ row' = [row EXCEPT !.status = "deleted"]
  /\ fresh' = {}
  /\ UNCHANGED patch

\* archive sets the status whatever the row holds.
Archive ==
  /\ row' = [row EXCEPT !.status = "archived"]
  /\ fresh' = {}
  /\ UNCHANGED patch

Next ==
  \/ Archive
  \/ \E e \in Editors : \/ \E p \in Patch : CheckPatch(e, p)
                        \/ WritePatch(e)
                        \/ WriteRefused(e)

Spec == Init /\ [][Next]_vars

-----------------------------------------------------------------------------

\* The ages stay in order although two PATCHes, each in order with the row it
\* read, may move one age each: the constraint settles what the service's check
\* cannot see.
AgesStayOrdered == AgesOrdered(row)

\* BUG-QA-002: a PATCH that nobody overlapped leaves the row `ready` only when
\* it is cleared and has its evidence, whichever fields it names and whatever
\* earlier overlaps have left behind.
ReadyIsChecked ==
  [][\A e \in fresh : row' = Merge(row, patch[e]) /\ patch'[e] = None
       => (row'.status = "ready" => ReadyAllowed(row'))]_vars

\* assertReadyTransitionAllowed's comment: "`ready` status is unreachable while
\* content.copyright_cleared != cleared".
ReadyIsCleared == row.status = "ready" => row.cleared
=============================================================================
