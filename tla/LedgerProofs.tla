---------------------------- MODULE LedgerProofs ----------------------------
(***************************************************************************)
(* Proofs about the commerce and paid ledgers, for any number of requests, *)
(* admins, products, contents, campaigns, rows and instants.               *)
(***************************************************************************)
EXTENDS Catalog, Placements, Conversions, PaidEntries, Ledger,
        FiniteSetTheorems, SequenceTheorems, NaturalsInduction, WellFoundedInduction, TLAPS

-----------------------------------------------------------------------------
(* Ledgers: an amendment names an earlier row of its account, so that a    *)
(* chain of them stays there and ends.                                     *)

AmendsItsOwn ==
  \A j \in DOMAIN book : book[j].amends # 0 =>
    /\ book[j].amends \in 1..(j - 1)
    /\ book[book[j].amends].account = book[j].account

LedgerInv == book \in Seq(BookRow) /\ AmendsItsOwn

\* What appending a row does to the rows, by their numbers.
LEMMA AppendedRows ==
  ASSUME NEW S, NEW rows \in Seq(S), NEW row \in S
  PROVE  /\ Append(rows, row) \in Seq(S)
         /\ Len(Append(rows, row)) = Len(rows) + 1
         /\ DOMAIN Append(rows, row) = 1..(Len(rows) + 1)
         /\ Append(rows, row)[Len(rows) + 1] = row
         /\ \A i \in DOMAIN rows :
              i \in DOMAIN Append(rows, row) /\ Append(rows, row)[i] = rows[i]
BY AppendProperties

\* An empty ledger has nothing to amend.
LEMMA LedgerInit1 == LedgerInit => LedgerInv
BY DEF LedgerInit, LedgerInv, AmendsItsOwn

\* Entering a row changes no earlier one, and amends one that was there.
LEMMA LedgerNext1 ==
  LedgerInv /\ [LedgerNext]_book
    => LedgerInv' /\ \A i \in DOMAIN book : i \in DOMAIN book' /\ book'[i] = book[i]
<1> SUFFICES ASSUME LedgerInv, [LedgerNext]_book
             PROVE  LedgerInv' /\ \A i \in DOMAIN book : i \in DOMAIN book' /\ book'[i] = book[i]
  OBVIOUS
<1>1. CASE book' = book
  BY <1>1 DEF LedgerInv, AmendsItsOwn
<1>2. ASSUME NEW account \in Account, NEW amends \in 0..Len(book), Enter(account, amends)
      PROVE  LedgerInv' /\ \A i \in DOMAIN book : i \in DOMAIN book' /\ book'[i] = book[i]
  <2> DEFINE row == [account |-> account, amends |-> amends]
             n   == Len(book)
  <2>1. book \in Seq(BookRow) /\ n \in Nat /\ DOMAIN book = 1..n /\ AmendsItsOwn
    BY DEF LedgerInv
  <2>2. row \in BookRow
    <3>1. amends \in Nat
      BY <2>1
    <3> QED
      BY <3>1 DEF BookRow
  <2>a. book' = Append(book, row)
    BY <1>2 DEF Enter
  <2>f. row.account = account /\ row.amends = amends
    BY Zenon
  <2> HIDE DEF row
  <2>b. /\ Append(book, row) \in Seq(BookRow)
        /\ DOMAIN Append(book, row) = 1..(n + 1)
        /\ Append(book, row)[n + 1] = row
        /\ \A i \in DOMAIN book : i \in DOMAIN Append(book, row) /\ Append(book, row)[i] = book[i]
    BY <2>1, <2>2, AppendedRows
  <2>3. /\ book' \in Seq(BookRow)
        /\ DOMAIN book' = 1..(n + 1)
        /\ book'[n + 1] = row
        /\ \A i \in DOMAIN book : i \in DOMAIN book' /\ book'[i] = book[i]
    BY <2>a, <2>b
  <2>4. ASSUME NEW j \in DOMAIN book', book'[j].amends # 0
        PROVE  /\ book'[j].amends \in 1..(j - 1)
               /\ book'[book'[j].amends].account = book'[j].account
    <3>1. CASE j = n + 1
      <4>1. amends \in DOMAIN book /\ book[amends].account = account
        BY <1>2, <2>3, <2>4, <2>f, <3>1 DEF Enter
      <4>2. book'[j].amends = amends /\ book'[j].account = account
        BY <2>3, <2>f, <3>1
      <4> QED
        BY <2>1, <2>3, <3>1, <4>1, <4>2
    <3>2. CASE j # n + 1
      <4>1. j \in DOMAIN book /\ book'[j] = book[j]
        BY <2>1, <2>3, <3>2
      <4>2. /\ book[j].amends \in 1..(j - 1)
            /\ book[book[j].amends].account = book[j].account
        BY <2>1, <2>4, <4>1 DEF AmendsItsOwn
      <4>3. book[j].amends \in DOMAIN book
        BY <2>1, <4>1, <4>2
      <4> QED
        BY <2>3, <4>1, <4>2, <4>3
    <3> QED
      BY <3>1, <3>2
  <2> QED
    BY <2>3, <2>4 DEF LedgerInv, AmendsItsOwn
<1> QED
  BY <1>1, <1>2 DEF LedgerNext

\* A claim about the numbers up to n that holds of zero and of each number after
\* one it holds of is true of all: the least one to break it cannot be there.
LEMMA UpToEach ==
  ASSUME NEW n \in Nat, NEW Holds \in SUBSET (0..n), 0 \in Holds,
         \A k \in 1..n : k - 1 \in Holds => k \in Holds
  PROVE  \A k \in 0..n : k \in Holds
<1> DEFINE T == (0..n) \ Holds
           R == OpToRel(<, Nat)
<1>1. SUFFICES ASSUME T # {} PROVE FALSE
  OBVIOUS
<1>2. PICK k \in T : \A j \in T : ~(<<j, k>> \in R)
  <2>1. IsWellFoundedOn(R, Nat)
    BY NatLessThanWellFounded
  <2>2. T \subseteq Nat
    OBVIOUS
  <2> HIDE DEF R, T
  <2> QED
    BY <1>1, <2>1, <2>2, WFMin
<1>3. k \in 1..n /\ k - 1 \in 0..n
  OBVIOUS
<1>4. k - 1 \notin T
  <2>1. <<k - 1, k>> \in R
    BY <1>3 DEF OpToRel
  <2> HIDE DEF R, T
  <2> QED
    BY <1>2, <2>1
<1> QED
  BY <1>3, <1>4

\* Each row of a chain is in the account of its first, and earlier by its place.
LEMMA ChainDescends ==
  ASSUME LedgerInv, NEW n \in Nat, NEW chain \in [0..n -> DOMAIN book], IsChain(chain, n)
  PROVE  \A k \in 0..n : /\ chain[k] + k <= chain[0]
                         /\ book[chain[k]].account = book[chain[0]].account
<1> DEFINE Holds == {k \in 0..n : /\ chain[k] + k <= chain[0]
                                 /\ book[chain[k]].account = book[chain[0]].account}
<1>1. DOMAIN book \subseteq Nat \ {0}
  BY DEF LedgerInv
<1>2. \A k \in 0..n : chain[k] \in DOMAIN book /\ chain[k] \in Nat \ {0}
  BY <1>1
<1>3. 0 \in Holds
  BY <1>2
<1>4. ASSUME NEW k \in 1..n, k - 1 \in Holds
      PROVE  k \in Holds
  <2>1. k - 1 \in 0..n /\ k \in 0..n
    OBVIOUS
  <2>2. book[chain[k - 1]].amends = chain[k]
    BY DEF IsChain
  <2>3. chain[k] \in 1..(chain[k - 1] - 1) /\ book[chain[k]].account = book[chain[k - 1]].account
    BY <1>2, <2>1, <2>2 DEF LedgerInv, AmendsItsOwn
  <2>4. chain[k - 1] + (k - 1) <= chain[0] /\ book[chain[k - 1]].account = book[chain[0]].account
    BY <1>4
  <2>5. chain[k] + k <= chain[0]
    BY <1>2, <2>1, <2>3, <2>4
  <2> QED
    BY <2>1, <2>3, <2>4, <2>5
<1>5. \A k \in 0..n : k \in Holds
  <2>1. Holds \in SUBSET (0..n)
    OBVIOUS
  <2> HIDE DEF Holds
  <2> QED
    BY <1>3, <1>4, <2>1, UpToEach
<1> QED
  BY <1>5

\* Of any ledger: a chain of amendments, however long, stays in one account and
\* ends after at most as many rows as there are; and no row is ever changed
\* (commerce-conversion.service.ts and paid-performance.service.ts only insert).
THEOREM LedgersAreSound == LedgerSpec => []ChainsStayInAccount /\ RowsStay
<1>1. LedgerInv => ChainsStayInAccount
  <2> SUFFICES ASSUME LedgerInv, NEW n \in Nat, NEW chain \in [0..n -> DOMAIN book],
                      IsChain(chain, n)
               PROVE  /\ n < Len(book)
                      /\ \A k \in 0..n : book[chain[k]].account = book[chain[0]].account
    BY DEF ChainsStayInAccount
  <2>1. \A k \in 0..n : /\ chain[k] + k <= chain[0]
                        /\ book[chain[k]].account = book[chain[0]].account
    BY ChainDescends
  <2>2. chain[n] \in 1..Len(book) /\ chain[0] \in 1..Len(book) /\ Len(book) \in Nat
    BY DEF LedgerInv
  <2>3. n < Len(book)
    BY <2>1, <2>2
  <2> QED
    BY <2>1, <2>3
<1>2. LedgerInv /\ [LedgerNext]_book
        => [\A i \in DOMAIN book : i \in DOMAIN book' /\ book'[i] = book[i]]_book
  BY LedgerNext1
<1>3. LedgerInv /\ [LedgerNext]_book => LedgerInv'
  BY LedgerNext1
<1> QED
  BY <1>1, <1>2, <1>3, LedgerInit1, PTL DEF LedgerSpec, RowsStay

-----------------------------------------------------------------------------
(* Placements: what a request in hand has passed carries over to its row.  *)

Placing == [pc : {"gate", "duplicate", "media", "insert"}, fromAsset : BOOLEAN, row : Placement]

PlacingOK(q) ==
  /\ q # Idle /\ publishable[q.row.clip] => q.row.passed
  /\ q.pc \in {"duplicate", "media", "insert"} => q.row.passed
  /\ q.pc = "insert" => DurationFits(q.row.shop, q.row.duration)

PlacementInv ==
  /\ publishable \in [Clip -> BOOLEAN]
  /\ assetLength \in [Clip -> Duration \cup {None}]
  /\ placements \subseteq Placement
  /\ placing \in [Request -> Placing \cup {Idle}]
  /\ \A r \in Request : PlacingOK(placing[r])
  /\ PlacementIsSound

LEMMA PlacementInit1 == PlacementInit => PlacementInv
BY DEF PlacementInit, PlacementInv, PlacingOK, PlacementIsSound, Idle

\* A request that moves on, with what it then has passed, keeps the rest.
LEMMA PlacingMoves ==
  ASSUME PlacementInv, NEW r \in Request, NEW q \in Placing \cup {Idle}, PlacingOK(q),
         placing' = [placing EXCEPT ![r] = q]
  PROVE  /\ placing' \in [Request -> Placing \cup {Idle}]
         /\ \A s \in Request : PlacingOK(placing'[s])
BY DEF PlacementInv

LEMMA PlacementNext1 == PlacementInv /\ [PlacementNext]_placementVars => PlacementInv'
<1> SUFFICES ASSUME PlacementInv, [PlacementNext]_placementVars PROVE PlacementInv'
  OBVIOUS
<1>i. Idle \in Placing \cup {Idle} /\ PlacingOK(Idle)
  BY DEF Idle, PlacingOK
<1>p. UNCHANGED publishable =>
        \A s \in Request : (PlacingOK(placing[s]))' <=> PlacingOK(placing'[s])
  BY DEF PlacingOK, DurationFits
<1>1. ASSUME NEW r \in Request, NEW q \in Placing \cup {Idle}, PlacingOK(q),
             placing' = [placing EXCEPT ![r] = q],
             UNCHANGED <<publishable, assetLength, placements>>
      PROVE  PlacementInv'
  BY <1>1, <1>p, PlacingMoves DEF PlacementInv, PlacementIsSound
<1>2. ASSUME NEW r \in Request, NEW c \in Clip, NEW s \in Shop,
             NEW d \in Duration \cup {None}, NEW fromAsset \in BOOLEAN,
             PlaceStart(r, c, s, d, fromAsset)
      PROVE  PlacementInv'
  <2> DEFINE q == [pc |-> "gate", fromAsset |-> fromAsset,
                   row |-> [clip |-> c, shop |-> s, duration |-> d, passed |-> publishable[c]]]
  <2>1. q \in Placing \cup {Idle} /\ PlacingOK(q)
    BY DEF PlacementInv, Placing, Placement, PlacingOK
  <2>2. placing' = [placing EXCEPT ![r] = q]
    BY <1>2 DEF PlaceStart
  <2> HIDE DEF q
  <2> QED
    BY <1>1, <1>2, <2>1, <2>2 DEF PlaceStart
<1>q. ASSUME NEW r \in Request, placing[r].pc # Idle.pc
      PROVE  placing[r] \in Placing /\ placing[r].row \in Placement /\ placing[r] # Idle
  BY <1>q DEF PlacementInv, Placing
<1>3. ASSUME NEW r \in Request, PlaceGate(r) PROVE PlacementInv'
  <2>1. placing[r] \in Placing /\ placing[r] # Idle /\ PlacingOK(placing[r])
    BY <1>3, <1>q DEF PlaceGate, PlacementInv, Idle
  <2>2. CASE ~PassesGate(placing[r].row.clip)
    BY <1>1, <1>3, <1>i, <2>2 DEF PlaceGate, PlaceRefused
  <2>3. CASE PassesGate(placing[r].row.clip)
    <3> DEFINE q == [placing[r] EXCEPT !.pc = "duplicate"]
    <3>1. q \in Placing \cup {Idle} /\ PlacingOK(q)
      BY <2>1, <2>3 DEF Placing, PlacingOK, PassesGate
    <3>2. placing' = [placing EXCEPT ![r] = q]
      BY <1>3, <2>3 DEF PlaceGate, PlaceGoesTo
    <3> HIDE DEF q
    <3> QED
      BY <1>1, <1>3, <3>1, <3>2 DEF PlaceGate
  <2> QED
    BY <2>2, <2>3
<1>4. ASSUME NEW r \in Request, PlaceDuplicate(r) PROVE PlacementInv'
  <2>1. placing[r] \in Placing /\ placing[r] # Idle /\ PlacingOK(placing[r])
    BY <1>4, <1>q DEF PlaceDuplicate, PlacementInv, Idle
  <2>2. CASE ActivePlacement(placing[r].row.clip, placing[r].row.shop)
    BY <1>1, <1>4, <1>i, <2>2 DEF PlaceDuplicate, PlaceRefused
  <2>3. CASE ~ActivePlacement(placing[r].row.clip, placing[r].row.shop)
    <3> DEFINE q == [placing[r] EXCEPT !.pc = "media"]
    <3>1. q \in Placing \cup {Idle} /\ PlacingOK(q)
      BY <1>4, <2>1 DEF Placing, PlacingOK, PlaceDuplicate
    <3>2. placing' = [placing EXCEPT ![r] = q]
      BY <1>4, <2>3 DEF PlaceDuplicate, PlaceGoesTo
    <3> HIDE DEF q
    <3> QED
      BY <1>1, <1>4, <3>1, <3>2 DEF PlaceDuplicate
  <2> QED
    BY <2>2, <2>3
<1>5. ASSUME NEW r \in Request, PlaceMedia(r) PROVE PlacementInv'
  <2>1. placing[r] \in Placing /\ placing[r].row \in Placement /\ placing[r] # Idle
        /\ PlacingOK(placing[r]) /\ placing[r].pc = "media"
    BY <1>5, <1>q DEF PlaceMedia, PlacementInv, Idle
  <2> DEFINE row == placing[r].row
             d   == MediaDuration(row.duration, placing[r].fromAsset, row.clip)
  <2>2. CASE ~DurationFits(row.shop, d)
    BY <1>1, <1>5, <1>i, <2>2 DEF PlaceMedia, PlaceRefused
  <2>3. CASE DurationFits(row.shop, d)
    <3> DEFINE q == [placing[r] EXCEPT !.pc = "insert", !.row.duration = d]
    <3>1. d \in Duration \cup {None}
      BY <2>1 DEF MediaDuration, PlacementInv, Placing, Placement
    <3>2. q \in Placing \cup {Idle}
      BY <2>1, <3>1 DEF Placing, Placement
    <3>3. q.pc = "insert" /\ q.row.passed = row.passed /\ q.row.clip = row.clip
          /\ q.row.shop = row.shop /\ q.row.duration = d
      BY <2>1 DEF Placing, Placement
    <3>4. PlacingOK(q)
      BY <2>1, <2>3, <3>3 DEF PlacingOK
    <3>5. placing' = [placing EXCEPT ![r] = q]
      BY <1>5, <2>3 DEF PlaceMedia
    <3> HIDE DEF q
    <3> QED
      BY <1>1, <1>5, <3>2, <3>4, <3>5 DEF PlaceMedia
  <2> QED
    BY <2>2, <2>3
<1>6. ASSUME NEW r \in Request, PlaceInsert(r) PROVE PlacementInv'
  <2>1. placing[r] \in Placing /\ placing[r].row \in Placement
        /\ PlacingOK(placing[r]) /\ placing[r].pc = "insert"
    BY <1>6, <1>q DEF PlaceInsert, PlacementInv, Idle
  <2>2. PlacementIsSound'
    <3>1. placing[r].row.passed /\ DurationFits(placing[r].row.shop, placing[r].row.duration)
      BY <2>1 DEF PlacingOK
    <3> QED
      BY <1>6, <3>1
         DEF PlaceInsert, PlacementIndexAccepts, ActivePlacement, DurationFits,
             PlacementInv, PlacementIsSound
  <2>3. placements' \subseteq Placement
    BY <1>6, <2>1 DEF PlaceInsert, PlacementInv
  <2> QED
    BY <1>6, <1>i, <1>p, <2>2, <2>3, PlacingMoves DEF PlaceInsert, PlaceRefused, PlacementInv
<1>7. ASSUME NEW c \in Clip, ContentChanges(c) PROVE PlacementInv'
  <2>1. publishable' \in [Clip -> BOOLEAN]
    BY <1>7 DEF ContentChanges, PlacementInv
  <2>2. \A r \in Request : placing'[r] \in Placing \cup {Idle} /\ (PlacingOK(placing[r]))'
    <3> TAKE r \in Request
    <3>1. CASE placing[r] # Idle /\ placing[r].row.clip = c
      <4>1. placing[r] \in Placing /\ placing[r].row \in Placement /\ PlacingOK(placing[r])
        BY <3>1 DEF PlacementInv, Placing
      <4>2. placing'[r] = [placing[r] EXCEPT !.row.passed = @ \/ publishable'[c]]
        BY <1>7, <3>1 DEF ContentChanges
      <4>3. /\ placing'[r].pc = placing[r].pc
            /\ placing'[r].row.clip = c
            /\ placing'[r].row.shop = placing[r].row.shop
            /\ placing'[r].row.duration = placing[r].row.duration
            /\ placing'[r].row.passed = (placing[r].row.passed \/ publishable'[c])
            /\ placing'[r] \in Placing
        BY <2>1, <3>1, <4>1, <4>2 DEF Placing, Placement
      <4> QED
        BY <4>1, <4>3 DEF PlacingOK, DurationFits
    <3>2. CASE ~(placing[r] # Idle /\ placing[r].row.clip = c)
      <4>1. placing'[r] = placing[r]
        BY <1>7, <3>2 DEF ContentChanges
      <4>2. placing[r] # Idle => publishable'[placing[r].row.clip] = publishable[placing[r].row.clip]
        BY <1>7, <3>2 DEF ContentChanges, PlacementInv, Placing, Placement
      <4> QED
        BY <4>1, <4>2 DEF PlacementInv, PlacingOK, DurationFits
    <3> QED
      BY <3>1, <3>2
  <2>3. placing' \in [Request -> Placing \cup {Idle}]
    BY <1>7, <2>2 DEF ContentChanges
  <2> QED
    BY <1>7, <2>1, <2>2, <2>3 DEF ContentChanges, PlacementInv, PlacementIsSound
<1>8. CASE UNCHANGED placementVars
  BY <1>8 DEF placementVars, PlacementInv, PlacingOK, DurationFits, PlacementIsSound
<1> QED
  BY <1>2, <1>3, <1>4, <1>5, <1>6, <1>7, <1>8 DEF PlacementNext

\* A content has one placement per channel, with a duration its channel's rule
\* admits, and was publishable while the request that recorded it was served.
THEOREM PlacementsAreSound == PlacementSpec => []PlacementIsSound
<1>1. PlacementInv => PlacementIsSound
  BY DEF PlacementInv
<1> QED
  BY <1>1, PlacementInit1, PlacementNext1, PTL DEF PlacementSpec

\* Placements and the requests in hand keep their types.
LEMMA PlacementTypes == PlacementSpec => []PlacementTypeOK
<1>1. PlacementInv => PlacementTypeOK
  BY DEF PlacementInv, PlacementTypeOK, Placing
<1> QED
  BY <1>1, PlacementInit1, PlacementNext1, PTL DEF PlacementSpec

-----------------------------------------------------------------------------
(* The catalogue: products never come back from retirement, and a request  *)
(* has read its product as active before it anchors it.                    *)

Anchoring == [pc : {"find", "product", "link", "insert"}, target : Target,
              items : Seq(AnchorItem) \ {<<>>}, gone : SUBSET Product]

AnchoringOK(q) ==
  /\ q # Idle => \A p \in q.gone : product[p] = "retired"
  /\ q.pc \in {"link", "insert"} => Head(q.items).product \notin q.gone

CatalogInv ==
  /\ product \in [Product -> RowState]
  /\ anchors \in Seq(Anchor)
  /\ anchoring \in [Request -> Anchoring \cup {Idle}]
  /\ \A r \in Request : AnchoringOK(anchoring[r])
  /\ \A t \in Target, p \in Product : \A i, j \in LiveAnchors(t, p) : i = j

LEMMA CatalogInit1 == CatalogInit => CatalogInv
BY DEF CatalogInit, CatalogInv, AnchoringOK, LiveAnchors, RowState, Idle

\* A request moves on alone, and the tables stay as they are.
LEMMA AnchoringMoves ==
  ASSUME CatalogInv, NEW r \in Request, NEW q \in Anchoring \cup {Idle}, AnchoringOK(q),
         anchoring' = [anchoring EXCEPT ![r] = q], UNCHANGED product
  PROVE  /\ anchoring' \in [Request -> Anchoring \cup {Idle}]
         /\ \A s \in Request : (AnchoringOK(anchoring[s]))'
BY DEF CatalogInv, AnchoringOK

\* The item after this one is looked up from the start.
LEMMA AnchoringNextItem ==
  ASSUME CatalogInv, NEW r \in Request, anchoring[r] \in Anchoring, AnchorNextItem(r)
  PROVE  \E q \in Anchoring \cup {Idle} :
           AnchoringOK(q) /\ anchoring' = [anchoring EXCEPT ![r] = q]
<1> DEFINE rest == Tail(anchoring[r].items)
<1>1. CASE rest = <<>>
  <2>1. anchoring' = [anchoring EXCEPT ![r] = Idle]
    BY <1>1 DEF AnchorNextItem
  <2>2. AnchoringOK(Idle)
    BY DEF AnchoringOK, Idle
  <2> QED
    BY <2>1, <2>2
<1>2. CASE rest # <<>>
  <2> DEFINE q == [anchoring[r] EXCEPT !.items = rest, !.pc = "find"]
  <2>1. rest \in Seq(AnchorItem)
    BY DEF Anchoring
  <2>2. q \in Anchoring /\ q.gone = anchoring[r].gone /\ q.pc = "find"
    BY <1>2, <2>1 DEF Anchoring
  <2>3. AnchoringOK(q)
    BY <2>2 DEF CatalogInv, AnchoringOK, Anchoring, Idle
  <2>4. anchoring' = [anchoring EXCEPT ![r] = q]
    BY <1>2 DEF AnchorNextItem
  <2> HIDE DEF q
  <2> QED
    BY <2>2, <2>3, <2>4
<1> QED
  BY <1>1, <1>2

LEMMA CatalogNext1 == CatalogInv /\ [CatalogNext]_catalogVars => CatalogInv'
<1> SUFFICES ASSUME CatalogInv, [CatalogNext]_catalogVars PROVE CatalogInv'
  OBVIOUS
<1>i. AnchoringOK(Idle)
  BY DEF AnchoringOK, Idle
<1>q. ASSUME NEW r \in Request, anchoring[r].pc # Idle.pc
      PROVE  anchoring[r] \in Anchoring /\ AnchoringOK(anchoring[r])
  BY <1>q DEF CatalogInv
\* Steps of a request that read only.
<1>m. ASSUME NEW r \in Request, NEW q \in Anchoring \cup {Idle}, AnchoringOK(q),
             anchoring' = [anchoring EXCEPT ![r] = q], UNCHANGED <<product, anchors>>
      PROVE  CatalogInv'
  <2>1. UNCHANGED product /\ UNCHANGED anchors
    BY <1>m
  <2>2. /\ anchoring' \in [Request -> Anchoring \cup {Idle}]
        /\ \A s \in Request : (AnchoringOK(anchoring[s]))'
    BY <1>m, <2>1, AnchoringMoves
  <2>3. \A t \in Target, p \in Product : LiveAnchors(t, p)' = LiveAnchors(t, p)
    BY <2>1 DEF LiveAnchors
  <2> QED
    BY <2>1, <2>2, <2>3 DEF CatalogInv
\* Steps of the admin on the catalogue: what is retired stays retired.
<1>c. ASSUME product' \in [Product -> RowState],
             \A p \in Product : product[p] = "retired" => product'[p] = "retired",
             UNCHANGED <<anchors, anchoring>>
      PROVE  CatalogInv'
  <2>1. \A r \in Request : anchoring[r] # Idle => anchoring[r].gone \subseteq Product
    BY DEF CatalogInv, Anchoring
  <2> QED
    BY <1>c, <2>1 DEF CatalogInv, LiveAnchors, AnchoringOK
<1>1. ASSUME NEW p \in Product, CreateProduct(p) \/ RetireProduct(p) PROVE CatalogInv'
  BY <1>1, <1>c DEF CreateProduct, RetireProduct, CatalogInv, RowState
<1>2. ASSUME NEW p \in Product, NEW u \in Url, CreateLink(p, u) \/ RetireLink(p, u)
      PROVE  CatalogInv'
  BY <1>2, <1>c DEF CreateLink, RetireLink, CatalogInv
<1>3. ASSUME NEW r \in Request, NEW t \in Target, NEW items \in AnchorLists,
             AnchorStart(r, t, items)
      PROVE  CatalogInv'
  <2> DEFINE q == [pc |-> "find", target |-> t, items |-> items,
                   gone |-> {p \in Product : product[p] = "retired"}]
  <2>1. q \in Anchoring /\ AnchoringOK(q)
    BY CatalogAssumption DEF Anchoring, AnchoringOK
  <2>2. anchoring' = [anchoring EXCEPT ![r] = q]
    BY <1>3 DEF AnchorStart
  <2> HIDE DEF q
  <2> QED
    BY <1>3, <1>m, <2>1, <2>2 DEF AnchorStart
<1>4. ASSUME NEW r \in Request, AnchorFind(r) PROVE CatalogInv'
  <2>1. anchoring[r] \in Anchoring /\ AnchoringOK(anchoring[r])
    BY <1>4, <1>q DEF AnchorFind, Idle
  <2>2. CASE AnchorNextItem(r)
    BY <1>4, <1>m, <2>1, <2>2, AnchoringNextItem DEF AnchorFind
  <2>3. CASE AnchorGoesTo(r, "product")
    <3> DEFINE q == [anchoring[r] EXCEPT !.pc = "product"]
    <3>1. q \in Anchoring /\ AnchoringOK(q)
      BY <2>1 DEF Anchoring, AnchoringOK, Idle
    <3>2. anchoring' = [anchoring EXCEPT ![r] = q]
      BY <2>3 DEF AnchorGoesTo
    <3> HIDE DEF q
    <3> QED
      BY <1>4, <1>m, <3>1, <3>2 DEF AnchorFind
  <2> QED
    BY <1>4, <2>2, <2>3 DEF AnchorFind
<1>5. ASSUME NEW r \in Request, AnchorReadProduct(r) PROVE CatalogInv'
  <2>1. anchoring[r] \in Anchoring /\ AnchoringOK(anchoring[r]) /\ anchoring[r] # Idle
    BY <1>5, <1>q DEF AnchorReadProduct, Idle
  <2> DEFINE item == Head(anchoring[r].items)
             pc   == IF item.url = None THEN "insert" ELSE "link"
  <2>2. CASE ProductIsActive(item.product)
    <3> DEFINE q == [anchoring[r] EXCEPT !.pc = pc]
    <3>1. item.product \notin anchoring[r].gone
      BY <2>1, <2>2 DEF AnchoringOK, ProductIsActive
    <3>2. q \in Anchoring /\ q.items = anchoring[r].items /\ q.gone = anchoring[r].gone
      BY <2>1 DEF Anchoring
    <3>3. AnchoringOK(q)
      BY <2>1, <3>1, <3>2 DEF AnchoringOK
    <3>4. anchoring' = [anchoring EXCEPT ![r] = q]
      BY <1>5, <2>2 DEF AnchorReadProduct, AnchorGoesTo
    <3> HIDE DEF q
    <3> QED
      BY <1>5, <1>m, <3>2, <3>3, <3>4 DEF AnchorReadProduct
  <2>3. CASE ~ProductIsActive(item.product)
    BY <1>5, <1>m, <1>i, <2>3 DEF AnchorReadProduct, AnchorFails
  <2> QED
    BY <2>2, <2>3
<1>6. ASSUME NEW r \in Request, AnchorReadLink(r) PROVE CatalogInv'
  <2>1. anchoring[r] \in Anchoring /\ AnchoringOK(anchoring[r]) /\ anchoring[r].pc = "link"
    BY <1>6, <1>q DEF AnchorReadLink, Idle
  <2>2. CASE AnchorGoesTo(r, "insert")
    <3> DEFINE q == [anchoring[r] EXCEPT !.pc = "insert"]
    <3>1. q \in Anchoring /\ AnchoringOK(q)
      BY <2>1 DEF Anchoring, AnchoringOK, Idle
    <3>2. anchoring' = [anchoring EXCEPT ![r] = q]
      BY <2>2 DEF AnchorGoesTo
    <3> HIDE DEF q
    <3> QED
      BY <1>6, <1>m, <3>1, <3>2 DEF AnchorReadLink
  <2>3. CASE AnchorFails(r)
    BY <1>6, <1>m, <1>i, <2>3 DEF AnchorReadLink, AnchorFails
  <2> QED
    BY <1>6, <2>2, <2>3 DEF AnchorReadLink
<1>7. ASSUME NEW r \in Request, AnchorInsert(r) PROVE CatalogInv'
  <2>1. anchoring[r] \in Anchoring
    BY <1>7, <1>q DEF AnchorInsert, Idle
  <2> DEFINE item == Head(anchoring[r].items)
             row  == [target |-> anchoring[r].target, product |-> item.product,
                      url |-> item.url, live |-> TRUE]
  <2>2. row \in Anchor
    <3>1. item \in AnchorItem
      BY <2>1 DEF Anchoring
    <3> QED
      BY <2>1, <3>1 DEF Anchoring, Anchor, AnchorItem
  <2>3. CASE IndexAccepts(row.target, row.product)
    <3>1. anchors' = Append(anchors, row) /\ UNCHANGED product /\ AnchorNextItem(r)
      BY <1>7, <2>3 DEF AnchorInsert
    <3>2. PICK q \in Anchoring \cup {Idle} :
            AnchoringOK(q) /\ anchoring' = [anchoring EXCEPT ![r] = q]
      BY <2>1, <3>1, AnchoringNextItem
    <3>3. anchors' \in Seq(Anchor) /\ Len(anchors') = Len(anchors) + 1
          /\ anchors'[Len(anchors) + 1] = row
          /\ \A i \in 1..Len(anchors) : anchors'[i] = anchors[i]
      BY <2>2, <3>1 DEF CatalogInv
    <3>4. ASSUME NEW t \in Target, NEW p \in Product,
                 NEW i \in LiveAnchors(t, p)', NEW j \in LiveAnchors(t, p)'
          PROVE  i = j
      <4> HIDE DEF row
      <4>1. \A k \in LiveAnchors(t, p)' :
               \/ k \in LiveAnchors(t, p)
               \/ k = Len(anchors) + 1 /\ row.target = t /\ row.product = p
        BY <3>3 DEF LiveAnchors, CatalogInv
      <4>2. row.target = t /\ row.product = p => LiveAnchors(t, p) = {}
        BY <2>3 DEF IndexAccepts
      <4> QED
        BY <3>4, <4>1, <4>2 DEF CatalogInv
    <3> QED
      BY <3>1, <3>2, <3>3, <3>4, AnchoringMoves DEF CatalogInv
  <2>4. CASE ~IndexAccepts(row.target, row.product)
    BY <1>7, <1>m, <1>i, <2>4 DEF AnchorInsert, AnchorFails
  <2> QED
    BY <2>3, <2>4
<1>8. ASSUME NEW i \in DOMAIN anchors, RemoveAnchor(i) PROVE CatalogInv'
  <2>0. anchors[i] \in Anchor
    BY DEF CatalogInv
  <2> DEFINE row == [anchors[i] EXCEPT !.live = FALSE]
  <2>1. anchors' \in Seq(Anchor)
    <3>1. row \in Anchor
      BY <2>0 DEF Anchor
    <3>2. anchors' = [anchors EXCEPT ![i] = row]
      BY <1>8 DEF RemoveAnchor
    <3> HIDE DEF row
    <3> QED
      BY <3>1, <3>2 DEF CatalogInv
  <2>2. \A t \in Target, p \in Product : LiveAnchors(t, p)' \subseteq LiveAnchors(t, p)
    BY <1>8 DEF RemoveAnchor, LiveAnchors, CatalogInv, Anchor
  <2> QED
    BY <1>8, <2>1, <2>2 DEF RemoveAnchor, CatalogInv, AnchoringOK
<1>9. CASE UNCHANGED catalogVars
  BY <1>9 DEF catalogVars, CatalogInv, AnchoringOK, LiveAnchors
<1> QED
  BY <1>1, <1>2, <1>3, <1>4, <1>5, <1>6, <1>7, <1>8, <1>9 DEF CatalogNext

\* Of two live anchors of one product on one target, there is only one.
LEMMA OneLiveAnchorHolds == CatalogInv => OneLiveAnchor
<1> SUFFICES ASSUME CatalogInv, NEW t \in Target, NEW p \in Product
             PROVE  Cardinality(LiveAnchors(t, p)) <= 1
  BY DEF OneLiveAnchor
<1>1. CASE LiveAnchors(t, p) = {}
  BY <1>1, FS_EmptySet
<1>2. CASE LiveAnchors(t, p) # {}
  <2>1. PICK i \in LiveAnchors(t, p) : TRUE
    BY <1>2
  <2>2. LiveAnchors(t, p) = {i}
    BY <2>1 DEF CatalogInv
  <2>3. Cardinality({i}) = 1
    BY FS_Singleton
  <2> QED
    BY <2>2, <2>3
<1> QED
  BY <1>1, <1>2

\* The row a step adds is that of the request that moves, which found its
\* product active after it came in.
LEMMA RetiredStays ==
  ASSUME CatalogInv, CatalogInv', [CatalogNext]_catalogVars, NEW r \in Request,
         Len(anchors') > Len(anchors), anchoring'[r] # anchoring[r]
  PROVE  anchors'[Len(anchors')].product \notin anchoring[r].gone
<1>1. CASE \E s \in Request : AnchorInsert(s)
  <2>1. PICK s \in Request : AnchorInsert(s)
    BY <1>1
  <2>2. s = r
    BY <2>1 DEF AnchorInsert, AnchorNextItem, AnchorFails, CatalogInv
  <2>3. anchors' # anchors
    OBVIOUS
  <2> DEFINE item == Head(anchoring[r].items)
             row  == [target |-> anchoring[r].target, product |-> item.product,
                      url |-> item.url, live |-> TRUE]
  <2>4. anchors' = Append(anchors, row)
    BY <2>1, <2>2, <2>3 DEF AnchorInsert
  <2>5. anchors'[Len(anchors')].product = item.product
    BY <2>4 DEF CatalogInv
  <2>6. item.product \notin anchoring[r].gone
    BY <2>1, <2>2 DEF AnchorInsert, CatalogInv, AnchoringOK
  <2> QED
    BY <2>5, <2>6
<1>2. CASE ~\E s \in Request : AnchorInsert(s)
  <2>1. Len(anchors') = Len(anchors)
    BY <1>2 DEF CatalogNext, catalogVars, CreateProduct, RetireProduct, CreateLink, RetireLink,
                AnchorStart, AnchorFind, AnchorReadProduct, AnchorReadLink, RemoveAnchor, CatalogInv
  <2> QED
    BY <2>1 DEF CatalogInv
<1> QED
  BY <1>1, <1>2

\* A product is pinned to a target at most once at a time, and never by a
\* request that came in after its retirement.
THEOREM CatalogSound == CatalogSpec => CatalogIsSound
<1>1. CatalogSpec => []CatalogInv
  BY CatalogInit1, CatalogNext1, PTL DEF CatalogSpec
<1>2. CatalogInv /\ CatalogInv' /\ [CatalogNext]_catalogVars =>
        [\A r \in Request :
           Len(anchors') > Len(anchors) /\ anchoring'[r] # anchoring[r]
             => anchors'[Len(anchors')].product \notin anchoring[r].gone]_catalogVars
  BY RetiredStays
<1> QED
  BY <1>1, <1>2, OneLiveAnchorHolds, PTL DEF CatalogSpec, CatalogIsSound, RetiredIsNotPinned

\* Links are of the products and numbers there are.
LEMMA LinksKeepTypes ==
  ASSUME link \in [Product \X Url -> RowState], [CatalogNext]_catalogVars
  PROVE  link' \in [Product \X Url -> RowState]
<1>1. ASSUME NEW p \in Product, NEW u \in Url, CreateLink(p, u) \/ RetireLink(p, u)
      PROVE  link' \in [Product \X Url -> RowState]
  BY <1>1 DEF CreateLink, RetireLink, RowState
<1>2. CASE UNCHANGED link
  BY <1>2
<1> QED
  BY <1>1, <1>2
     DEF CatalogNext, catalogVars, CreateProduct, RetireProduct, AnchorStart, AnchorFind,
         AnchorReadProduct, AnchorReadLink, AnchorInsert, RemoveAnchor

\* Products, links and anchors keep their types.
LEMMA CatalogTypes == CatalogSpec => []CatalogTypeOK
<1>1. CatalogInit => link \in [Product \X Url -> RowState]
  BY DEF CatalogInit, RowState
<1>2. CatalogInv /\ link \in [Product \X Url -> RowState] => CatalogTypeOK
  BY DEF CatalogInv, CatalogTypeOK, Anchoring
<1>3. link \in [Product \X Url -> RowState] /\ [CatalogNext]_catalogVars
        => (link \in [Product \X Url -> RowState])'
  BY LinksKeepTypes
<1> QED
  BY <1>1, <1>2, <1>3, CatalogInit1, CatalogNext1, PTL DEF CatalogSpec

-----------------------------------------------------------------------------
(* Conversions: rows are appended and never changed, so that what a        *)
(* request has checked of the rows it saw stays true of them.              *)

Converting == [pc : {"target", "insert"}, by : Admin, body : ConversionBody,
               checkedAt : 0..MaxClock, seen : 0..MaxConversions]

\* Row i would have been taken for a repetition of the request, when it was checked.
WasRepeated(i, by, body, checkedAt) ==
  /\ conversions[i].by = by
  /\ conversions[i].body = body
  /\ conversions[i].place = body.place
  /\ InWindow(conversions[i].at, checkedAt, ConversionWindow)

ConvertingOK(q) ==
  /\ q # Idle => /\ q.seen <= Len(conversions)
                 /\ \A i \in 1..q.seen : ~WasRepeated(i, q.by, q.body, q.checkedAt)
  /\ q.pc = "insert" => ReversalTargetOK(q.body)

\* A reversal comes after its row, with its channel and its linkage.
ReversalFollows(j) ==
  LET i == conversions[j].body.reverses IN
  i # 0 => /\ i \in 1..(j - 1)
           /\ conversions[i].body.channel = conversions[j].body.channel
           /\ conversions[i].place = conversions[j].place

ConversionInv ==
  /\ conversions \in Seq(ConversionRow) /\ Len(conversions) <= MaxConversions
  /\ converting \in [Request -> Converting \cup {Idle}]
  /\ clock \in 0..MaxClock
  /\ \A r \in Request : ConvertingOK(converting[r])
  /\ \A j \in DOMAIN conversions : ReversalFollows(j)
  /\ ResentIsRefused

LEMMA ConversionInit1 == ConversionInit => ConversionInv
BY ConversionsAssumption
   DEF ConversionInit, ConversionInv, ConvertingOK, ResentIsRefused, Idle

LEMMA ConversionNext1 == ConversionInv /\ [ConversionNext]_conversionVars => ConversionInv'
<1> SUFFICES ASSUME ConversionInv, [ConversionNext]_conversionVars PROVE ConversionInv'
  OBVIOUS
<1>i. ConvertingOK(Idle)
  BY DEF ConvertingOK, Idle
<1>q. ASSUME NEW r \in Request, converting[r].pc # Idle.pc
      PROVE  converting[r] \in Converting /\ converting[r] # Idle /\ ConvertingOK(converting[r])
  BY <1>q DEF ConversionInv, Converting
\* Steps that add no row.
<1>m. ASSUME NEW r \in Request, NEW q \in Converting \cup {Idle}, ConvertingOK(q),
             converting' = [converting EXCEPT ![r] = q], UNCHANGED <<conversions, clock>>
      PROVE  ConversionInv'
  <2>1. UNCHANGED conversions /\ UNCHANGED clock
    BY <1>m
  <2>2. \A s \in Request : (ConvertingOK(converting[s]))'
    BY <1>m, <2>1 DEF ConversionInv, ConvertingOK, WasRepeated, ReversalTargetOK
  <2> QED
    BY <1>m, <2>1, <2>2 DEF ConversionInv, ReversalFollows, ResentIsRefused
<1>1. ASSUME NEW r \in Request, NEW a \in Admin, NEW body \in ConversionBody,
             ConvertCheck(r, a, body)
      PROVE  ConversionInv'
  <2> DEFINE q == [pc |-> "target", by |-> a, body |-> body,
                   checkedAt |-> clock, seen |-> Len(conversions)]
  <2>1. q \in Converting
    BY <1>1, ConversionsAssumption DEF ConvertCheck, Converting, ConversionInv
  <2>2. \A i \in DOMAIN conversions : ~WasRepeated(i, a, body, clock)
    BY <1>1 DEF ConvertCheck, RepeatsConversion, WasRepeated
  <2>3. ConvertingOK(q)
    BY <2>2 DEF ConvertingOK, ConversionInv
  <2>4. converting' = [converting EXCEPT ![r] = q]
    BY <1>1 DEF ConvertCheck
  <2> HIDE DEF q
  <2> QED
    BY <1>1, <1>m, <2>1, <2>3, <2>4 DEF ConvertCheck
<1>2. ASSUME NEW r \in Request, ConvertTarget(r) PROVE ConversionInv'
  <2>1. converting[r] \in Converting /\ converting[r] # Idle /\ ConvertingOK(converting[r])
    BY <1>2, <1>q DEF ConvertTarget, Idle
  <2>2. CASE ReversalTargetOK(converting[r].body)
    <3> DEFINE q == [converting[r] EXCEPT !.pc = "insert"]
    <3>1. q \in Converting /\ q.body = converting[r].body /\ q.by = converting[r].by
          /\ q.seen = converting[r].seen /\ q.checkedAt = converting[r].checkedAt
      BY <2>1 DEF Converting
    <3>2. ConvertingOK(q)
      BY <2>1, <2>2, <3>1 DEF ConvertingOK
    <3>3. converting' = [converting EXCEPT ![r] = q]
      BY <1>2, <2>2 DEF ConvertTarget
    <3> HIDE DEF q
    <3> QED
      BY <1>2, <1>m, <3>1, <3>2, <3>3 DEF ConvertTarget
  <2>3. CASE ~ReversalTargetOK(converting[r].body)
    <3>1. converting' = [converting EXCEPT ![r] = Idle]
      BY <1>2, <2>3 DEF ConvertTarget
    <3> QED
      BY <1>2, <1>m, <1>i, <3>1 DEF ConvertTarget
  <2> QED
    BY <2>2, <2>3
<1>3. ASSUME NEW r \in Request, ConvertInsert(r) PROVE ConversionInv'
  <2> DEFINE q   == converting[r]
             n   == Len(conversions) + 1
             row == [by |-> q.by, body |-> q.body, place |-> Linkage(q.body), at |-> clock,
                     checkedAt |-> q.checkedAt, seen |-> q.seen]
  <2>1. q \in Converting /\ q # Idle /\ ConvertingOK(q) /\ q.pc = "insert"
    BY <1>3, <1>q DEF ConvertInsert, Idle
  <2>2. ReversalTargetOK(q.body)
    BY <2>1 DEF ConvertingOK
  <2>3. Linkage(q.body) \in Place \cup {None}
    <3>1. CASE q.body.reverses = 0
      BY <2>1, <3>1 DEF Linkage, Converting, ConversionBody
    <3>2. CASE q.body.reverses # 0
      <4>1. conversions[q.body.reverses] \in ConversionRow
        BY <2>2, <3>2 DEF ReversalTargetOK, ConversionInv
      <4> QED
        BY <3>2, <4>1 DEF Linkage, ConversionRow
    <3> QED
      BY <3>1, <3>2
  <2>4. row \in ConversionRow
    BY <2>1, <2>3 DEF ConversionRow, Converting, ConversionInv
  <2>5. /\ conversions' = Append(conversions, row)
        /\ converting' = [converting EXCEPT ![r] = Idle]
        /\ UNCHANGED clock
    BY <1>3 DEF ConvertInsert
  <2>r. /\ row.by = q.by /\ row.body = q.body /\ row.place = Linkage(q.body)
        /\ row.checkedAt = q.checkedAt /\ row.seen = q.seen
    OBVIOUS
  <2> HIDE DEF row
  <2>6. /\ conversions' \in Seq(ConversionRow)
        /\ Len(conversions') = n /\ n <= MaxConversions
        /\ DOMAIN conversions' = 1..n
        /\ conversions'[n] = row
        /\ \A i \in DOMAIN conversions : conversions'[i] = conversions[i]
    BY <1>3, <2>4, <2>5, ConversionsAssumption DEF ConversionInv, ConvertInsert
  <2> HIDE DEF q
  <2>7. \A s \in Request : (ConvertingOK(converting[s]))'
    <3> TAKE s \in Request
    <3>1. CASE s = r
      BY <2>5, <3>1 DEF ConvertingOK, ConversionInv, Idle
    <3>2. CASE s # r
      <4>1. converting'[s] = converting[s] /\ ConvertingOK(converting[s])
        BY <2>5, <3>2 DEF ConversionInv
      <4>2. CASE converting[s] = Idle
        BY <4>1, <4>2 DEF ConvertingOK, Idle
      <4>3. CASE converting[s] # Idle
        <5>1. converting[s] \in Converting
          BY <4>3 DEF ConversionInv
        <5>2. \A i \in 1..converting[s].seen : i \in DOMAIN conversions
          BY <4>1, <4>3, <5>1 DEF ConvertingOK, Converting, ConversionInv
        <5>3. converting[s].seen <= Len(conversions')
          BY <2>6, <4>1, <4>3, <5>1 DEF ConvertingOK, Converting, ConversionInv
        <5>4. \A i \in 1..converting[s].seen :
                ~(WasRepeated(i, converting[s].by, converting[s].body, converting[s].checkedAt))'
          BY <2>6, <4>1, <4>3, <5>2 DEF ConvertingOK, WasRepeated
        <5>5. converting[s].pc = "insert" => (ReversalTargetOK(converting[s].body))'
          BY <2>6, <4>1 DEF ConvertingOK, ReversalTargetOK, ConversionInv
        <5> QED
          BY <4>1, <5>3, <5>4, <5>5 DEF ConvertingOK
      <4> QED
        BY <4>2, <4>3
    <3> QED
      BY <3>1, <3>2
  <2>8. \A j \in DOMAIN conversions' : (ReversalFollows(j))'
    <3> TAKE j \in DOMAIN conversions'
    <3>1. CASE j = n
      <4>1. q.body.reverses # 0 =>
              /\ q.body.reverses \in DOMAIN conversions
              /\ conversions[q.body.reverses].body.channel = q.body.channel
              /\ conversions[q.body.reverses].place = row.place
        BY <2>2, <2>r DEF ReversalTargetOK, Linkage
      <4> QED
        BY <2>6, <2>r, <3>1, <4>1 DEF ReversalFollows, ConversionInv
    <3>2. CASE j # n
      <4>1. j \in DOMAIN conversions /\ ReversalFollows(j)
        BY <2>6, <3>2 DEF ConversionInv
      <4>2. 1..(j - 1) \subseteq DOMAIN conversions
        BY <4>1 DEF ConversionInv
      <4> QED
        BY <2>6, <4>1, <4>2 DEF ReversalFollows
    <3> QED
      BY <3>1, <3>2
  <2>9. ResentIsRefused'
    <3> SUFFICES ASSUME NEW i \in DOMAIN conversions', NEW j \in DOMAIN conversions',
                        i < j,
                        conversions'[i].by = conversions'[j].by,
                        conversions'[i].body = conversions'[j].body,
                        conversions'[i].place = conversions'[j].body.place,
                        InWindow(conversions'[i].at, conversions'[j].checkedAt, ConversionWindow)
                 PROVE  conversions'[j].seen < i
      BY DEF ResentIsRefused, InWindow
    <3>1. i \in DOMAIN conversions /\ conversions'[i] = conversions[i]
      BY <2>6 DEF ConversionInv
    <3>2. CASE j = n
      <4>1. WasRepeated(i, q.by, q.body, q.checkedAt)
        BY <2>6, <2>r, <3>1, <3>2 DEF WasRepeated
      <4>2. i \notin 1..q.seen
        BY <2>1, <4>1 DEF ConvertingOK
      <4>3. q.seen \in Nat /\ i \in Nat \ {0}
        BY <2>1, <3>1 DEF Converting, ConversionInv
      <4> QED
        BY <2>6, <2>r, <3>2, <4>2, <4>3
    <3>3. CASE j # n
      <4>1. j \in DOMAIN conversions /\ conversions'[j] = conversions[j]
        BY <2>6, <3>3 DEF ConversionInv
      <4> QED
        BY <3>1, <4>1 DEF ConversionInv, ResentIsRefused
    <3> QED
      BY <3>2, <3>3
  <2>10. converting' \in [Request -> Converting \cup {Idle}]
    BY <2>5 DEF ConversionInv
  <2> QED
    BY <2>5, <2>6, <2>7, <2>8, <2>9, <2>10 DEF ConversionInv
<1>4. CASE ConversionTick
  <2>1. UNCHANGED conversions /\ UNCHANGED converting /\ clock' \in 0..MaxClock
    BY <1>4, ConversionsAssumption DEF ConversionTick, ConversionInv
  <2>2. \A s \in Request : (ConvertingOK(converting[s]))'
    BY <2>1 DEF ConversionInv, ConvertingOK, WasRepeated, ReversalTargetOK
  <2> QED
    BY <2>1, <2>2 DEF ConversionInv, ReversalFollows, ResentIsRefused
<1>5. CASE UNCHANGED conversionVars
  BY <1>5 DEF conversionVars, ConversionInv, ConvertingOK, WasRepeated, ReversalTargetOK,
              ReversalFollows, ResentIsRefused
<1> QED
  BY <1>1, <1>2, <1>3, <1>4, <1>5 DEF ConversionNext

\* A reversal is netted in every summary its row is counted in.
LEMMA ReversalsAreNetted == ConversionInv => ReversalNetsItsRow
<1> SUFFICES ASSUME ConversionInv, NEW j \in DOMAIN conversions,
                    conversions[j].body.reverses # 0
             PROVE  LET i == conversions[j].body.reverses IN
                    /\ \A c \in Content : i \in ContentRows(c) <=> j \in ContentRows(c)
                    /\ \A ch \in Channel : i \in ChannelRows(ch) <=> j \in ChannelRows(ch)
  BY DEF ReversalNetsItsRow
<1> DEFINE i == conversions[j].body.reverses
<1>1. i \in DOMAIN conversions /\ conversions[i].place = conversions[j].place
      /\ conversions[i].body.channel = conversions[j].body.channel
  BY DEF ConversionInv, ReversalFollows
<1> HIDE DEF i
<1>2. /\ \A c \in Content : i \in ContentRows(c) <=> j \in ContentRows(c)
      /\ \A ch \in Channel : i \in ChannelRows(ch) <=> j \in ChannelRows(ch)
  BY <1>1 DEF ContentRows, ChannelRows
<1> QED
  BY <1>2 DEF i

\* A table of n rows seen as a ledger, and one row more: the ledger has that row more.
LEMMA OneRowMore ==
  ASSUME NEW T, NEW n \in Nat, NEW before \in [1..n -> T], NEW after \in [1..(n + 1) -> T],
         \A i \in 1..n : after[i] = before[i]
  PROVE  /\ before \in Seq(T) /\ Len(before) = n
         /\ after = Append(before, after[n + 1])
<1>1. before \in Seq(T) /\ Len(before) = n /\ DOMAIN before = 1..n
  BY IsASeq, LenProperties
<1>2. after \in Seq(T) /\ Len(after) = n + 1 /\ DOMAIN after = 1..(n + 1)
  BY IsASeq, LenProperties
<1> DEFINE row == after[n + 1]
           more == Append(before, row)
<1>3. row \in T
  OBVIOUS
<1> HIDE DEF row
<1>4. /\ more \in Seq(T) /\ Len(more) = n + 1
      /\ more[n + 1] = row
      /\ \A i \in 1..n : more[i] = before[i]
  BY <1>1, <1>3, AppendedRows
<1> HIDE DEF more
<1>5. \A i \in 1..(n + 1) : after[i] = more[i]
  BY <1>4 DEF row
<1>6. after = more
  BY <1>2, <1>4, <1>5, SeqEqual
<1> QED
  BY <1>1, <1>6 DEF more, row

\* What the ledger sees of a row.
LEMMA ConversionRowFields ==
  ASSUME NEW row \in ConversionRow
  PROVE  /\ row.body.channel \in Channel /\ row.place \in Place \cup {None}
         /\ row.body.reverses \in Nat
BY ConversionsAssumption DEF ConversionRow, ConversionBody

\* The table of conversions starts as an empty ledger.
LEMMA ConversionBookStarts == ConversionInit => ConversionBook!LedgerInit
BY DEF ConversionInit, ConversionEntries, ConversionBook!LedgerInit

\* An insert enters a row under its channel and its linkage, which are those of
\* the row it reverses: the target was found in the table, and rows do not change.
LEMMA ConversionEnters ==
  ASSUME ConversionInv, ConversionInv', NEW r \in Request, ConvertInsert(r)
  PROVE  ConversionBook!LedgerNext
<1> DEFINE q   == converting[r]
           n   == Len(conversions)
           T   == [account : Channel \X (Place \cup {None}), amends : Nat]
           row == ConversionEntries'[n + 1]
<1>1. q \in Converting /\ q # Idle /\ ConvertingOK(q) /\ q.pc = "insert"
  BY DEF ConversionInv, Converting, ConvertInsert, Idle
<1>2. ReversalTargetOK(q.body) /\ q.body \in ConversionBody
  BY <1>1 DEF ConvertingOK, Converting
<1>3. conversions' = Append(conversions,
        [by |-> q.by, body |-> q.body, place |-> Linkage(q.body), at |-> clock,
         checkedAt |-> q.checkedAt, seen |-> q.seen])
  BY DEF ConvertInsert
<1>4. /\ conversions \in Seq(ConversionRow) /\ n \in Nat /\ DOMAIN conversions = 1..n
      /\ conversions' \in Seq(ConversionRow)
  BY DEF ConversionInv
<1>5. /\ DOMAIN conversions' = 1..(n + 1)
      /\ conversions'[n + 1].body = q.body /\ conversions'[n + 1].place = Linkage(q.body)
      /\ \A i \in 1..n : conversions'[i] = conversions[i]
  BY <1>3, <1>4
<1> HIDE DEF q
<1>6. /\ ConversionEntries \in [1..n -> T]
      /\ ConversionEntries' \in [1..(n + 1) -> T]
  <2>a. /\ \A i \in 1..n : conversions[i] \in ConversionRow
        /\ \A i \in 1..(n + 1) : conversions'[i] \in ConversionRow
    BY <1>4, <1>5
  <2>1. \A i \in 1..n : /\ conversions[i].body.channel \in Channel
                        /\ conversions[i].place \in Place \cup {None}
                        /\ conversions[i].body.reverses \in Nat
    BY <2>a, ConversionRowFields
  <2>2. \A i \in 1..(n + 1) : /\ conversions'[i].body.channel \in Channel
                              /\ conversions'[i].place \in Place \cup {None}
                              /\ conversions'[i].body.reverses \in Nat
    BY <2>a, ConversionRowFields
  <2>3. ConversionEntries \in [1..n -> T]
    BY <1>4, <2>1 DEF ConversionEntries
  <2>4. ConversionEntries' \in [1..(n + 1) -> T]
    BY <1>5, <2>2 DEF ConversionEntries
  <2> QED
    BY <2>3, <2>4
<1>7. ASSUME NEW i \in 1..n PROVE ConversionEntries'[i] = ConversionEntries[i]
  <2>1. i \in DOMAIN conversions /\ i \in DOMAIN conversions' /\ conversions'[i] = conversions[i]
    BY <1>4, <1>5
  <2> QED
    BY <2>1 DEF ConversionEntries
<1>8. row.account = <<q.body.channel, Linkage(q.body)>> /\ row.amends = q.body.reverses
  BY <1>5, <1>4 DEF ConversionEntries
<1>9. row \in T
  BY <1>4, <1>6
<1> HIDE DEF T, row
<1>10. ConversionEntries' = Append(ConversionEntries, row) /\ Len(ConversionEntries) = n
  BY <1>4, <1>6, <1>7, OneRowMore DEF row
<1>11. DOMAIN ConversionEntries = 1..n
  BY <1>6
<1>12. row.amends # 0 =>
         /\ row.amends \in DOMAIN ConversionEntries
         /\ ConversionEntries[row.amends].account = row.account
  BY <1>2, <1>4, <1>8, <1>11 DEF ReversalTargetOK, Linkage, ConversionEntries
<1>13. row = [account |-> row.account, amends |-> row.amends]
       /\ row.account \in Channel \X (Place \cup {None}) /\ row.amends \in Nat
  BY <1>9 DEF T
<1>14. row.amends \in 0..Len(ConversionEntries)
  BY <1>4, <1>10, <1>11, <1>12, <1>13
<1>15. ConversionBook!Enter(row.account, row.amends)
  BY <1>10, <1>12, <1>13 DEF ConversionBook!Enter
<1> QED
  BY <1>13, <1>14, <1>15 DEF ConversionBook!LedgerNext

\* Every step of the requests enters one row or none.
LEMMA ConversionBookSteps ==
  ConversionInv /\ ConversionInv' /\ [ConversionNext]_conversionVars
    => [ConversionBook!LedgerNext]_ConversionEntries
<1> SUFFICES ASSUME ConversionInv, ConversionInv', [ConversionNext]_conversionVars
             PROVE  [ConversionBook!LedgerNext]_ConversionEntries
  OBVIOUS
<1>1. UNCHANGED conversions => UNCHANGED ConversionEntries
  BY DEF ConversionEntries
<1>2. CASE \E r \in Request : ConvertInsert(r)
  BY <1>2, ConversionEnters
<1>3. CASE ~\E r \in Request : ConvertInsert(r)
  BY <1>1, <1>3 DEF ConversionNext, ConvertCheck, ConvertTarget, ConversionTick, conversionVars
<1> QED
  BY <1>2, <1>3

\* BUG-QA-6A-01.  A reversal is netted in every summary its row is counted in,
\* a line sent again within the window is refused, unless the two overlapped,
\* and the table is a ledger: rows stay, and a reversal is entered under the
\* channel and the linkage of the earlier row it reverses.
THEOREM ConversionsSound == ConversionSpec => ConversionsAreSound
<1>1. ConversionInv => ReversalNetsItsRow /\ ResentIsRefused
  BY ReversalsAreNetted DEF ConversionInv
<1>2. ConversionSpec => []ConversionInv
  BY ConversionInit1, ConversionNext1, PTL DEF ConversionSpec
<1>3. ConversionSpec => ConversionBook!LedgerSpec
  BY <1>2, ConversionBookStarts, ConversionBookSteps, PTL
     DEF ConversionSpec, ConversionBook!LedgerSpec
<1> QED
  BY <1>1, <1>2, <1>3, PTL DEF ConversionsAreSound

\* Rows and the requests in hand keep their types.
LEMMA ConversionTypes == ConversionSpec => []ConversionTypeOK
<1>1. ConversionInv => ConversionTypeOK
  BY DEF ConversionInv, ConversionTypeOK, Converting
<1> QED
  BY <1>1, ConversionInit1, ConversionNext1, PTL DEF ConversionSpec

-----------------------------------------------------------------------------
(* Campaigns: the table checks what the service checked on an older row.   *)

Editing == [pc : {"write"}, campaign : Campaign, patch : CampaignPatch]

CampaignInv ==
  /\ campaigns \in [Campaign -> CampaignRow \cup {None}]
  /\ editing \in [Request -> Editing \cup {Idle}]
  /\ \A r \in Request : editing[r] # Idle => campaigns[editing[r].campaign] # None
  /\ CampaignsAreSound

\* A PATCH writes a start, an end, or both, and leaves the rest of the row.
LEMMA WrittenIsRow ==
  ASSUME NEW row \in CampaignRow, NEW patch \in CampaignPatch
  PROVE  /\ Written(row, patch) \in CampaignRow
         /\ Written(row, patch).external = row.external
<1>1. /\ DOMAIN row = {"start", "end", "external", "active"}
      /\ row.start \in StoredDate /\ row.end \in StoredDate \cup {None}
      /\ row.external \in ExternalId \cup {None} /\ row.active \in BOOLEAN
  BY DEF CampaignRow
<1>2. PICK sent \in {{"start"}, {"end"}, {"start", "end"}} : patch \in [sent -> Date \cup {None}]
  BY DEF CampaignPatch
<1>3. DOMAIN patch \subseteq {"start", "end"} /\ \A f \in DOMAIN patch : patch[f] \in Date \cup {None}
  BY <1>2
<1>4. \A f \in DOMAIN patch :
        (IF patch[f] = None THEN Epoch ELSE patch[f]) \in StoredDate
  BY <1>3 DEF StoredDate
<1>5. Written(row, patch) =
        [start |-> Written(row, patch).start, end |-> Written(row, patch).end,
         external |-> Written(row, patch).external, active |-> Written(row, patch).active]
  BY <1>1 DEF Written
<1>6. /\ Written(row, patch).start \in StoredDate
      /\ Written(row, patch).end \in StoredDate \cup {None}
      /\ Written(row, patch).external = row.external
      /\ Written(row, patch).active = row.active
  BY <1>1, <1>3, <1>4 DEF Written
<1> QED
  BY <1>1, <1>5, <1>6 DEF CampaignRow

LEMMA CampaignNext1 == CampaignInv /\ [CampaignNext]_campaignVars => CampaignInv'
<1> SUFFICES ASSUME CampaignInv, [CampaignNext]_campaignVars PROVE CampaignInv'
  OBVIOUS
\* Steps that rewrite one row in place.
<1>w. ASSUME NEW c \in Campaign, NEW row \in CampaignRow,
             campaigns[c] # None, row.external = campaigns[c].external,
             RangeInOrder(row.start, row.end),
             campaigns' = [campaigns EXCEPT ![c] = row]
      PROVE  /\ campaigns' \in [Campaign -> CampaignRow \cup {None}]
             /\ \A d \in Campaign : campaigns[d] # None => campaigns'[d] # None
             /\ CampaignsAreSound'
  <2>1. campaigns' \in [Campaign -> CampaignRow \cup {None}]
    BY <1>w DEF CampaignInv
  <2>2. \A d \in Campaign : campaigns[d] # None => campaigns'[d] # None
    BY <1>w, NoneIsNoCampaign DEF CampaignInv
  <2>3. \A d \in Campaign : campaigns'[d] # None =>
          campaigns[d] # None /\ campaigns'[d].external = campaigns[d].external
    BY <1>w DEF CampaignInv
  <2>4. \A d \in Campaign : campaigns'[d] # None => RangeInOrder(campaigns'[d].start, campaigns'[d].end)
    BY <1>w DEF CampaignInv, CampaignsAreSound
  <2> QED
    BY <2>1, <2>2, <2>3, <2>4 DEF CampaignInv, CampaignsAreSound, RangeInOrder
<1>1. ASSUME NEW c \in Campaign, NEW row \in CampaignRow, CreateCampaign(c, row)
      PROVE  CampaignInv'
  <2>1. campaigns' \in [Campaign -> CampaignRow \cup {None}]
    BY <1>1 DEF CreateCampaign, CampaignInv
  <2>2. \A r \in Request : editing[r] # Idle => editing[r].campaign \in Campaign
    BY DEF CampaignInv, Editing
  <2>3. \A d \in Campaign : campaigns'[d] = IF d = c THEN row ELSE campaigns[d]
    BY <1>1 DEF CreateCampaign, CampaignInv
  <2>4. CampaignsAreSound'
    BY <1>1, <2>3 DEF CreateCampaign, ExternalIdIsFree, CampaignInv, CampaignsAreSound, RangeInOrder
  <2> QED
    BY <1>1, <2>1, <2>2, <2>3, <2>4, NoneIsNoCampaign DEF CreateCampaign, CampaignInv
<1>2. ASSUME NEW r \in Request, NEW c \in Campaign, NEW patch \in CampaignPatch,
             UpdateCampaign(r, c, patch)
      PROVE  CampaignInv'
  <2>1. [pc |-> "write", campaign |-> c, patch |-> patch] \in Editing
    BY DEF Editing
  <2>2. editing' = [editing EXCEPT ![r] = [pc |-> "write", campaign |-> c, patch |-> patch]]
        /\ campaigns' = campaigns /\ campaigns[c] # None
    BY <1>2 DEF UpdateCampaign
  <2> QED
    BY <2>1, <2>2 DEF CampaignInv, CampaignsAreSound, RangeInOrder
<1>3. ASSUME NEW r \in Request, WriteCampaign(r) PROVE CampaignInv'
  <2> DEFINE c   == editing[r].campaign
             row == Written(campaigns[c], editing[r].patch)
  <2>1. editing[r] \in Editing /\ editing[r] # Idle
    BY <1>3 DEF WriteCampaign, CampaignInv, Idle
  <2>2. c \in Campaign /\ campaigns[c] # None /\ campaigns[c] \in CampaignRow
    BY <2>1 DEF CampaignInv, Editing
  <2>3. row \in CampaignRow /\ row.external = campaigns[c].external
    BY <2>1, <2>2, WrittenIsRow DEF Editing
  <2>4. editing' = [editing EXCEPT ![r] = Idle]
    BY <1>3 DEF WriteCampaign
  <2>5. CASE CampaignTableAccepts(row)
    <3>1. campaigns' = [campaigns EXCEPT ![c] = row]
      BY <1>3, <2>5 DEF WriteCampaign
    <3>2. RangeInOrder(row.start, row.end)
      BY <2>5 DEF CampaignTableAccepts
    <3> HIDE DEF row
    <3>3. /\ campaigns' \in [Campaign -> CampaignRow \cup {None}]
          /\ \A d \in Campaign : campaigns[d] # None => campaigns'[d] # None
          /\ CampaignsAreSound'
      BY <1>w, <2>2, <2>3, <3>1, <3>2
    <3> QED
      BY <2>4, <3>3 DEF CampaignInv, Editing
  <2>6. CASE ~CampaignTableAccepts(row)
    BY <1>3, <2>4, <2>6 DEF WriteCampaign, CampaignInv, CampaignsAreSound, RangeInOrder
  <2> QED
    BY <2>5, <2>6
<1>4. ASSUME NEW c \in Campaign, RetireCampaign(c) PROVE CampaignInv'
  <2> DEFINE row == [campaigns[c] EXCEPT !.active = FALSE]
  <2>1. campaigns[c] \in CampaignRow /\ campaigns[c] # None
    BY <1>4 DEF RetireCampaign, CampaignInv
  <2>2. /\ row \in CampaignRow /\ row.external = campaigns[c].external
        /\ row.start = campaigns[c].start /\ row.end = campaigns[c].end
    BY <2>1 DEF CampaignRow
  <2>3. RangeInOrder(row.start, row.end)
    BY <2>1, <2>2 DEF CampaignInv, CampaignsAreSound
  <2>4. campaigns' = [campaigns EXCEPT ![c] = row] /\ editing' = editing
    BY <1>4 DEF RetireCampaign
  <2> HIDE DEF row
  <2>5. /\ campaigns' \in [Campaign -> CampaignRow \cup {None}]
        /\ \A d \in Campaign : campaigns[d] # None => campaigns'[d] # None
        /\ CampaignsAreSound'
    BY <1>w, <2>1, <2>2, <2>3, <2>4
  <2> QED
    BY <2>4, <2>5 DEF CampaignInv, Editing
<1>5. CASE UNCHANGED campaignVars
  BY <1>5 DEF campaignVars, CampaignInv, CampaignsAreSound, RangeInOrder
<1> QED
  BY <1>1, <1>2, <1>3, <1>4, <1>5 DEF CampaignNext

\* Campaigns keep their types, their dates in order and their ids apart.
LEMMA CampaignsStaySound == CampaignSpec => [](CampaignsAreSound /\ CampaignTypeOK)
<1>1. CampaignInit => CampaignInv
  BY DEF CampaignInit, CampaignInv, CampaignsAreSound, Idle
<1>2. CampaignInv => CampaignsAreSound /\ CampaignTypeOK
  BY DEF CampaignInv, CampaignTypeOK, Editing
<1> QED
  BY <1>1, <1>2, CampaignNext1, PTL DEF CampaignSpec

-----------------------------------------------------------------------------
(* Entries: as for conversions.                                            *)

Entering == [pc : {"target", "insert"}, by : Admin, body : EntryBody,
             checkedAt : 0..MaxPaidClock, seen : 0..MaxEntries]

\* Entry i would have been taken for a repetition of the request, when it was checked.
WasEntered(i, by, body, checkedAt) ==
  /\ entries[i].by = by
  /\ entries[i].body = body
  /\ InWindow(entries[i].at, checkedAt, PaidWindow)

EnteringOK(q) ==
  /\ q # Idle => /\ q.seen <= Len(entries)
                 /\ \A i \in 1..q.seen : ~WasEntered(i, q.by, q.body, q.checkedAt)
  /\ q.pc = "insert" => CorrectionTargetOK(q.body)

EntryInv ==
  /\ entries \in Seq(EntryRow) /\ Len(entries) <= MaxEntries
  /\ entering \in [Request -> Entering \cup {Idle}]
  /\ paidClock \in 0..MaxPaidClock
  /\ \A r \in Request : EnteringOK(entering[r])
  /\ \A j \in DOMAIN entries : entries[j].body.corrects # 0 => entries[j].body.corrects \in 1..(j - 1)
  /\ EntriesAreSound

LEMMA EntryInit1 == EntryInit => EntryInv
BY PaidEntriesAssumption
   DEF EntryInit, EntryInv, EnteringOK, EntriesAreSound, CorrectionStaysInCampaign,
       ResentEntryIsRefused, Idle

LEMMA EntryNext1 == EntryInv /\ [EntryNext]_entryVars => EntryInv'
<1> SUFFICES ASSUME EntryInv, [EntryNext]_entryVars PROVE EntryInv'
  OBVIOUS
<1>i. EnteringOK(Idle)
  BY DEF EnteringOK, Idle
<1>q. ASSUME NEW r \in Request, entering[r].pc # Idle.pc
      PROVE  entering[r] \in Entering /\ entering[r] # Idle /\ EnteringOK(entering[r])
  BY <1>q DEF EntryInv, Entering
\* Steps that add no entry.
<1>s. UNCHANGED entries => (EntriesAreSound <=> EntriesAreSound')
  BY DEF EntriesAreSound, CorrectionStaysInCampaign, ResentEntryIsRefused, InWindow
<1>m. ASSUME NEW r \in Request, NEW q \in Entering \cup {Idle}, EnteringOK(q),
             entering' = [entering EXCEPT ![r] = q], UNCHANGED <<entries, paidClock>>
      PROVE  EntryInv'
  <2>1. UNCHANGED entries /\ UNCHANGED paidClock
    BY <1>m
  <2>2. \A s \in Request : (EnteringOK(entering[s]))'
    BY <1>m, <2>1 DEF EntryInv, EnteringOK, WasEntered, CorrectionTargetOK
  <2> QED
    BY <1>m, <1>s, <2>1, <2>2 DEF EntryInv
<1>1. ASSUME NEW r \in Request, NEW a \in Admin, NEW body \in EntryBody, EntryCheck(r, a, body)
      PROVE  EntryInv'
  <2> DEFINE q == [pc |-> "target", by |-> a, body |-> body,
                   checkedAt |-> paidClock, seen |-> Len(entries)]
  <2>1. q \in Entering
    BY <1>1, PaidEntriesAssumption DEF EntryCheck, Entering, EntryInv
  <2>2. \A i \in DOMAIN entries : ~WasEntered(i, a, body, paidClock)
    BY <1>1 DEF EntryCheck, RepeatsEntry, WasEntered
  <2>3. EnteringOK(q)
    BY <2>2 DEF EnteringOK, EntryInv
  <2>4. entering' = [entering EXCEPT ![r] = q]
    BY <1>1 DEF EntryCheck
  <2> HIDE DEF q
  <2> QED
    BY <1>1, <1>m, <2>1, <2>3, <2>4 DEF EntryCheck
<1>2. ASSUME NEW r \in Request, EntryTarget(r) PROVE EntryInv'
  <2>1. entering[r] \in Entering /\ entering[r] # Idle /\ EnteringOK(entering[r])
    BY <1>2, <1>q DEF EntryTarget, Idle
  <2>2. CASE CorrectionTargetOK(entering[r].body)
    <3> DEFINE q == [entering[r] EXCEPT !.pc = "insert"]
    <3>1. q \in Entering /\ q.body = entering[r].body /\ q.by = entering[r].by
          /\ q.seen = entering[r].seen /\ q.checkedAt = entering[r].checkedAt
      BY <2>1 DEF Entering
    <3>2. EnteringOK(q)
      BY <2>1, <2>2, <3>1 DEF EnteringOK
    <3>3. entering' = [entering EXCEPT ![r] = q]
      BY <1>2, <2>2 DEF EntryTarget
    <3> HIDE DEF q
    <3> QED
      BY <1>2, <1>m, <3>1, <3>2, <3>3 DEF EntryTarget
  <2>3. CASE ~CorrectionTargetOK(entering[r].body)
    <3>1. entering' = [entering EXCEPT ![r] = Idle]
      BY <1>2, <2>3 DEF EntryTarget
    <3> QED
      BY <1>2, <1>m, <1>i, <3>1 DEF EntryTarget
  <2> QED
    BY <2>2, <2>3
<1>3. ASSUME NEW r \in Request, EntryInsert(r) PROVE EntryInv'
  <2> DEFINE q   == entering[r]
             n   == Len(entries) + 1
             row == [by |-> q.by, body |-> q.body, at |-> paidClock,
                     checkedAt |-> q.checkedAt, seen |-> q.seen]
  <2>1. q \in Entering /\ q # Idle /\ EnteringOK(q) /\ q.pc = "insert"
    BY <1>3, <1>q DEF EntryInsert, Idle
  <2>2. CorrectionTargetOK(q.body)
    BY <2>1 DEF EnteringOK
  <2>4. row \in EntryRow
    BY <2>1 DEF EntryRow, Entering, EntryInv
  <2>5. /\ entries' = Append(entries, row)
        /\ entering' = [entering EXCEPT ![r] = Idle]
        /\ UNCHANGED paidClock
    BY <1>3 DEF EntryInsert
  <2>r. row.by = q.by /\ row.body = q.body /\ row.checkedAt = q.checkedAt /\ row.seen = q.seen
    OBVIOUS
  <2> HIDE DEF row
  <2>6. /\ entries' \in Seq(EntryRow)
        /\ Len(entries') = n /\ n <= MaxEntries
        /\ DOMAIN entries' = 1..n
        /\ entries'[n] = row
        /\ \A i \in DOMAIN entries : entries'[i] = entries[i]
    BY <1>3, <2>4, <2>5, PaidEntriesAssumption DEF EntryInv, EntryInsert
  <2> HIDE DEF q
  <2>7. \A s \in Request : (EnteringOK(entering[s]))'
    <3> TAKE s \in Request
    <3>1. CASE s = r
      BY <2>5, <3>1 DEF EnteringOK, EntryInv, Idle
    <3>2. CASE s # r
      <4>1. entering'[s] = entering[s] /\ EnteringOK(entering[s])
        BY <2>5, <3>2 DEF EntryInv
      <4>2. CASE entering[s] = Idle
        BY <4>1, <4>2 DEF EnteringOK, Idle
      <4>3. CASE entering[s] # Idle
        <5>1. entering[s] \in Entering
          BY <4>3 DEF EntryInv
        <5>2. \A i \in 1..entering[s].seen : i \in DOMAIN entries
          BY <4>1, <4>3, <5>1 DEF EnteringOK, Entering, EntryInv
        <5>3. entering[s].seen <= Len(entries')
          BY <2>6, <4>1, <4>3, <5>1 DEF EnteringOK, Entering, EntryInv
        <5>4. \A i \in 1..entering[s].seen :
                ~(WasEntered(i, entering[s].by, entering[s].body, entering[s].checkedAt))'
          BY <2>6, <4>1, <4>3, <5>2 DEF EnteringOK, WasEntered
        <5>5. entering[s].pc = "insert" => (CorrectionTargetOK(entering[s].body))'
          BY <2>6, <4>1 DEF EnteringOK, CorrectionTargetOK, EntryInv
        <5> QED
          BY <4>1, <5>3, <5>4, <5>5 DEF EnteringOK
      <4> QED
        BY <4>2, <4>3
    <3> QED
      BY <3>1, <3>2
  <2>8. ASSUME NEW j \in DOMAIN entries', entries'[j].body.corrects # 0
        PROVE  /\ entries'[j].body.corrects \in 1..(j - 1)
               /\ entries'[entries'[j].body.corrects].body.campaign = entries'[j].body.campaign
    <3>1. CASE j = n
      <4>1. /\ q.body.corrects \in DOMAIN entries
            /\ entries[q.body.corrects].body.campaign = q.body.campaign
        BY <2>2, <2>6, <2>8, <2>r, <3>1 DEF CorrectionTargetOK
      <4> QED
        BY <2>6, <2>r, <3>1, <4>1 DEF EntryInv
    <3>2. CASE j # n
      <4>1. j \in DOMAIN entries /\ entries'[j] = entries[j]
        BY <2>6, <3>2 DEF EntryInv
      <4>2. entries[j].body.corrects \in 1..(j - 1)
            /\ entries[entries[j].body.corrects].body.campaign = entries[j].body.campaign
        BY <2>8, <4>1 DEF EntryInv, EntriesAreSound, CorrectionStaysInCampaign
      <4>3. 1..(j - 1) \subseteq DOMAIN entries
        BY <4>1 DEF EntryInv
      <4> QED
        BY <2>6, <4>1, <4>2, <4>3
    <3> QED
      BY <3>1, <3>2
  <2>c. CorrectionStaysInCampaign'
    BY <2>6, <2>8 DEF CorrectionStaysInCampaign, EntryInv
  <2>9. ResentEntryIsRefused'
    <3> SUFFICES ASSUME NEW i \in DOMAIN entries', NEW j \in DOMAIN entries', i < j,
                        entries'[i].by = entries'[j].by,
                        entries'[i].body = entries'[j].body,
                        InWindow(entries'[i].at, entries'[j].checkedAt, PaidWindow)
                 PROVE  entries'[j].seen < i
      BY DEF ResentEntryIsRefused, InWindow
    <3>1. i \in DOMAIN entries /\ entries'[i] = entries[i]
      BY <2>6 DEF EntryInv
    <3>2. CASE j = n
      <4>1. WasEntered(i, q.by, q.body, q.checkedAt)
        BY <2>6, <2>r, <3>1, <3>2 DEF WasEntered
      <4>2. i \notin 1..q.seen
        BY <2>1, <4>1 DEF EnteringOK
      <4>3. q.seen \in Nat /\ i \in Nat \ {0}
        BY <2>1, <3>1 DEF Entering, EntryInv
      <4> QED
        BY <2>6, <2>r, <3>2, <4>2, <4>3
    <3>3. CASE j # n
      <4>1. j \in DOMAIN entries /\ entries'[j] = entries[j]
        BY <2>6, <3>3 DEF EntryInv
      <4> QED
        BY <3>1, <4>1 DEF EntryInv, EntriesAreSound, ResentEntryIsRefused
    <3> QED
      BY <3>2, <3>3
  <2>10. entering' \in [Request -> Entering \cup {Idle}]
    BY <2>5 DEF EntryInv
  <2> QED
    BY <2>5, <2>6, <2>7, <2>8, <2>c, <2>9, <2>10 DEF EntryInv, EntriesAreSound
<1>4. CASE PaidTick
  <2>1. UNCHANGED entries /\ UNCHANGED entering /\ paidClock' \in 0..MaxPaidClock
    BY <1>4, PaidEntriesAssumption DEF PaidTick, EntryInv
  <2>2. \A s \in Request : (EnteringOK(entering[s]))'
    BY <2>1 DEF EntryInv, EnteringOK, WasEntered, CorrectionTargetOK
  <2> QED
    BY <1>s, <2>1, <2>2 DEF EntryInv
<1>5. CASE UNCHANGED entryVars
  <2>1. UNCHANGED entries /\ UNCHANGED entering /\ UNCHANGED paidClock
    BY <1>5 DEF entryVars
  <2>2. \A s \in Request : (EnteringOK(entering[s]))'
    BY <2>1 DEF EntryInv, EnteringOK, WasEntered, CorrectionTargetOK
  <2> QED
    BY <1>s, <2>1, <2>2 DEF EntryInv
<1> QED
  BY <1>1, <1>2, <1>3, <1>4, <1>5 DEF EntryNext

\* What the ledger sees of an entry.
LEMMA EntryRowFields ==
  ASSUME NEW row \in EntryRow
  PROVE  row.body.campaign \in AdCampaign /\ row.body.corrects \in Nat
BY PaidEntriesAssumption DEF EntryRow, EntryBody

\* The history starts as an empty ledger.
LEMMA EntryBookStarts == EntryInit => EntryBook!LedgerInit
BY DEF EntryInit, PaidHistory, EntryBook!LedgerInit

\* An insert enters a row under its campaign, which is that of the row it corrects.
LEMMA EntryEnters ==
  ASSUME EntryInv, EntryInv', NEW r \in Request, EntryInsert(r)
  PROVE  EntryBook!LedgerNext
<1> DEFINE q   == entering[r]
           n   == Len(entries)
           T   == [account : AdCampaign, amends : Nat]
           row == PaidHistory'[n + 1]
<1>1. q \in Entering /\ q # Idle /\ EnteringOK(q) /\ q.pc = "insert"
  BY DEF EntryInv, Entering, EntryInsert, Idle
<1>2. CorrectionTargetOK(q.body) /\ q.body \in EntryBody
  BY <1>1 DEF EnteringOK, Entering
<1>3. entries' = Append(entries, [by |-> q.by, body |-> q.body, at |-> paidClock,
                                  checkedAt |-> q.checkedAt, seen |-> q.seen])
  BY DEF EntryInsert
<1>4. /\ entries \in Seq(EntryRow) /\ n \in Nat /\ DOMAIN entries = 1..n
      /\ entries' \in Seq(EntryRow)
  BY DEF EntryInv
<1>5. /\ DOMAIN entries' = 1..(n + 1)
      /\ entries'[n + 1].body = q.body
      /\ \A i \in 1..n : entries'[i] = entries[i]
  BY <1>3, <1>4
<1> HIDE DEF q
<1>6. /\ PaidHistory \in [1..n -> T]
      /\ PaidHistory' \in [1..(n + 1) -> T]
  <2>1. /\ \A i \in 1..n : entries[i] \in EntryRow
        /\ \A i \in 1..(n + 1) : entries'[i] \in EntryRow
    BY <1>4, <1>5
  <2>2. /\ \A i \in 1..n :
             entries[i].body.campaign \in AdCampaign /\ entries[i].body.corrects \in Nat
        /\ \A i \in 1..(n + 1) :
             entries'[i].body.campaign \in AdCampaign /\ entries'[i].body.corrects \in Nat
    BY <2>1, EntryRowFields
  <2>3. PaidHistory \in [1..n -> T]
    BY <1>4, <2>2 DEF PaidHistory
  <2>4. PaidHistory' \in [1..(n + 1) -> T]
    BY <1>5, <2>2 DEF PaidHistory
  <2> QED
    BY <2>3, <2>4
<1>7. ASSUME NEW i \in 1..n PROVE PaidHistory'[i] = PaidHistory[i]
  <2>1. i \in DOMAIN entries /\ i \in DOMAIN entries' /\ entries'[i] = entries[i]
    BY <1>4, <1>5
  <2> QED
    BY <2>1 DEF PaidHistory
<1>8. row.account = q.body.campaign /\ row.amends = q.body.corrects
  BY <1>4, <1>5 DEF PaidHistory
<1>9. row \in T
  BY <1>4, <1>6
<1> HIDE DEF T, row
<1>10. PaidHistory' = Append(PaidHistory, row) /\ Len(PaidHistory) = n
  BY <1>4, <1>6, <1>7, OneRowMore DEF row
<1>11. DOMAIN PaidHistory = 1..n
  BY <1>6
<1>12. row.amends # 0 =>
         row.amends \in DOMAIN PaidHistory /\ PaidHistory[row.amends].account = row.account
  BY <1>2, <1>4, <1>8, <1>11 DEF CorrectionTargetOK, PaidHistory
<1>13. row = [account |-> row.account, amends |-> row.amends]
       /\ row.account \in AdCampaign /\ row.amends \in Nat
  BY <1>9 DEF T
<1>14. row.amends \in 0..Len(PaidHistory)
  BY <1>4, <1>10, <1>11, <1>12, <1>13
<1>15. EntryBook!Enter(row.account, row.amends)
  BY <1>10, <1>12, <1>13 DEF EntryBook!Enter
<1> QED
  BY <1>13, <1>14, <1>15 DEF EntryBook!LedgerNext

\* Every step of the requests enters one row or none.
LEMMA EntryBookSteps ==
  EntryInv /\ EntryInv' /\ [EntryNext]_entryVars => [EntryBook!LedgerNext]_PaidHistory
<1> SUFFICES ASSUME EntryInv, EntryInv', [EntryNext]_entryVars
             PROVE  [EntryBook!LedgerNext]_PaidHistory
  OBVIOUS
<1>1. UNCHANGED entries => UNCHANGED PaidHistory
  BY DEF PaidHistory
<1>2. CASE \E r \in Request : EntryInsert(r)
  BY <1>2, EntryEnters
<1>3. CASE ~\E r \in Request : EntryInsert(r)
  BY <1>1, <1>3 DEF EntryNext, EntryCheck, EntryTarget, PaidTick, entryVars
<1> QED
  BY <1>2, <1>3

\* Campaigns keep their dates in order and their ids apart however PATCHes
\* overlap; a history holds each entry once and is a ledger: entries stay, and a
\* correction is entered under the campaign of the earlier entry it corrects.
THEOREM PaidSound == CampaignSpec /\ EntrySpec => PaidIsSound
<1>1. EntryInv => EntriesAreSound
  BY DEF EntryInv
<1>2. EntrySpec => []EntryInv
  BY EntryInit1, EntryNext1, PTL DEF EntrySpec
<1>3. EntrySpec => EntryBook!LedgerSpec
  BY <1>2, EntryBookStarts, EntryBookSteps, PTL DEF EntrySpec, EntryBook!LedgerSpec
<1> QED
  BY <1>1, <1>2, <1>3, CampaignsStaySound, PTL DEF PaidIsSound

\* Campaigns, entries and the requests in hand keep their types.
LEMMA PaidTypes == CampaignSpec /\ EntrySpec => [](CampaignTypeOK /\ EntryTypeOK)
<1>1. EntryInv => EntryTypeOK
  BY DEF EntryInv, EntryTypeOK, Entering
<1>2. EntrySpec => []EntryTypeOK
  BY <1>1, EntryInit1, EntryNext1, PTL DEF EntrySpec
<1> QED
  BY <1>2, CampaignsStaySound, PTL
=============================================================================
