------------------------------ MODULE Catalog ------------------------------
(***************************************************************************)
(* The affiliate catalogue and the anchors that pin its products to a post *)
(* or a placement.  Products and links are retired, anchors soft-removed;  *)
(* nothing is deleted.  One request anchors a list of products, one after  *)
(* the other, each with its own reads and its own insert.  A product is    *)
(* named by its key (channel, external id), a link by (product, url).      *)
(***************************************************************************)
EXTENDS BackOffice, FiniteSets

CONSTANTS
  Product, Url,
  Target,       \* posts and placements
  AnchorLists,  \* the bodies a client may send: sequences of [product, url]
  MaxAnchors    \* bound on the rows of product_anchors

VARIABLES
  product,    \* Product -> state of its row
  link,       \* Product \X Url -> state of its row
  anchors,    \* the rows of product_anchors in the order of their creation
  anchoring   \* per request: what is left to anchor and what it has read

catalogVars == <<product, link, anchors, anchoring>>

RowState == {"absent", "active", "retired"}
AnchorItem == [product : Product, url : Url \cup {None}]

\* RecordProductAnchorsDto: the list is not empty.
ASSUME CatalogAssumption ==
  AnchorLists \subseteq Seq(AnchorItem) \ {<<>>} /\ MaxAnchors \in Nat

Anchor == [target : Target, product : Product, url : Url \cup {None}, live : BOOLEAN]

CatalogTypeOK ==
  /\ product \in [Product -> RowState]
  /\ link \in [Product \X Url -> RowState]
  /\ anchors \in Seq(Anchor)
  /\ \A r \in Request : anchoring[r] # Idle =>
       /\ anchoring[r].pc \in {"find", "product", "link", "insert"}
       /\ anchoring[r].target \in Target
       /\ anchoring[r].items \in Seq(AnchorItem) \ {<<>>}
       /\ anchoring[r].gone \subseteq Product

CatalogInit ==
  /\ product = [p \in Product |-> "absent"]
  /\ link = [l \in Product \X Url |-> "absent"]
  /\ anchors = <<>>
  /\ anchoring = [r \in Request |-> Idle]

-----------------------------------------------------------------------------
(* Products and links.                                                     *)

\* UNIQUE(channel, external_product_id): an existing key is a 409.
CreateProduct(p) ==
  /\ product[p] = "absent"
  /\ product' = [product EXCEPT ![p] = "active"]
  /\ UNCHANGED <<link, anchors, anchoring>>

RetireProduct(p) ==
  /\ product[p] # "absent"
  /\ product' = [product EXCEPT ![p] = "retired"]
  /\ UNCHANGED <<link, anchors, anchoring>>

\* UNIQUE(product_id, url).  A retired product still takes links.
CreateLink(p, u) ==
  /\ product[p] # "absent"
  /\ link[<<p, u>>] = "absent"
  /\ link' = [link EXCEPT ![<<p, u>>] = "active"]
  /\ UNCHANGED <<product, anchors, anchoring>>

RetireLink(p, u) ==
  /\ link[<<p, u>>] # "absent"
  /\ link' = [link EXCEPT ![<<p, u>>] = "retired"]
  /\ UNCHANGED <<product, anchors, anchoring>>

-----------------------------------------------------------------------------
(* Anchors.                                                                *)

LiveAnchors(t, p) ==
  {i \in DOMAIN anchors :
     anchors[i].target = t /\ anchors[i].product = p /\ anchors[i].live}

\* product_anchors_..._active_key: the insert that loses is a 409.
IndexAccepts(t, p) == LiveAnchors(t, p) = {}

\* Mutant: the row only has to exist.
ProductExists(p) == product[p] # "absent"

\* assertProductIsActive
ProductIsActive(p) == product[p] = "active"

\* assertLinkBelongsToProduct: the link may be a retired one.
LinkBelongsToProduct(p, u) == link[<<p, u>>] # "absent"

AnchorFails(r) == anchoring' = [anchoring EXCEPT ![r] = Idle]

\* Mutant: the loop runs past the last item.
AnchorPastEnd(r) ==
  anchoring' = [anchoring EXCEPT ![r].items = Tail(@), ![r].pc = "find"]

AnchorNextItem(r) ==
  LET rest == Tail(anchoring[r].items) IN
  anchoring' = [anchoring EXCEPT ![r] =
    IF rest = <<>> THEN Idle ELSE [@ EXCEPT !.items = rest, !.pc = "find"]]

AnchorGoesTo(r, pc) == anchoring' = [anchoring EXCEPT ![r].pc = pc]

\* anchorToPost, anchorToPlacement.  `gone` is history: the products that
\* were retired before the request came in.
AnchorStart(r, t, items) ==
  /\ anchoring[r] = Idle
  /\ anchoring' = [anchoring EXCEPT ![r] =
       [pc |-> "find", target |-> t, items |-> items,
        gone |-> {p \in Product : product[p] = "retired"}]]
  /\ UNCHANGED <<product, link, anchors>>

\* An item that is anchored already is returned as it is.
AnchorFind(r) ==
  /\ anchoring[r].pc = "find"
  /\ IF LiveAnchors(anchoring[r].target, Head(anchoring[r].items).product) # {}
       THEN AnchorNextItem(r)
       ELSE AnchorGoesTo(r, "product")
  /\ UNCHANGED <<product, link, anchors>>

AnchorReadProduct(r) ==
  LET item == Head(anchoring[r].items) IN
  /\ anchoring[r].pc = "product"
  /\ IF ProductIsActive(item.product)
       THEN AnchorGoesTo(r, IF item.url = None THEN "insert" ELSE "link")
       ELSE AnchorFails(r)
  /\ UNCHANGED <<product, link, anchors>>

AnchorReadLink(r) ==
  LET item == Head(anchoring[r].items) IN
  /\ anchoring[r].pc = "link"
  /\ IF LinkBelongsToProduct(item.product, item.url) THEN AnchorGoesTo(r, "insert") ELSE AnchorFails(r)
  /\ UNCHANGED <<product, link, anchors>>

AnchorInsert(r) ==
  LET item == Head(anchoring[r].items)
      row  == [target |-> anchoring[r].target, product |-> item.product,
               url |-> item.url, live |-> TRUE]
  IN
  /\ anchoring[r].pc = "insert"
  /\ Len(anchors) < MaxAnchors
  /\ IF IndexAccepts(row.target, row.product)
       THEN anchors' = Append(anchors, row) /\ AnchorNextItem(r)
       ELSE UNCHANGED anchors /\ AnchorFails(r)
  /\ UNCHANGED <<product, link>>

\* removeOne: an anchor that is not there, or not live, is a 404.
RemoveAnchor(i) ==
  /\ anchors[i].live
  /\ anchors' = [anchors EXCEPT ![i].live = FALSE]
  /\ UNCHANGED <<product, link, anchoring>>

CatalogNext ==
  \/ \E p \in Product : CreateProduct(p) \/ RetireProduct(p)
  \/ \E p \in Product, u \in Url : CreateLink(p, u) \/ RetireLink(p, u)
  \/ \E r \in Request, t \in Target, items \in AnchorLists : AnchorStart(r, t, items)
  \/ \E r \in Request :
       AnchorFind(r) \/ AnchorReadProduct(r) \/ AnchorReadLink(r) \/ AnchorInsert(r)
  \/ \E i \in DOMAIN anchors : RemoveAnchor(i)

CatalogSpec == CatalogInit /\ [][CatalogNext]_catalogVars

-----------------------------------------------------------------------------
\* Two requests that both found a product unanchored leave one live anchor:
\* a product is pinned to a post or placement at most once at a time.
OneLiveAnchor ==
  \A t \in Target, p \in Product : Cardinality(LiveAnchors(t, p)) <= 1

\* A request may be overtaken by a retirement, but one that came in after a
\* product was retired never pins it again.
RetiredIsNotPinned ==
  [][\A r \in Request :
       Len(anchors') > Len(anchors) /\ anchoring'[r] # anchoring[r]
         => anchors'[Len(anchors')].product \notin anchoring[r].gone]_catalogVars

\* Both, whatever requests and retirements run together.
CatalogIsSound == []OneLiveAnchor /\ RetiredIsNotPinned
=============================================================================
