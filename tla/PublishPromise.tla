--------------------------- MODULE PublishPromise ---------------------------
(***************************************************************************)
(* What the publish flow promises about one (content, platform) pair,      *)
(* without queue, workers, versions or faults: a row takes the target, the *)
(* target is published under its owner at most once, and it is given up    *)
(* only while nothing has been published.                                  *)
(***************************************************************************)
CONSTANTS Targets, Rows, None

VARIABLES
  owner,     \* owner[t]: the row that owns target t, or None
  published  \* <<t, p>>: target t has been published under row p

vars == <<owner, published>>

Published(t) == \E p \in Rows : <<t, p>> \in published

Init ==
  /\ owner = [t \in Targets |-> None]
  /\ published = {}

Acquire(t, p) ==
  /\ owner[t] = None
  /\ owner' = [owner EXCEPT ![t] = p]
  /\ UNCHANGED published

\* A native post is recorded: taken and published at once.
AcquirePublished(t, p) ==
  /\ owner[t] = None
  /\ owner' = [owner EXCEPT ![t] = p]
  /\ published' = published \cup {<<t, p>>}

Publish(t, p) ==
  /\ owner[t] = p
  /\ ~Published(t)
  /\ published' = published \cup {<<t, p>>}
  /\ UNCHANGED owner

Release(t) ==
  /\ ~Published(t)
  /\ owner' = [owner EXCEPT ![t] = None]
  /\ UNCHANGED published

Next ==
  \E t \in Targets :
    \/ Release(t)
    \/ \E p \in Rows : Acquire(t, p) \/ AcquirePublished(t, p) \/ Publish(t, p)

Spec == Init /\ [][Next]_vars
=============================================================================
