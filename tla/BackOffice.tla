---------------------------- MODULE BackOffice ----------------------------
(***************************************************************************)
(* What the back-office modules share: HTTP requests that the server       *)
(* handles concurrently, the admins who send them, and the checks the      *)
(* services have in common.  Modules that extend this one each keep their  *)
(* own tables and share no variable.                                       *)
(***************************************************************************)
EXTENDS Naturals, Sequences

CONSTANTS
  Request,  \* requests in the server at one time
  Admin,    \* people who send them
  None      \* no value

Idle == [pc |-> "idle"]

\* assertValidDateRange: an end that is not known yet passes.
RangeInOrder(start, end) == end # None => start <= end

\* createdAt: { gte: now - window }
InWindow(at, now, window) == at + window >= now

=============================================================================
