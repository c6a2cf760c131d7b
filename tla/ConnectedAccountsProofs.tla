---------------------- MODULE ConnectedAccountsProofs ----------------------
(***************************************************************************)
(* Proofs about ConnectedAccounts for any accounts, callbacks, concurrent  *)
(* sweeps and number of faults.                                            *)
(***************************************************************************)
EXTENDS ConnectedAccounts, TLAPS

\* A sweep that is past its read has an account in hand.
SweepInv ==
  \A s \in Sweeps :
    swPc[s] \in {"exchange", "write", "expire"} => swAccount[s] \in Accounts

\* Inductive: a row is connected, or keeps a refresh token, only while its
\* owner's last word is connect.
ConsentInv ==
  /\ TypeOK
  /\ SweepInv
  /\ \A a \in Accounts : status[a] = "connected" => a \in consent
  /\ refresh \subseteq consent

\* Nothing is connected in the beginning.
LEMMA ConsentInit == Init => ConsentInv
BY AccountsAssumption DEF Init, ConsentInv, SweepInv, TypeOK, Status, SweepPc

\* A fault keeps within its bound.
LEMMA FaultBound ==
  ASSUME TypeOK, Fault
  PROVE  faults' \in 0..MaxFaults
BY AccountsAssumption DEF TypeOK, Fault

\* The owner's own steps set the row and the consent together.
LEMMA OwnerSteps ==
  ASSUME ConsentInv,
         \/ \E b \in Callbacks : \/ \E a \in Accounts : ExchangeCode(b, a)
                                 \/ SaveConnection(b)
                                 \/ ConnectionNotSaved(b)
         \/ \E a \in Accounts : Disconnect(a) \/ BecomeDue(a)
  PROVE  ConsentInv'
<1>1. CASE \E b \in Callbacks, a \in Accounts : ExchangeCode(b, a)
  BY <1>1 DEF ConsentInv, SweepInv, TypeOK, ExchangeCode, row, sweeps
<1>2. CASE \E b \in Callbacks : SaveConnection(b)
  <2>1. PICK b \in Callbacks : SaveConnection(b)
    BY <1>2
  <2>2. cbAccount[b] \in Accounts
    BY <2>1 DEF ConsentInv, SweepInv, TypeOK, SaveConnection
  <2>3. QED
    BY <2>1, <2>2 DEF ConsentInv, SweepInv, TypeOK, SaveConnection, SetStatus, sweeps, Status
<1>3. CASE \E b \in Callbacks : ConnectionNotSaved(b)
  BY <1>3, FaultBound DEF ConsentInv, SweepInv, TypeOK, ConnectionNotSaved, row, sweeps
<1>4. CASE \E a \in Accounts : Disconnect(a)
  BY <1>4 DEF ConsentInv, SweepInv, TypeOK, Disconnect, SetStatus, sweeps, Status
<1>5. CASE \E a \in Accounts : BecomeDue(a)
  BY <1>5 DEF ConsentInv, SweepInv, TypeOK, BecomeDue, sweeps
<1>6. QED
  BY <1>1, <1>2, <1>3, <1>4, <1>5

\* A sweep may give a token back, but never the status.
LEMMA SweepSteps ==
  ASSUME ConsentInv, NEW s \in Sweeps, SweepStep(s) \/ WriteFails(s) \/ AbortSweep(s)
  PROVE  ConsentInv'
<1>1. CASE StartSweep(s)
  BY <1>1 DEF ConsentInv, SweepInv, TypeOK, StartSweep, SweepGoto, row, SweepPc
<1>2. CASE FindExpiring(s)
  BY <1>2 DEF ConsentInv, SweepInv, TypeOK, FindExpiring, SweepGoto, row, SweepPc
<1>3. CASE \E a \in swTodo[s] : ReadAccount(s, a)
  BY <1>3 DEF ConsentInv, SweepInv, TypeOK, ReadAccount, SweepGoto, row, SweepPc
<1>4. CASE Exchange(s)
  BY <1>4 DEF ConsentInv, SweepInv, TypeOK, Exchange, SweepGoto, row, SweepPc
<1>5. CASE WriteRefreshed(s)
  BY <1>5 DEF ConsentInv, SweepInv, TypeOK, WriteRefreshed, NextAccount, SweepGoto, SweepPc
<1>6. CASE MarkExpired(s)
  BY <1>6 DEF ConsentInv, SweepInv, TypeOK, MarkExpired, NextAccount, SetStatus, SweepGoto, SweepPc, Status
<1>7. CASE FinishSweep(s)
  BY <1>7 DEF ConsentInv, SweepInv, TypeOK, FinishSweep, EndSweep, SweepGoto, row, SweepPc
<1>8. CASE WriteFails(s)
  BY <1>8, FaultBound DEF ConsentInv, SweepInv, TypeOK, WriteFails, SweepGoto, row, SweepPc
<1>9. CASE AbortSweep(s)
  BY <1>9, FaultBound DEF ConsentInv, SweepInv, TypeOK, AbortSweep, EndSweep, SweepGoto, row, SweepPc
<1>10. QED
  BY <1>1, <1>2, <1>3, <1>4, <1>5, <1>6, <1>7, <1>8, <1>9 DEF SweepStep

LEMMA ConsentNext == ConsentInv /\ [Next]_vars => ConsentInv'
<1>1. ConsentInv /\ UNCHANGED vars => ConsentInv'
  BY DEF ConsentInv, SweepInv, TypeOK, vars, row, sweeps
<1> QED
  BY <1>1, OwnerSteps, SweepSteps DEF Next

\* Every reachable state satisfies the inductive invariant.
THEOREM ConsentInductive == Spec => []ConsentInv
BY ConsentInit, ConsentNext, PTL DEF Spec

\* Type correctness: in particular no row is ever `revoked`.
THEOREM AccountsTypeCorrect == Spec => []TypeOK
BY ConsentInductive, PTL DEF ConsentInv

\* However sweeps, callbacks and disconnects interleave, an account its owner
\* disconnected is not usable and has no refresh token until reconnected.
THEOREM WithdrawnConsentIsRespected == Spec => []ConsentRespected
<1>1. ConsentInv => ConsentRespected
  BY DEF ConsentInv, ConsentRespected, Usable
<1>2. QED
  BY <1>1, ConsentInductive, PTL

-----------------------------------------------------------------------------
(* How far "null after disconnect" does hold.                              *)

\* A row that has come to be disconnected with a token was given that token by
\* a sweep that had read it before: a page's token, fresh from the exchange.
RestoredBySweeps ==
  [][\A a \in Accounts :
       (status[a] = "disconnected" => a \notin access)
         /\ status'[a] = "disconnected" /\ a \in access'
         => \E s \in Sweeps : WriteRefreshed(s) /\ swAccount[s] = a /\ a \notin Google]_vars

\* The exchange knows no Google token: a YouTube account has none after its
\* disconnect, whatever the sweeps do.
GoogleErasedOnDisconnect ==
  \A a \in Google : status[a] = "disconnected" => a \notin access

\* A sweep that is about to write has exchanged a page's token, and a Google
\* token goes with the owner's consent.
ErasedInv ==
  /\ ConsentInv
  /\ \A s \in Sweeps : swPc[s] = "write" => swAccount[s] \notin Google
  /\ \A a \in Google : a \in access => a \in consent
  /\ \A a \in Accounts : status[a] = "disconnected" => a \notin consent

LEMMA ErasedNext ==
  ASSUME ErasedInv, [Next]_vars
  PROVE  ErasedInv'
<1>0. ConsentInv /\ ConsentInv'
  BY ConsentNext DEF ErasedInv
<1> USE <1>0 DEF ErasedInv, ConsentInv, SweepInv, TypeOK
<1>1. ASSUME NEW b \in Callbacks, NEW a \in Accounts, ExchangeCode(b, a)  PROVE ErasedInv'
  BY <1>1 DEF ExchangeCode, row, sweeps
<1>2. ASSUME NEW b \in Callbacks, SaveConnection(b)  PROVE ErasedInv'
  BY <1>2 DEF SaveConnection, SetStatus, sweeps
<1>3. ASSUME NEW b \in Callbacks, ConnectionNotSaved(b)  PROVE ErasedInv'
  BY <1>3 DEF ConnectionNotSaved, row, sweeps
<1>4. ASSUME NEW a \in Accounts, Disconnect(a)  PROVE ErasedInv'
  BY <1>4 DEF Disconnect, SetStatus, sweeps
<1>5. ASSUME NEW a \in Accounts, BecomeDue(a)  PROVE ErasedInv'
  BY <1>5 DEF BecomeDue, sweeps
<1>6. ASSUME NEW s \in Sweeps, StartSweep(s) \/ FindExpiring(s) \/ Exchange(s)  PROVE ErasedInv'
  BY <1>6 DEF StartSweep, FindExpiring, Exchange, SweepGoto, row
<1>7. ASSUME NEW s \in Sweeps, NEW a \in swTodo[s], ReadAccount(s, a)  PROVE ErasedInv'
  BY <1>7 DEF ReadAccount, SweepGoto, row
<1>8. ASSUME NEW s \in Sweeps, WriteRefreshed(s)  PROVE ErasedInv'
  BY <1>8 DEF WriteRefreshed, NextAccount, SweepGoto
<1>9. ASSUME NEW s \in Sweeps, MarkExpired(s)  PROVE ErasedInv'
  BY <1>9 DEF MarkExpired, NextAccount, SetStatus, SweepGoto
<1>10. ASSUME NEW s \in Sweeps, FinishSweep(s) \/ WriteFails(s) \/ AbortSweep(s)  PROVE ErasedInv'
  BY <1>10 DEF FinishSweep, WriteFails, AbortSweep, EndSweep, SweepGoto, row
<1>11. CASE UNCHANGED vars
  BY <1>11 DEF vars, row, sweeps
<1> QED
  BY <1>1, <1>2, <1>3, <1>4, <1>5, <1>6, <1>7, <1>8, <1>9, <1>10, <1>11 DEF Next, SweepStep

THEOREM ErasedInductive == Spec => []ErasedInv
<1>1. Init => ErasedInv
  BY ConsentInit, AccountsAssumption DEF Init, ErasedInv
<1> QED
  BY <1>1, ErasedNext, PTL DEF Spec

\* For any number of accounts, callbacks, sweeps and faults.
THEOREM GoogleTokensStayErased == Spec => []GoogleErasedOnDisconnect
<1>1. ErasedInv => GoogleErasedOnDisconnect
  BY AccountsAssumption DEF ErasedInv, GoogleErasedOnDisconnect
<1> QED
  BY <1>1, ErasedInductive, PTL

\* The sweep's write by id is the one hole in TokenErasedOnDisconnect.
THEOREM SweepsAloneRestore == Spec => RestoredBySweeps
<1>1. ASSUME ErasedInv, [Next]_vars, NEW a \in Accounts,
             status[a] = "disconnected" => a \notin access,
             status'[a] = "disconnected", a \in access'
      PROVE  \E s \in Sweeps : WriteRefreshed(s) /\ swAccount[s] = a /\ a \notin Google
  <2> USE DEF ErasedInv, ConsentInv, SweepInv, TypeOK
  <2>1. ASSUME NEW b \in Callbacks,
               (\E c \in Accounts : ExchangeCode(b, c)) \/ ConnectionNotSaved(b)  PROVE FALSE
    BY <1>1, <2>1 DEF ExchangeCode, ConnectionNotSaved, row
  <2>2. ASSUME NEW b \in Callbacks, SaveConnection(b)  PROVE FALSE
    BY <1>1, <2>2 DEF SaveConnection, SetStatus
  <2>3. ASSUME NEW c \in Accounts, Disconnect(c) \/ BecomeDue(c)  PROVE FALSE
    BY <1>1, <2>3 DEF Disconnect, BecomeDue, SetStatus
  <2>4. ASSUME NEW s \in Sweeps,
               \/ StartSweep(s) \/ FindExpiring(s) \/ (\E c \in swTodo[s] : ReadAccount(s, c))
               \/ Exchange(s) \/ MarkExpired(s) \/ FinishSweep(s) \/ WriteFails(s) \/ AbortSweep(s)
        PROVE  FALSE
    BY <1>1, <2>4 DEF StartSweep, FindExpiring, ReadAccount, Exchange, MarkExpired, FinishSweep,
       WriteFails, AbortSweep, SetStatus, row
  <2>5. PICK s \in Sweeps : WriteRefreshed(s)
    BY <1>1, <2>1, <2>2, <2>3, <2>4 DEF Next, SweepStep, vars, row
  <2>6. swAccount[s] = a /\ a \notin Google
    BY <1>1, <2>5 DEF WriteRefreshed
  <2> QED
    BY <2>5, <2>6
<1>2. ErasedInv /\ [Next]_vars =>
        [\A a \in Accounts :
           (status[a] = "disconnected" => a \notin access)
             /\ status'[a] = "disconnected" /\ a \in access'
             => \E s \in Sweeps : WriteRefreshed(s) /\ swAccount[s] = a /\ a \notin Google]_vars
  BY <1>1
<1> QED
  BY <1>2, ErasedInductive, PTL DEF Spec, RestoredBySweeps
=============================================================================
