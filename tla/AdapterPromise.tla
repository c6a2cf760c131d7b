---------------------------- MODULE AdapterPromise ----------------------------
(***************************************************************************)
(* What a caller of a platform adapter may rely on: a call is asked once   *)
(* and answered once, the platform acts on it at most once and no later    *)
(* than its answer, and the answer is one of AdapterAnswers.  A dry run    *)
(* stands in for the platform it replaces.                                 *)
(***************************************************************************)
EXTENDS AdapterAnswers

CONSTANT Slot      \* calls under way at one time

VARIABLE promised  \* per slot: a call, the verdict on it and what the platform holds of it

Free == [op |-> "none", held |-> 0, verdict |-> "none"]

AdapterPromiseInit == promised = [s \in Slot |-> Free]

Ask(s) ==
  /\ promised[s] = Free
  /\ \E op \in Operations :
       promised' = [promised EXCEPT ![s] = [op |-> op, held |-> 0, verdict |-> "none"]]

Answer(s) ==
  /\ promised[s] # Free /\ promised[s].verdict = "none"
  /\ \E answer \in Answers(promised[s].op) :
       promised' = [promised EXCEPT ![s] = [op |-> promised[s].op, held |-> answer.held,
                                            verdict |-> answer.verdict]]

Leave(s) ==
  /\ promised[s].verdict # "none"
  /\ promised' = [promised EXCEPT ![s] = Free]

AdapterPromiseNext == \E s \in Slot : Ask(s) \/ Answer(s) \/ Leave(s)

AdapterPromiseSpec == AdapterPromiseInit /\ [][AdapterPromiseNext]_promised
=============================================================================
