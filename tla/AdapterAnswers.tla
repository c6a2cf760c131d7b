---------------------------- MODULE AdapterAnswers ----------------------------
(***************************************************************************)
(* What a call of a platform adapter may come to, as its caller can tell:  *)
(* what the platform holds of it, and what the answer lets one conclude.   *)
(***************************************************************************)

Writes == {"publish", "reply"}
Operations == Writes \cup {"metrics", "comments"}

\* A publish that is "undone" left nothing, and one that is "unclear" may have.
\* A reply knows no "unclear": it is "undone" also when its answer was lost.
Answers(op) ==
  CASE op = "publish" -> {[held |-> 1, verdict |-> "done"], [held |-> 0, verdict |-> "undone"]}
                         \cup [held : {0, 1}, verdict : {"unclear"}]
    [] op = "reply"   -> {[held |-> 1, verdict |-> "done"]} \cup [held : {0, 1}, verdict : {"undone"}]
    [] OTHER          -> [held : {0}, verdict : {"done", "undone"}]
=============================================================================
