----------------------------- MODULE ModelCall -----------------------------
(***************************************************************************)
(* What callModel (packages/core/src/llm.ts) promises its callers: a       *)
(* bounded number of provider requests, one outcome that never changes,    *)
(* and a cancel after which nothing is sent and only CANCELLED comes back, *)
(* unless the model function itself threw an AskSqlError of its own.       *)
(***************************************************************************)
EXTENDS Integers

CONSTANT Budget  \* provider requests one call may send

VARIABLES cancelled, requests, outcome

modelCallVars == <<cancelled, requests, outcome>>

Outcomes == {"text", "CANCELLED", "LLM_TIMEOUT", "own", "error"}

Init ==
  /\ cancelled \in BOOLEAN
  /\ requests = 0
  /\ outcome = "none"

Request ==
  /\ outcome = "none" /\ ~cancelled /\ requests < Budget
  /\ requests' = requests + 1
  /\ UNCHANGED <<cancelled, outcome>>

Cancel ==
  /\ ~cancelled /\ cancelled' = TRUE
  /\ UNCHANGED <<requests, outcome>>

Settle(o) ==
  /\ outcome = "none"
  /\ cancelled => o \in {"CANCELLED", "own"}
  /\ ~cancelled => o # "CANCELLED" /\ requests > 0
  /\ outcome' = o
  /\ UNCHANGED <<cancelled, requests>>

Next == Request \/ Cancel \/ \E o \in Outcomes : Settle(o)

Spec == Init /\ [][Next]_modelCallVars
=============================================================================
