-------------------------------- MODULE Rpc --------------------------------
(***************************************************************************)
(* What the transport promises: a request is handled at most once and      *)
(* answered at most once, only its own answer makes it succeed, its        *)
(* outcome is settled once (but for C-g), and what was asked or answered   *)
(* does not disappear unless the connection breaks.  Nothing is promised   *)
(* about the order of different requests.                                  *)
(***************************************************************************)
CONSTANT Requests

VARIABLES
    stage,      \* how far each request has come: new, asked, handled, answered, over
    outcome,    \* what the caller was told
    up          \* the connection has not broken

vars == <<stage, outcome, up>>

Init ==
    /\ stage = [r \in Requests |-> "new"]
    /\ outcome = [r \in Requests |-> "none"]
    /\ up = TRUE

Advance(r, from, to) == stage[r] = from /\ stage' = [stage EXCEPT ![r] = to]

Ask(r) ==
    /\ Advance(r, "new", IF up THEN "asked" ELSE "over")
    /\ UNCHANGED <<outcome, up>>

Handle(r) == up /\ Advance(r, "asked", "handled") /\ UNCHANGED <<outcome, up>>

Answer(r) == up /\ Advance(r, "handled", "answered") /\ UNCHANGED <<outcome, up>>

\* The answer finds its caller, the callback that C-g left behind, or nobody.
Taken(told) == CASE told = "none" -> "ok" [] told = "quit" -> "stale" [] OTHER -> told

Take(r) ==
    /\ Advance(r, "answered", "over")
    /\ outcome' = [outcome EXCEPT ![r] = Taken(@)]
    /\ UNCHANGED up

GiveUp(r) ==
    /\ stage[r] # "new" /\ outcome[r] = "none"
    /\ \E how \in {"timeout", "quit"} : outcome' = [outcome EXCEPT ![r] = how]
    /\ UNCHANGED <<stage, up>>

\* The connection breaks and some of what was under way is lost.
Break ==
    /\ up /\ up' = FALSE
    /\ \E lost \in SUBSET {r \in Requests : stage[r] # "new"} :
           stage' = [r \in Requests |-> IF r \in lost THEN "over" ELSE stage[r]]
    /\ UNCHANGED outcome

\* Every caller that has no answer by then is told.
Failed(told) == CASE told = "none" -> "closed" [] told = "quit" -> "stale" [] OTHER -> told

Close ==
    /\ ~up
    /\ outcome' = [r \in Requests |->
                      IF stage[r] = "new" THEN outcome[r] ELSE Failed(outcome[r])]
    /\ UNCHANGED <<stage, up>>

Next ==
    \/ \E r \in Requests : Ask(r) \/ Handle(r) \/ Answer(r) \/ Take(r) \/ GiveUp(r)
    \/ Break \/ Close

Spec == Init /\ [][Next]_vars
=============================================================================
