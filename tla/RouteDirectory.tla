--------------------------- MODULE RouteDirectory ---------------------------
(***************************************************************************)
(* What the control plane promises to the ingress, without goroutines,      *)
(* semaphores or takeovers: a directory from hosts to sessions in which     *)
(*   - a session is routed to only after its user is known and only for     *)
(*     hosts that user owns;                                                *)
(*   - a session may lose a route at any time, but                          *)
(*   - it retires (nothing in the server looks after it any more) only when *)
(*     no route leads to it, and is never routed to again.                  *)
(* The promise is that of the comments of internal/server/registry.go and   *)
(* of SPEC.md section 6 on bound subdomains.                                *)
(***************************************************************************)
CONSTANTS Session, User, Domain, Owner, NoSession, NoUser

VARIABLES
    stage,   \* "new", "known" or "retired", per session
    who,     \* the user of a session
    routes   \* the session a host leads to

vars == <<stage, who, routes>>

Init ==
    /\ stage = [s \in Session |-> "new"]
    /\ who = [s \in Session |-> NoUser]
    /\ routes = [d \in Domain |-> NoSession]

Identify(s, u) ==
    /\ stage[s] = "new"
    /\ stage' = [stage EXCEPT ![s] = "known"]
    /\ who' = [who EXCEPT ![s] = u]
    /\ UNCHANGED routes

Publish(s, d) ==
    /\ stage[s] = "known"
    /\ who[s] = Owner[d]
    /\ routes' = [routes EXCEPT ![d] = s]
    /\ UNCHANGED <<stage, who>>

Withdraw(d) ==
    /\ routes' = [routes EXCEPT ![d] = NoSession]
    /\ UNCHANGED <<stage, who>>

\* Several sessions may retire at once: closing the listener drops them all.
Retire(S) ==
    /\ \A s \in S, d \in Domain : routes[d] # s
    /\ stage' = [s \in Session |-> IF s \in S THEN "retired" ELSE stage[s]]
    /\ UNCHANGED <<who, routes>>

Next ==
    \/ \E s \in Session, u \in User : Identify(s, u)
    \/ \E s \in Session, d \in Domain : Publish(s, d)
    \/ \E d \in Domain : Withdraw(d)
    \/ \E S \in SUBSET Session : Retire(S)

Spec == Init /\ [][Next]_vars

=============================================================================
