------------------------------ MODULE RoutingView ------------------------------
(***************************************************************************)
(* What watchPods (internal/impl/babysitter.go:164-258) promises a         *)
(* weavelet about the replicas of a component, without saying how: each    *)
(* pod's address is a log that only grows, and the routing info of a       *)
(* component shows, for each pod that hosts it, one position of that log.  *)
(* The routing info never shows an address a pod did not have, never a pod *)
(* that does not host the component, and never goes back from a newer      *)
(* address of a pod to an older one, except when the weavelet starts over. *)
(***************************************************************************)
EXTENDS Integers, Sequences

CONSTANTS
    Components,  \* the components of the application
    Pods,        \* the pods that may ever exist
    Hosts,       \* Hosts[c]: the pods that host component c
    NoIP         \* "no address"

VARIABLES
    hist,     \* hist[p]: the addresses p has had, oldest first
    seen,     \* seen[c][p]: the position of hist[p] that is shown for c
    routing   \* routing[c]: the replica addresses the weavelet has for c

vars == <<hist, seen, routing>>

\* The addresses shown for a component at the positions s.
Shown(s) ==
    {IF s[p] = 0 THEN NoIP ELSE hist[p][s[p]] : p \in Pods} \ {NoIP}

Init ==
    /\ hist = [p \in Pods |-> <<>>]
    /\ seen = [c \in Components |-> [p \in Pods |-> 0]]
    /\ routing = [c \in Components |-> {}]

\* A pod gets, changes or loses its address.
Move(p) ==
    /\ Len(hist'[p]) = Len(hist[p]) + 1
    /\ \A n \in 1 .. Len(hist[p]) : hist'[p][n] = hist[p][n]
    /\ hist' = [hist EXCEPT ![p] = hist'[p]]
    /\ UNCHANGED <<seen, routing>>

\* The weavelet learns about later addresses of some of c's pods.
Learn(c) ==
    /\ \A p \in Pods : seen'[c][p] \in seen[c][p] .. Len(hist[p])
    /\ \A p \in Pods \ Hosts[c] : seen'[c][p] = 0
    /\ seen' = [seen EXCEPT ![c] = seen'[c]]
    /\ routing' = [routing EXCEPT ![c] = Shown(seen'[c])]
    /\ UNCHANGED hist

\* The babysitter and its weavelet start over and know nothing.
Forget ==
    /\ seen' = [c \in Components |-> [p \in Pods |-> 0]]
    /\ routing' = [c \in Components |-> {}]
    /\ UNCHANGED hist

Next ==
    \/ \E p \in Pods : Move(p)
    \/ \E c \in Components : Learn(c)
    \/ Forget

Spec == Init /\ [][Next]_vars
===============================================================================
