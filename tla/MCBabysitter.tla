----------------------------- MODULE MCBabysitter -----------------------------
(* Small instances of Babysitter for TLC. *)
EXTENDS Babysitter

CONSTANTS p1, p2, p3

\* p1 and p2 host the component "echo" of the deployment "v1"; p3 is the pod
\* of the same group in another deployment of the app.
MCPodOf == [p \in Pods |->
              [app |-> "app", group |-> "g",
               dep |-> IF p = p3 THEN "v2" ELSE "v1"]]

OneComponent == {"echo"}
OneGroup     == [c \in OneComponent |-> "g"]

\* "lost" is not in the config.
TwoComponents == {"echo", "lost"}
===============================================================================
