------------------------------- MODULE Naming -------------------------------
(***************************************************************************)
(* The names by which the generated Kubernetes resources and the running   *)
(* babysitters find each other (internal/impl/kube.go).                    *)
(***************************************************************************)

\* (A name without the version, for a mutation of the definition below.)
unversionedName(app, component, deploymentId) == <<app, component, "">>

(***************************************************************************)
(* deploymentName joins the application, the shortened group name, the     *)
(* eight-character version and hash8 of all three inputs.  It is the name  *)
(* of the group's Deployment, the value of the "serviceweaver/name" label  *)
(* of its pods, and what a babysitter selects those pods by.  hash8 is     *)
(* taken to be free of collisions, so a name stands for the three inputs   *)
(* it is computed from.                                                    *)
(***************************************************************************)
deploymentName(app, component, deploymentId) == <<app, component, deploymentId>>
=============================================================================
