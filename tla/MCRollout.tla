------------------------------- MODULE MCRollout -------------------------------
(* Small instances of Rollout for TLC. *)
EXTENDS Rollout

Config(account) ==
    [ServiceAccount |-> account, UseHostNetwork |-> FALSE, AffinitySpec |-> Unset,
     ProbeSpec |-> Unset, StorageSpec |-> {}, ResourceSpec |-> Unset, ScalingSpec |-> Unset]

Group(name, components, listeners) ==
    [Name |-> name, Components |-> components, listeners |-> listeners,
     StorageSpec |-> {}, ResourceSpec |-> Unset, ScalingSpec |-> Unset]

\* The config file gives the Service a name for all versions.
Web(port) == [name |-> "web", serviceName |-> <<"front">>, public |-> TRUE, port |-> port]

Deployed(app, id, account, groups) ==
    [app |-> app, deploymentId |-> id, image |-> <<app, id>>,
     config |-> Config(account), groups |-> groups]

Together(port) == <<Group("main", <<"main", "foo">>, <<Web(port)>>)>>
Apart(port)    == <<Group("foo", <<"foo">>, <<>>),
                        Group("main", <<"main">>, <<Web(port)>>)>>

\* Version 1 has both components in one process; version 2 has two groups, of
\* which one has the name of version 1's, and another port.
TwoVersions == {"v1", "v2"}
Regrouped ==
    [v \in TwoVersions |->
       IF v = "v1" THEN Deployed("app", v, "default", Together(20000))
       ELSE Deployed("app", v, "default", Apart(20001))]

\* main calls foo.
MainUsesFoo == [c \in {"main", "foo"} |-> IF c = "main" THEN {"foo"} ELSE {}]

\* Two versions that run under service accounts of their own.
TwoAccounts ==
    [v \in TwoVersions |->
       Deployed("app", v, IF v = "v1" THEN "account1" ELSE "account2", Together(20000))]
===============================================================================
