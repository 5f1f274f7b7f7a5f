--------------------------- MODULE MCKubeDeployment ---------------------------
(* Small instances of KubeDeployment for TLC. *)
EXTENDS KubeDeployment

\* A binary with four components, of which Main and Foo have listeners.
FourComponents ==
    [names     |-> {"Bar", "Baz", "Foo", "Main"},
     listeners |-> << [Component |-> "Main", Listeners |-> <<"admin", "web">>],
                      [Component |-> "Foo", Listeners |-> <<"api">>] >>]

Config(gs, ls) ==
    [Groups |-> gs, Listeners |-> ls, ServiceAccount |-> "default",
     UseHostNetwork |-> FALSE, Image |-> "", AffinitySpec |-> Unset, ProbeSpec |-> Unset,
     StorageSpec |-> {"shared"}, ResourceSpec |-> "small", ScalingSpec |-> Unset,
     ExportInterval |-> "30s"]

Grp(name, cs) ==
    [Name |-> name, Components |-> cs, StorageSpec |-> {name},
     ResourceSpec |-> "big", ScalingSpec |-> Unset]

Lis(name, port) == [Name |-> name, ServiceName |-> "", Public |-> FALSE, Port |-> port]

\* "web" is public, with a Service name of its own; "api" is listed twice.
NamedListeners ==
    << [Name |-> "web", ServiceName |-> "front", Public |-> TRUE, Port |-> 0],
       Lis("api", 8080), Lis("api", 9090) >>

\* "web" and "api" are given one Service name.
OneServiceName ==
    << [Name |-> "web", ServiceName |-> "front", Public |-> TRUE, Port |-> 0],
       [Name |-> "api", ServiceName |-> "front", Public |-> FALSE, Port |-> 8080] >>

\* No groups; one group, and two listeners of one Service name; two groups that
\* overlap, with a component that the binary does not have; two groups of one
\* name, which is also that of a component outside both; and an interval that
\* does not parse.
SeveralInputs ==
    { [binary |-> FourComponents, config |-> Config(<<>>, <<>>)],
      [binary |-> FourComponents,
       config |-> Config(<<Grp("pair", {"Bar", "Foo"})>>, OneServiceName)],
      [binary |-> FourComponents,
       config |-> Config(<<Grp("one", {"Foo", "Bar"}), Grp("two", {"Foo", "Main", "Gone"})>>,
                         NamedListeners)],
      [binary |-> FourComponents,
       config |-> Config(<<Grp("Main", {"Foo"}), [Grp("Main", {"Bar"}) EXCEPT !.ResourceSpec = "huge"]>>,
                         <<>>)],
      [binary |-> FourComponents,
       config |-> [Config(<<>>, <<>>) EXCEPT !.ExportInterval = "bad"]] }

\* Everything in one group.
OneProcess ==
    {[binary |-> FourComponents,
      config |-> Config(<<Grp("all", {"Bar", "Baz", "Foo", "Main"})>>, <<>>)]}

\* The same, with an explicit port that the counter will come to.
ExplicitPort ==
    {[in EXCEPT !.config.Listeners = <<Lis("web", FirstPort + 2)>>] : in \in OneProcess}

Runs == <<"v1", "v2">>

NameRank ==
    [n \in {"Bar", "Baz", "Foo", "Main", "all", "one", "pair", "two"} |->
       CASE n = "Bar" -> 1 [] n = "Baz" -> 2 [] n = "Foo" -> 3 [] n = "Main" -> 4
         [] n = "all" -> 5 [] n = "one" -> 6 [] n = "pair" -> 7 [] n = "two" -> 8]
===============================================================================
