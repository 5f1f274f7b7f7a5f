------------------------------- MODULE MCDeploy -------------------------------
(* Small instances of Deploy for TLC. *)
EXTENDS Deploy

\* Three builds of one application, the last with a newer version of weaver.
ThreeBinaries ==
    { [id |-> 1, compatible |-> TRUE,  listeners |-> {"web"}],
      [id |-> 2, compatible |-> TRUE,  listeners |-> {"web", "admin"}],
      [id |-> 3, compatible |-> FALSE, listeners |-> {"web"}] }

Config(img, repo, tool, ls) ==
    [Image |-> img, Repo |-> repo, BuildTool |-> tool, Listeners |-> ls]

\* A local image; one that is pushed; one with a fixed name; and one built with
\* a tool that is not supported.
FourConfigs ==
    { Config("", "", "", {"web"}),
      Config("", "repo", "podman", {"web", "admin"}),
      Config("fixed", "repo", "docker", {}),
      Config("", "", "buildah", {}) }
===============================================================================
