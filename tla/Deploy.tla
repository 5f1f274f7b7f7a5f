-------------------------------- MODULE Deploy --------------------------------
(***************************************************************************)
(* The command `weaver kube deploy` up to the point where its YAML file    *)
(* exists: Deploy (internal/impl/deploy.go:43-138) and                     *)
(* buildAndUploadDockerImage (internal/impl/docker.go:48-202).  Several    *)
(* runs of the command share a build host, its image store and a registry, *)
(* while the developer may rebuild the application binary: a run reads the *)
(* binary four times, to check its version and its listeners, to copy it   *)
(* into the image and, when the image is built and pushed, to generate the *)
(* YAML (which KubeDeployment has in detail).                              *)
(***************************************************************************)
EXTENDS Naturals, Sequences

CONSTANTS
    Runs,         \* the runs of the command, each with a deployment id of its own
    Configs,      \* the kube config files considered
    Binaries,     \* the binaries the developer may build
    NoBinary,     \* nothing copied, nothing described
    MaxRebuilds   \* bound: rebuilds of the binary

ASSUME DeployAssumption ==
    /\ \A b \in Binaries : b.compatible \in BOOLEAN
    /\ NoBinary \notin Binaries
    /\ "" \notin Runs
    /\ MaxRebuilds \in Nat

VARIABLES
    config,      \* config[r]: the kube config file of run r
    step,        \* step[r]: what run r does next
    binary,      \* the file app.Binary
    workDir,     \* workDir[r]: the binary in r's docker build context
    images,      \* the host's image store: image name |-> binary in it
    registry,    \* the registry: image name |-> binary in it
    described,   \* described[r]: the binary r's YAML file describes
    rebuilds,    \* counter, for the bound
    rebuilt      \* history: was the binary rebuilt after r copied it?

vars == <<config, step, binary, workDir, images, registry, described, rebuilds, rebuilt>>

Steps == {"read", "version", "defaults", "listeners", "copy", "install",
          "build", "tag", "push", "yaml", "done", "failed"}

\* An image name; one in the host's store alone has no repository.
Name(repo, img, version) == [repo |-> repo, name |-> img, version |-> version]

\* (An image name without the version, for a mutation.)
unversionedImage(r) ==
    IF config[r].Image # "" THEN Name("", config[r].Image, "") ELSE Name("", "app", "")

\* The image: named in the config file, or after this version of the app.
image(r) ==
    IF config[r].Image # "" THEN Name("", config[r].Image, "") ELSE Name("", "app", r)

\* (The name in the host's store, for a mutation.)
unqualified(r) == image(r)

\* The image's name in the registry, which is also a name in the host's store.
repoTag(r) == Name(config[r].Repo, image(r).name, image(r).version)

Init ==
    /\ config \in [Runs -> Configs]
    /\ step = [r \in Runs |-> "read"]
    /\ binary \in Binaries
    /\ workDir = [r \in Runs |-> NoBinary]
    /\ images = <<>>
    /\ registry = <<>>
    /\ described = [r \in Runs |-> NoBinary]
    /\ rebuilds = 0
    /\ rebuilt = [r \in Runs |-> FALSE]

\* A store with one more image, in place of one that had its name.
With(store, name, b) ==
    [n \in DOMAIN store \cup {name} |-> IF n = name THEN b ELSE store[n]]

Goto(r, s) == step' = [step EXCEPT ![r] = s]

\* Every error ends the command; buildImage removes its directory.
Fails(r) ==
    /\ Goto(r, "failed")
    /\ workDir' = [workDir EXCEPT ![r] = NoBinary]
-------------------------------------------------------------------------------
\* Read and parse both config files, and see that the binary exists.
ReadConfigs(r) ==
    /\ step[r] = "read"
    /\ Goto(r, "version") \/ Goto(r, "failed")
    /\ UNCHANGED <<config, binary, workDir, images, registry, described, rebuilds, rebuilt>>

\* The binary was built for the version of the deployer API that this tool uses;
\* reading its versions, or those of the tool, may fail.
checkVersionCompatibility(r) ==
    /\ step[r] = "version"
    /\ \/ binary.compatible /\ Goto(r, "defaults")
       \/ Goto(r, "failed")
    /\ UNCHANGED <<config, binary, workDir, images, registry, described, rebuilds, rebuilt>>

\* Only two build tools are supported; the other knobs just have defaults.
PickDefaults(r) ==
    /\ step[r] = "defaults"
    /\ Goto(r, IF config[r].BuildTool \in {"", "docker", "podman"} THEN "listeners" ELSE "failed")
    /\ UNCHANGED <<config, binary, workDir, images, registry, described, rebuilds, rebuilt>>

\* The binary has every listener that the config file lists; reading those of
\* the binary may fail.
CheckListeners(r) ==
    /\ step[r] = "listeners"
    /\ \/ config[r].Listeners \subseteq binary.listeners /\ Goto(r, "copy")
       \/ Goto(r, "failed")
    /\ UNCHANGED <<config, binary, workDir, images, registry, described, rebuilds, rebuilt>>

\* cp opens the source, creates or truncates the destination, copies and sets
\* the mode.  Each can fail; what was copied by then goes with the directory.
\* (The developer's build replaces the binary in one step.)
cp(r, copied) == copied \/ Fails(r)

\* Make a directory and copy the binary into it.
CopyBinary(r) ==
    /\ step[r] = "copy"
    /\ cp(r, workDir' = [workDir EXCEPT ![r] = binary] /\ Goto(r, "install"))
    /\ UNCHANGED <<config, binary, images, registry, described, rebuilds, rebuilt>>

\* Copy the tool, or have the image install it, unless the user who is asked
\* bails out; then write the Dockerfile, which fails as cp does.
InstallTool(r) ==
    /\ step[r] = "install"
    /\ cp(r, Goto(r, "build") /\ UNCHANGED workDir)
    /\ UNCHANGED <<config, binary, images, registry, described, rebuilds, rebuilt>>

\* What buildAndUploadDockerImage does when the image is built: push it, if the
\* config file names a repository.
afterBuild(r) == IF config[r].Repo = "" THEN "yaml" ELSE "tag"

\* The build tool makes the image, or fails.  buildImage returns, and its
\* directory is removed.
dockerBuild(r) ==
    /\ step[r] = "build"
    /\ \/ /\ images' = With(images, image(r), workDir[r])
          /\ Goto(r, afterBuild(r))
          /\ workDir' = [workDir EXCEPT ![r] = NoBinary]
       \/ /\ Fails(r)
          /\ UNCHANGED images
    /\ UNCHANGED <<config, binary, registry, described, rebuilds, rebuilt>>

\* (The tool is not run with the context that times out, for a mutation.)
BuildOutlivesTimeout(r) ==
    /\ step[r] = "build"
    /\ UNCHANGED vars

\* After 120 seconds the tool is killed, perhaps when the image is just made.
BuildTimesOut(r) ==
    /\ step[r] = "build"
    /\ Fails(r)
    /\ UNCHANGED images \/ images' = With(images, image(r), workDir[r])
    /\ UNCHANGED <<config, binary, registry, described, rebuilds, rebuilt>>

\* pushImage's first half: another name for the image.
TagImage(r) ==
    /\ step[r] = "tag"
    /\ \/ /\ images' = With(images, repoTag(r), images[image(r)])
          /\ Goto(r, "push")
       \/ /\ Goto(r, "failed")
          /\ UNCHANGED images
    /\ UNCHANGED <<config, binary, workDir, registry, described, rebuilds, rebuilt>>

\* Its second half: the image with that name goes to the registry.
PushImage(r) ==
    /\ step[r] = "push"
    /\ \/ /\ registry' = With(registry, repoTag(r), images[repoTag(r)])
          /\ Goto(r, "yaml")
       \/ /\ Goto(r, "failed")
          /\ UNCHANGED registry
    /\ UNCHANGED <<config, binary, workDir, images, described, rebuilds, rebuilt>>

\* The YAML is made from the components and listeners that the binary has now.
\* (They are read one after the other, kube.go:803 and 813: the two reads are one
\* step here, as a rebuild between them is one after the copy, like others.)
generateYAMLs(r) ==
    /\ step[r] = "yaml"
    /\ \/ /\ described' = [described EXCEPT ![r] = binary]
          /\ Goto(r, "done")
       \/ /\ Goto(r, "failed")
          /\ UNCHANGED described
    /\ UNCHANGED <<config, binary, workDir, images, registry, rebuilds, rebuilt>>

\* Where a run is when it has copied the binary and not yet described it.
Copied == {"install", "build", "tag", "push", "yaml"}

\* The developer builds the application again.
Rebuild ==
    /\ rebuilds < MaxRebuilds
    /\ rebuilds' = rebuilds + 1
    /\ binary' \in Binaries \ {binary}
    /\ rebuilt' = [r \in Runs |-> rebuilt[r] \/ step[r] \in Copied]
    /\ UNCHANGED <<config, step, workDir, images, registry, described>>

\* What a run does by itself, and what it waits for others to do.
OwnStep(r) ==
    \/ ReadConfigs(r)    \/ checkVersionCompatibility(r)
    \/ PickDefaults(r)   \/ CheckListeners(r)
    \/ CopyBinary(r)     \/ BuildTimesOut(r)
    \/ generateYAMLs(r)

OtherStep(r) == InstallTool(r) \/ dockerBuild(r) \/ TagImage(r) \/ PushImage(r)

Next == Rebuild \/ \E r \in Runs : OwnStep(r) \/ OtherStep(r)

Spec == Init /\ [][Next]_vars

\* The command runs, and its timer fires.  The user may never answer, and the
\* build tool may hang.
FairSpec == Spec /\ \A r \in Runs : WF_vars(OwnStep(r))
-------------------------------------------------------------------------------
(* Properties. *)

TypeOK ==
    /\ config \in [Runs -> Configs]
    /\ step \in [Runs -> Steps]
    /\ binary \in Binaries
    /\ workDir \in [Runs -> Binaries \cup {NoBinary}]
    /\ \A n \in DOMAIN images : images[n] \in Binaries
    /\ \A n \in DOMAIN registry :
          n \in DOMAIN images /\ registry[n] \in Binaries
          /\ \E r \in Runs : config[r].Repo # "" /\ n.repo = config[r].Repo
    /\ described \in [Runs -> Binaries \cup {NoBinary}]
    /\ rebuilds \in 0 .. MaxRebuilds
    /\ rebuilt \in [Runs -> BOOLEAN]

\* The binary in the image that r's YAML file names.
Deployed(r) == IF config[r].Repo = "" THEN images[image(r)] ELSE registry[repoTag(r)]

\* A YAML file and the image it names are of one binary, whatever other runs
\* build, tag and push meanwhile or later, unless the config file fixes the
\* name of the image or the binary is rebuilt between the two times that the run
\* reads it for them (docker.go:67-72, 91, deploy.go:126-137).
YAMLMatchesImage ==
    \A r \in Runs :
       step[r] = "done" /\ config[r].Image = "" /\ ~rebuilt[r] => Deployed(r) = described[r]

\* The command ends, unless the user does not answer, or tagging or pushing the
\* image hangs: a build that hangs is given up (docker.go:32-35, 169-171).
OnlyPushesMayHang ==
    LET HeldUp == {"install", "tag", "push"}
    IN  \A r \in Runs : step[r] \notin HeldUp ~> step[r] \in HeldUp \cup {"done", "failed"}
===============================================================================
