----------------------------- MODULE DeployProofs -----------------------------
(***************************************************************************)
(* Proofs about Deploy, for any number of runs of the command on one host, *)
(* any binaries and config files, and any number of rebuilds: what a YAML  *)
(* file describes is what its image contains.                              *)
(*                                                                         *)
(* The argument follows the binary from the time a run copies it.  As long *)
(* as it is not rebuilt, the file app.Binary is what was copied; the image *)
(* made of the copy keeps its name for itself, as all names of images have *)
(* the version in them that the config files do not fix.                   *)
(***************************************************************************)
EXTENDS Deploy, TLAPS

\* What exists by the time run r is at its step.
StepInv(r) ==
    /\ step[r] \in {"install", "build"} => workDir[r] \in Binaries
    /\ step[r] \in {"tag", "push"} => config[r].Repo # ""
    /\ step[r] \in {"tag", "push", "yaml", "done"} => image(r) \in DOMAIN images
    /\ step[r] = "push" => repoTag(r) \in DOMAIN images
    /\ step[r] \in {"yaml", "done"} /\ config[r].Repo # "" => repoTag(r) \in DOMAIN registry
    /\ described[r] # NoBinary => step[r] = "done"

\* The copy is of the binary, unless that was rebuilt since.
CopyInv(r) ==
    ~rebuilt[r] /\ step[r] \in {"install", "build"} => workDir[r] = binary

\* The images of r, by their names on the host and in the registry, have it.
ImageInv(r) ==
    ~rebuilt[r] /\ config[r].Image = "" =>
       /\ step[r] \in {"tag", "push", "yaml"} => images[image(r)] = binary
       /\ step[r] = "push" => images[repoTag(r)] = binary
       /\ step[r] = "yaml" /\ config[r].Repo # "" => registry[repoTag(r)] = binary
       /\ step[r] = "done" => Deployed(r) = described[r]

RunInv(r) == StepInv(r) /\ CopyInv(r) /\ ImageInv(r)

IInv == TypeOK /\ \A r \in Runs : RunInv(r)
-------------------------------------------------------------------------------
(* Names of images. *)

\* The names that run r gives to images.
Names(r) == {image(r)} \cup (IF config[r].Repo # "" THEN {repoTag(r)} ELSE {})

\* A run whose image is not named in its config file has names of its own.
LEMMA NamesDiffer ==
    ASSUME NEW r \in Runs, NEW q \in Runs, r # q, config[q].Image = ""
    PROVE  image(q) \notin Names(r) /\ repoTag(q) \notin Names(r)
BY DeployAssumption DEF Names, image, repoTag, Name

LEMMA SameNames ==
    ASSUME UNCHANGED config, NEW r
    PROVE  image(r)' = image(r) /\ repoTag(r)' = repoTag(r)
BY DEF image, repoTag

-------------------------------------------------------------------------------
(* Steps. *)

\* A step of one run leaves the others as they are, if it takes no name of
\* theirs.
LEMMA OthersKeep ==
    ASSUME NEW q \in Runs, RunInv(q), UNCHANGED <<config, binary>>,
           step'[q] = step[q], workDir'[q] = workDir[q],
           described'[q] = described[q], rebuilt'[q] = rebuilt[q],
           DOMAIN images \subseteq DOMAIN images', DOMAIN registry \subseteq DOMAIN registry',
           config[q].Image = "" =>
              \A n \in {image(q), repoTag(q)} :
                 /\ n \in DOMAIN images => images'[n] = images[n]
                 /\ n \in DOMAIN registry => registry'[n] = registry[n]
    PROVE  RunInv(q)'
<1>1. image(q)' = image(q) /\ repoTag(q)' = repoTag(q)
      BY SameNames
<1>2. StepInv(q)'
      BY <1>1 DEF RunInv, StepInv
<1>3. CopyInv(q)'
      BY DEF RunInv, CopyInv
<1>4. ImageInv(q)'
      BY <1>1 DEF RunInv, StepInv, ImageInv, Deployed
<1> QED BY <1>2, <1>3, <1>4 DEF RunInv

\* Steps that make no image.
Local(r) ==
    /\ UNCHANGED <<config, binary, images, registry, rebuilds, rebuilt>>
    /\ \A q \in Runs : q # r => /\ step'[q] = step[q] /\ workDir'[q] = workDir[q]
                               /\ described'[q] = described[q]

LEMMA LocalKeeps ==
    ASSUME IInv, NEW r \in Runs, Local(r), TypeOK', RunInv(r)'
    PROVE  IInv'
<1>1. \A q \in Runs : q # r => RunInv(q)'
      BY OthersKeep DEF IInv, Local
<1> QED BY <1>1 DEF IInv

LEMMA OwnKeeps ==
    ASSUME IInv, NEW r \in Runs,
           \/ ReadConfigs(r)  \/ checkVersionCompatibility(r) \/ PickDefaults(r)
           \/ CheckListeners(r) \/ CopyBinary(r) \/ InstallTool(r) \/ generateYAMLs(r)
    PROVE  IInv'
<1> USE DEF Goto, Fails, cp
<1>1. RunInv(r) /\ TypeOK /\ image(r)' = image(r) /\ repoTag(r)' = repoTag(r)
      BY SameNames DEF IInv, ReadConfigs, checkVersionCompatibility, PickDefaults, CheckListeners,
                       CopyBinary, InstallTool, generateYAMLs
<1>2. described[r] # NoBinary => step[r] = "done"
      BY <1>1 DEF RunInv, StepInv
<1>3. CASE ReadConfigs(r)
  <2>1. Local(r) /\ TypeOK'
        BY <1>1, <1>3 DEF ReadConfigs, Local, TypeOK, Steps
  <2>2. RunInv(r)'
        BY <1>1, <1>2, <1>3 DEF ReadConfigs, TypeOK, RunInv, StepInv, CopyInv, ImageInv
  <2> QED BY <2>1, <2>2, LocalKeeps
<1>4. CASE checkVersionCompatibility(r)
  <2>1. Local(r) /\ TypeOK'
        BY <1>1, <1>4 DEF checkVersionCompatibility, Local, TypeOK, Steps
  <2>2. RunInv(r)'
        BY <1>1, <1>2, <1>4 DEF checkVersionCompatibility, TypeOK, RunInv, StepInv, CopyInv,
                                ImageInv
  <2> QED BY <2>1, <2>2, LocalKeeps
<1>5. CASE PickDefaults(r)
  <2>1. Local(r) /\ TypeOK'
        BY <1>1, <1>5 DEF PickDefaults, Local, TypeOK, Steps
  <2>2. RunInv(r)'
        BY <1>1, <1>2, <1>5 DEF PickDefaults, TypeOK, RunInv, StepInv, CopyInv, ImageInv
  <2> QED BY <2>1, <2>2, LocalKeeps
<1>6. CASE CheckListeners(r)
  <2>1. Local(r) /\ TypeOK'
        BY <1>1, <1>6 DEF CheckListeners, Local, TypeOK, Steps
  <2>2. RunInv(r)'
        BY <1>1, <1>2, <1>6 DEF CheckListeners, TypeOK, RunInv, StepInv, CopyInv, ImageInv
  <2> QED BY <2>1, <2>2, LocalKeeps
<1>7. CASE CopyBinary(r)
  <2>1. UNCHANGED <<config, binary, images, registry, described, rebuilds, rebuilt>>
        BY <1>7 DEF CopyBinary
  <2>2. PICK s \in {"install", "failed"}, b \in Binaries \cup {NoBinary} :
           step' = [step EXCEPT ![r] = s] /\ workDir' = [workDir EXCEPT ![r] = b]
        BY <1>1, <1>7 DEF CopyBinary, TypeOK
  <2>3. Local(r)
        BY <1>1, <2>1, <2>2 DEF Local, TypeOK
  <2>4. step' \in [Runs -> Steps] /\ workDir' \in [Runs -> Binaries \cup {NoBinary}]
        BY <1>1, <2>2 DEF TypeOK, Steps
  <2>5. TypeOK'
        BY <1>1, <2>1, <2>4 DEF TypeOK
  <2>6. RunInv(r)'
        BY <1>1, <1>2, <1>7 DEF CopyBinary, TypeOK, RunInv, StepInv, CopyInv, ImageInv
  <2> QED BY <2>3, <2>5, <2>6, LocalKeeps
<1>8. CASE InstallTool(r)
  <2>1. Local(r) /\ TypeOK'
        BY <1>1, <1>8 DEF InstallTool, Local, TypeOK, Steps
  <2>2. RunInv(r)'
        BY <1>1, <1>2, <1>8 DEF InstallTool, TypeOK, RunInv, StepInv, CopyInv, ImageInv
  <2> QED BY <2>1, <2>2, LocalKeeps
<1>9. CASE generateYAMLs(r)
  <2>1. UNCHANGED <<config, binary, workDir, images, registry, rebuilds, rebuilt>>
        BY <1>9 DEF generateYAMLs
  <2>2. PICK s \in {"done", "failed"}, b \in Binaries \cup {NoBinary} :
           step' = [step EXCEPT ![r] = s] /\ described' = [described EXCEPT ![r] = b]
    <3>1. CASE described' = [described EXCEPT ![r] = binary] /\ Goto(r, "done")
          BY <1>1, <3>1 DEF TypeOK
    <3>2. CASE Goto(r, "failed") /\ UNCHANGED described
      <4>1. described' = [described EXCEPT ![r] = described[r]]
            BY <1>1, <3>2 DEF TypeOK
      <4> QED BY <1>1, <3>2, <4>1 DEF TypeOK
    <3> QED BY <1>9, <3>1, <3>2 DEF generateYAMLs
  <2>3. Local(r)
        BY <1>1, <2>1, <2>2 DEF Local, TypeOK
  <2>4. step' \in [Runs -> Steps] /\ described' \in [Runs -> Binaries \cup {NoBinary}]
        BY <1>1, <2>2 DEF TypeOK, Steps
  <2>5. TypeOK'
        BY <1>1, <2>1, <2>4 DEF TypeOK
  <2>6. binary # NoBinary
        BY <1>1, DeployAssumption DEF TypeOK
  <2>7. RunInv(r)'
        BY <1>1, <1>2, <1>9, <2>6 DEF generateYAMLs, TypeOK, RunInv, StepInv, CopyInv,
                                      ImageInv, Deployed
  <2> QED BY <2>3, <2>5, <2>7, LocalKeeps
<1> QED BY <1>3, <1>4, <1>5, <1>6, <1>7, <1>8, <1>9

\* A step that puts images of r in the stores leaves the other runs theirs.
LEMMA OthersKeepImages ==
    ASSUME IInv, NEW r \in Runs, NEW q \in Runs, r # q,
           UNCHANGED <<config, binary, rebuilt, described>>,
           step'[q] = step[q], workDir'[q] = workDir[q],
           \A n \in DOMAIN images :
              n \in DOMAIN images' /\ (n \notin Names(r) => images'[n] = images[n]),
           \A n \in DOMAIN registry :
              n \in DOMAIN registry' /\ (n \notin Names(r) => registry'[n] = registry[n])
    PROVE  RunInv(q)'
<1>1. RunInv(q)
      BY DEF IInv
<1>2. config[q].Image = "" => image(q) \notin Names(r) /\ repoTag(q) \notin Names(r)
      BY NamesDiffer
<1>3. DOMAIN images \subseteq DOMAIN images' /\ DOMAIN registry \subseteq DOMAIN registry'
      OBVIOUS
<1>4. config[q].Image = "" =>
         \A n \in {image(q), repoTag(q)} :
            /\ n \in DOMAIN images => images'[n] = images[n]
            /\ n \in DOMAIN registry => registry'[n] = registry[n]
      BY <1>2
<1> QED BY <1>1, <1>3, <1>4, OthersKeep

LEMMA BuildKeeps ==
    ASSUME IInv, NEW r \in Runs, dockerBuild(r) \/ BuildTimesOut(r)
    PROVE  IInv'
<1> USE DEF Goto, Fails, afterBuild
<1>1. RunInv(r) /\ TypeOK /\ image(r)' = image(r) /\ repoTag(r)' = repoTag(r)
      BY SameNames DEF IInv, dockerBuild, BuildTimesOut
<1>2. described[r] # NoBinary => step[r] = "done"
      BY <1>1 DEF RunInv, StepInv
<1>3. UNCHANGED <<config, binary, registry, described, rebuilds, rebuilt>> /\ step[r] = "build"
      BY DEF dockerBuild, BuildTimesOut
<1>4. workDir' = [workDir EXCEPT ![r] = NoBinary] /\ workDir[r] \in Binaries
      BY <1>1, <1>3 DEF dockerBuild, BuildTimesOut, RunInv, StepInv
<1>5. PICK s \in {"yaml", "tag", "failed"} : step' = [step EXCEPT ![r] = s]
      BY DEF dockerBuild, BuildTimesOut
<1>6. images' \in {images, With(images, image(r), workDir[r])}
      BY DEF dockerBuild, BuildTimesOut
<1>7. TypeOK'
  <2>1. step' \in [Runs -> Steps] /\ workDir' \in [Runs -> Binaries \cup {NoBinary}]
        BY <1>1, <1>4, <1>5 DEF TypeOK, Steps
  <2>2. \A n \in DOMAIN images' : images'[n] \in Binaries
    <3>1. \A n \in DOMAIN images : images[n] \in Binaries
          BY <1>1 DEF TypeOK
    <3> QED BY <1>4, <1>6, <3>1 DEF With
  <2>3. DOMAIN images \subseteq DOMAIN images'
        BY <1>6 DEF With
  <2> QED BY <1>1, <1>3, <2>1, <2>2, <2>3 DEF TypeOK
<1>8. ASSUME NEW q \in Runs, q # r
      PROVE  RunInv(q)'
  <2>1. step'[q] = step[q] /\ workDir'[q] = workDir[q]
        BY <1>1, <1>4, <1>5, <1>8 DEF TypeOK
  <2>2. \A n \in DOMAIN images :
           n \in DOMAIN images' /\ (n \notin Names(r) => images'[n] = images[n])
        BY <1>6 DEF With, Names
  <2> QED BY <1>3, <1>8, <2>1, <2>2, OthersKeepImages
<1>9. RunInv(r)'
  <2>1. CASE s = "failed"
        BY <1>1, <1>2, <1>3, <1>4, <1>5, <2>1 DEF TypeOK, RunInv, StepInv, CopyInv, ImageInv
  <2>2. CASE s # "failed"
    <3>1. /\ images' = With(images, image(r), workDir[r])
          /\ step'[r] = IF config[r].Repo = "" THEN "yaml" ELSE "tag"
          BY <1>1, <1>5, <2>2 DEF dockerBuild, BuildTimesOut, TypeOK
    <3>2. image(r) \in DOMAIN images' /\ images'[image(r)] = workDir[r]
          BY <3>1 DEF With
    <3>3. StepInv(r)'
          BY <1>1, <1>2, <1>3, <3>1, <3>2 DEF StepInv
    <3>4. CopyInv(r)'
          BY <1>1, <1>2, <1>3, <3>1 DEF RunInv, CopyInv
    <3>5. ImageInv(r)'
          BY <1>1, <1>3, <3>1, <3>2 DEF RunInv, CopyInv, ImageInv
    <3> QED BY <3>3, <3>4, <3>5 DEF RunInv
  <2> QED BY <2>1, <2>2
<1> QED BY <1>7, <1>8, <1>9 DEF IInv

LEMMA TagKeeps ==
    ASSUME IInv, NEW r \in Runs, TagImage(r)
    PROVE  IInv'
<1> USE DEF Goto
<1>1. RunInv(r) /\ TypeOK /\ image(r)' = image(r) /\ repoTag(r)' = repoTag(r)
      BY SameNames DEF IInv, TagImage
<1>2. described[r] # NoBinary => step[r] = "done"
      BY <1>1 DEF RunInv, StepInv
<1>3. /\ UNCHANGED <<config, binary, workDir, registry, described, rebuilds, rebuilt>>
      /\ step[r] = "tag" /\ config[r].Repo # "" /\ image(r) \in DOMAIN images
      BY <1>1 DEF TagImage, RunInv, StepInv
<1>4. PICK s \in {"push", "failed"} :
         /\ step' = [step EXCEPT ![r] = s]
         /\ s = "push" => images' = With(images, repoTag(r), images[image(r)])
      BY DEF TagImage
<1>5. images' \in {images, With(images, repoTag(r), images[image(r)])}
      BY DEF TagImage
<1>6. TypeOK'
  <2>1. step' \in [Runs -> Steps]
        BY <1>1, <1>4 DEF TypeOK, Steps
  <2>2. \A n \in DOMAIN images' : images'[n] \in Binaries
        BY <1>1, <1>3, <1>5 DEF TypeOK, With
  <2>3. DOMAIN images \subseteq DOMAIN images'
        BY <1>5 DEF With
  <2> QED BY <1>1, <1>3, <2>1, <2>2, <2>3 DEF TypeOK
<1>7. ASSUME NEW q \in Runs, q # r
      PROVE  RunInv(q)'
  <2>1. step'[q] = step[q]
        BY <1>1, <1>4, <1>7 DEF TypeOK
  <2>2. \A n \in DOMAIN images :
           n \in DOMAIN images' /\ (n \notin Names(r) => images'[n] = images[n])
        BY <1>3, <1>5 DEF With, Names
  <2> QED BY <1>3, <1>7, <2>1, <2>2, OthersKeepImages
<1>8. RunInv(r)'
  <2>1. CASE s = "failed"
        BY <1>1, <1>2, <1>3, <1>4, <2>1 DEF TypeOK, RunInv, StepInv, CopyInv, ImageInv
  <2>2. CASE s = "push"
    <3>1. step'[r] = "push" /\ images' = With(images, repoTag(r), images[image(r)])
          BY <1>1, <1>4, <2>2 DEF TypeOK
    <3>2. /\ image(r) \in DOMAIN images' /\ images'[image(r)] = images[image(r)]
          /\ repoTag(r) \in DOMAIN images' /\ images'[repoTag(r)] = images[image(r)]
          BY <1>3, <3>1 DEF With
    <3>3. StepInv(r)'
          BY <1>1, <1>2, <1>3, <3>1, <3>2 DEF StepInv
    <3>4. CopyInv(r)'
          BY <1>1, <1>2, <1>3, <3>1 DEF RunInv, CopyInv
    <3>5. ImageInv(r)'
          BY <1>1, <1>3, <3>1, <3>2 DEF RunInv, ImageInv
    <3> QED BY <3>3, <3>4, <3>5 DEF RunInv
  <2> QED BY <2>1, <2>2
<1> QED BY <1>6, <1>7, <1>8 DEF IInv

LEMMA PushKeeps ==
    ASSUME IInv, NEW r \in Runs, PushImage(r)
    PROVE  IInv'
<1> USE DEF Goto
<1>1. RunInv(r) /\ TypeOK /\ image(r)' = image(r) /\ repoTag(r)' = repoTag(r)
      BY SameNames DEF IInv, PushImage
<1>2. described[r] # NoBinary => step[r] = "done"
      BY <1>1 DEF RunInv, StepInv
<1>3. /\ UNCHANGED <<config, binary, workDir, images, described, rebuilds, rebuilt>>
      /\ step[r] = "push" /\ config[r].Repo # ""
      /\ image(r) \in DOMAIN images /\ repoTag(r) \in DOMAIN images
      BY <1>1 DEF PushImage, RunInv, StepInv
<1>4. PICK s \in {"yaml", "failed"} :
         /\ step' = [step EXCEPT ![r] = s]
         /\ s = "yaml" => registry' = With(registry, repoTag(r), images[repoTag(r)])
      BY DEF PushImage
<1>5. registry' \in {registry, With(registry, repoTag(r), images[repoTag(r)])}
      BY DEF PushImage
<1>6. TypeOK'
  <2>1. step' \in [Runs -> Steps]
        BY <1>1, <1>4 DEF TypeOK, Steps
  <2>2. repoTag(r).repo = config[r].Repo
        BY DEF repoTag, Name
  <2>3. ASSUME NEW n \in DOMAIN registry'
        PROVE  /\ n \in DOMAIN images /\ registry'[n] \in Binaries
               /\ \E q \in Runs : config[q].Repo # "" /\ n.repo = config[q].Repo
    <3>1. CASE n \in DOMAIN registry /\ registry'[n] = registry[n]
          BY <1>1, <3>1 DEF TypeOK
    <3>2. CASE n = repoTag(r) /\ registry'[n] = images[repoTag(r)]
          BY <1>1, <1>3, <2>2, <3>2 DEF TypeOK
    <3> QED BY <1>5, <2>3, <3>1, <3>2 DEF With
  <2> QED BY <1>1, <1>3, <2>1, <2>3 DEF TypeOK
<1>7. ASSUME NEW q \in Runs, q # r
      PROVE  RunInv(q)'
  <2>1. step'[q] = step[q]
        BY <1>1, <1>4, <1>7 DEF TypeOK
  <2>2. \A n \in DOMAIN registry :
           n \in DOMAIN registry' /\ (n \notin Names(r) => registry'[n] = registry[n])
        BY <1>3, <1>5 DEF With, Names
  <2> QED BY <1>3, <1>7, <2>1, <2>2, OthersKeepImages
<1>8. RunInv(r)'
  <2>1. CASE s = "failed"
        BY <1>1, <1>2, <1>3, <1>4, <2>1 DEF TypeOK, RunInv, StepInv, CopyInv, ImageInv
  <2>2. CASE s = "yaml"
    <3>1. step'[r] = "yaml" /\ registry' = With(registry, repoTag(r), images[repoTag(r)])
          BY <1>1, <1>4, <2>2 DEF TypeOK
    <3>2. repoTag(r) \in DOMAIN registry' /\ registry'[repoTag(r)] = images[repoTag(r)]
          BY <3>1 DEF With
    <3>3. StepInv(r)'
          BY <1>1, <1>2, <1>3, <3>1, <3>2 DEF StepInv
    <3>4. CopyInv(r)'
          BY <1>1, <1>2, <1>3, <3>1 DEF RunInv, CopyInv
    <3>5. ImageInv(r)'
          BY <1>1, <1>3, <3>1, <3>2 DEF RunInv, ImageInv
    <3> QED BY <3>3, <3>4, <3>5 DEF RunInv
  <2> QED BY <2>1, <2>2
<1> QED BY <1>6, <1>7, <1>8 DEF IInv

LEMMA RebuildKeeps ==
    ASSUME IInv, Rebuild
    PROVE  IInv'
<1>1. UNCHANGED <<config, step, workDir, images, registry, described>>
      BY DEF Rebuild
<1>2. TypeOK'
  <2>1. TypeOK
        BY DEF IInv
  <2>2. binary' \in Binaries /\ rebuilds' \in 0 .. MaxRebuilds
    <3>1. MaxRebuilds \in Nat /\ rebuilds \in 0 .. MaxRebuilds
          BY <2>1, DeployAssumption DEF TypeOK
    <3> QED BY <3>1 DEF Rebuild
  <2>3. rebuilt' \in [Runs -> BOOLEAN]
    <3> DEFINE after(r) == rebuilt[r] \/ step[r] \in Copied
    <3>1. rebuilt' = [r \in Runs |-> after(r)]
          BY DEF Rebuild
    <3>2. ASSUME NEW r \in Runs
          PROVE  after(r) \in BOOLEAN
      <4>1. rebuilt[r] \in BOOLEAN
            BY <2>1 DEF TypeOK
      <4> QED BY <4>1
    <3> HIDE DEF after
    <3> QED BY <3>1, <3>2
  <2> QED BY <1>1, <2>1, <2>2, <2>3 DEF TypeOK
<1>3. ASSUME NEW r \in Runs
      PROVE  RunInv(r)'
  <2>1. RunInv(r) /\ image(r)' = image(r) /\ repoTag(r)' = repoTag(r)
        BY <1>1, <1>3, SameNames DEF IInv
  <2>2. rebuilt'[r] = (rebuilt[r] \/ step[r] \in Copied)
        BY DEF Rebuild
  <2>3. StepInv(r)'
        BY <1>1, <2>1 DEF RunInv, StepInv
  <2>4. CopyInv(r)'
        BY <1>1, <2>1, <2>2 DEF RunInv, CopyInv, Copied
  <2>5. ImageInv(r)'
        BY <1>1, <2>1, <2>2 DEF RunInv, ImageInv, Deployed, Copied
  <2> QED BY <2>3, <2>4, <2>5 DEF RunInv
<1> QED BY <1>2, <1>3 DEF IInv
-------------------------------------------------------------------------------
LEMMA InitIInv == Init => IInv
<1> SUFFICES ASSUME Init PROVE IInv
    OBVIOUS
<1>1. TypeOK
  <2>1. DOMAIN images = {} /\ DOMAIN registry = {}
        BY DEF Init
  <2>2. step \in [Runs -> Steps] /\ workDir \in [Runs -> Binaries \cup {NoBinary}]
        BY DEF Init, Steps
  <2>3. described \in [Runs -> Binaries \cup {NoBinary}] /\ rebuilt \in [Runs -> BOOLEAN]
        BY DEF Init
  <2>4. rebuilds \in 0 .. MaxRebuilds
    <3>1. MaxRebuilds \in Nat
          BY DeployAssumption
    <3> QED BY <3>1 DEF Init
  <2>5. (\A n \in DOMAIN images : images[n] \in Binaries) /\ config \in [Runs -> Configs] /\ binary \in Binaries
        BY <2>1 DEF Init
  <2> QED BY <2>1, <2>2, <2>3, <2>4, <2>5 DEF TypeOK
<1>2. \A r \in Runs : RunInv(r)
      BY DEF Init, RunInv, StepInv, CopyInv, ImageInv
<1> QED BY <1>1, <1>2 DEF IInv

LEMMA NextIInv == IInv /\ [Next]_vars => IInv'
<1> SUFFICES ASSUME IInv, [Next]_vars PROVE IInv'
    OBVIOUS
<1>1. CASE Rebuild
      BY <1>1, RebuildKeeps
<1>2. ASSUME NEW r \in Runs, OwnStep(r) \/ OtherStep(r)
      PROVE  IInv'
      BY <1>2, OwnKeeps, BuildKeeps, TagKeeps, PushKeeps DEF OwnStep, OtherStep
<1>3. CASE UNCHANGED vars
  <2>1. ASSUME NEW r \in Runs
        PROVE  RunInv(r)'
        BY <1>3, <2>1, OthersKeep DEF IInv, vars
  <2> QED BY <1>3, <2>1 DEF IInv, TypeOK, vars
<1> QED BY <1>1, <1>2, <1>3 DEF Next
-------------------------------------------------------------------------------
(* The theorems. *)

\* The types of the variables of Deploy; in particular, an image in the
\* registry has the repository of a run's config file (docker.go:176-202).
THEOREM TypeCorrect == Spec => []TypeOK
<1>1. IInv => TypeOK
      BY DEF IInv
<1> QED BY <1>1, InitIInv, NextIInv, PTL DEF Spec

\* A YAML file and the image it names are of one binary, whatever other runs
\* build, tag and push, unless the config file fixes the name of the image or
\* the binary is rebuilt between the two times that the run reads it for them
\* (docker.go:67-72, 91, deploy.go:126-137).
THEOREM YAMLAndImageAgree == Spec => []YAMLMatchesImage
<1>1. IInv => YAMLMatchesImage
      BY DEF IInv, RunInv, ImageInv, YAMLMatchesImage
<1> QED BY <1>1, InitIInv, NextIInv, PTL DEF Spec
===============================================================================
