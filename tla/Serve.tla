-------------------------------- MODULE Serve --------------------------------
(***************************************************************************)
(* A babysitter's process (internal/tool/babysitter.go:43-66): it reads    *)
(* its config files, creates the babysitter, whose envelope starts the     *)
(* weavelet (internal/impl/babysitter.go:70-123), and runs Serve (125-     *)
(* 151).  Serve runs two goroutines in an errgroup, one that hands the     *)
(* metrics to the HandleMetrics plugin at every tick, if there is one, and *)
(* one that serves the weavelet until its envelope stops, and waits for    *)
(* both.  The group's context is derived from the babysitter's and is also *)
(* cancelled by the first goroutine that returns an error; only the        *)
(* metrics loop looks at it, the envelope has the babysitter's own.        *)
(* Meanwhile the envelope calls the babysitter's handlers (253-304), of    *)
(* which LogBatch is the one that takes several steps.                     *)
(***************************************************************************)
EXTENDS Integers, Sequences

VARIABLES
    opts,       \* the plugins, and what the config file says of metrics: see Options
    stage,      \* how far the process is: see Stages
    loop,       \* the metrics loop: about to make its ticker, at its select, in
                \* readMetrics, in the plugin, returned (or never started)
    envelope,   \* the goroutine in envelope.Serve
    weavelet,   \* the weavelet: not started, up or down
    tick,       \* the ticker's channel, which holds one tick
    parent,     \* is the babysitter's context cancelled?
    ctx,        \* is the group's context cancelled?
    err,        \* the group's error: that of the first goroutine that failed
    result,     \* what the process ended with, or "running"
    snapshot,   \* the metrics read last, which the plugin is given
    log         \* the LogBatch call: the entries still to come, those handed to
                \* the plugin or printer, those that failed, and the reply

telemetry == <<snapshot, log>>
vars == <<opts, stage, loop, envelope, weavelet, tick, parent, ctx, err, result, telemetry>>

\* HandleLogEntry and HandleMetrics: is there such a plugin?  The interval may
\* be anything that parses as a duration.
Options == [HandleLogEntry : BOOLEAN, HandleMetrics : BOOLEAN,
            AutoGenerateMetrics : BOOLEAN, ExportInterval : {0, 30}]

\* The metrics of the babysitter's own process and those of the weavelet.  Either
\* may have generated ones, which have a label that says so: they come with the
\* stubs of components, by which the babysitter calls its weavelet, too.
Metrics(from) == [from : {from}, generated : BOOLEAN]
OwnMetrics == Metrics("babysitter")
WeaveletMetrics == Metrics("weavelet")

\* A batch of log entries.
Entries == <<"first", "second", "third">>
Entry == {"first", "second", "third"}
NoBatch == [todo |-> <<>>, handed |-> {}, failed |-> {}, reply |-> "none"]

Errors == {"startup", "HandleMetrics", "envelope", "cancelled"}

\* Parsing the arguments and both config files, then NewBabysitter's steps:
\* creating the envelope and the Kubernetes client, and telling the weavelet
\* its components; then Serve.
Stages == {"parse", "envelope", "client", "components", "serve"}

TypeOK ==
    /\ opts \in Options
    /\ stage \in Stages
    /\ loop \in {"off", "start", "select", "read", "handle", "returned"}
    /\ envelope \in {"off", "serving", "returned"}
    /\ weavelet \in {"off", "up", "down"}
    /\ {tick, parent, ctx} \subseteq BOOLEAN
    /\ err \in Errors \cup {"none"}
    /\ result \in Errors \cup {"running", "panic"}
    /\ snapshot \subseteq OwnMetrics \cup WeaveletMetrics
    /\ log \in [todo : Seq(Entry), handed : SUBSET Entry, failed : SUBSET Entry,
               reply : {"none", "nil", "error"}]

Init ==
    /\ opts \in Options
    /\ stage = "parse"
    /\ loop = "off"
    /\ envelope = "off"
    /\ weavelet = "off"
    /\ tick = FALSE
    /\ parent = FALSE
    /\ ctx = FALSE
    /\ err = "none"
    /\ result = "running"
    /\ snapshot = {}
    /\ log = NoBatch
-------------------------------------------------------------------------------
\* A step of the startup goes wrong: the command returns the error.
StartupFails ==
    /\ result' = "startup"
    /\ UNCHANGED <<opts, stage, loop, envelope, weavelet, tick, parent, ctx, err, telemetry>>

\* parseWeaverConfig and parseBabysitterConfig.
Parse ==
    /\ stage = "parse"
    /\ result = "running"
    /\ \/ /\ stage' = "envelope"
          /\ UNCHANGED <<opts, loop, envelope, weavelet, tick, parent, ctx, err, result, telemetry>>
       \/ StartupFails

\* envelope.NewEnvelope starts the weavelet.
NewEnvelope ==
    /\ stage = "envelope"
    /\ result = "running"
    /\ \/ /\ stage' = "client"
          /\ weavelet' = "up"
          /\ UNCHANGED <<opts, loop, envelope, tick, parent, ctx, err, result, telemetry>>
       \/ StartupFails

\* rest.InClusterConfig and kubernetes.NewForConfig.
NewClient ==
    /\ stage = "client"
    /\ result = "running"
    /\ \/ /\ stage' = "components"
          /\ UNCHANGED <<opts, loop, envelope, weavelet, tick, parent, ctx, err, result, telemetry>>
       \/ StartupFails

\* UpdateComponents needs the weavelet.  Then Serve starts its goroutines.
UpdateComponents ==
    /\ stage = "components"
    /\ result = "running"
    /\ \/ /\ weavelet = "up"
          /\ stage' = "serve"
          /\ loop' = IF opts.HandleMetrics THEN "start" ELSE "returned"
          /\ envelope' = "serving"
          /\ ctx' = parent
          /\ UNCHANGED <<opts, weavelet, tick, parent, err, result, telemetry>>
       \/ StartupFails
-------------------------------------------------------------------------------
\* (Keeping the last error, and not cancelling, for mutations.)
LastError(e) ==
    /\ err' = e
    /\ ctx' = TRUE

ErrorWithoutCancel(e) ==
    /\ err' = IF err = "none" THEN e ELSE err
    /\ ctx' = ctx

\* A goroutine of the errgroup returns the error e: the first one is kept, and
\* cancels the group's context.
GroupError(e) ==
    /\ err' = IF err = "none" THEN e ELSE err
    /\ ctx' = TRUE

\* The metrics loop makes its ticker.  NewTicker panics if the interval is not
\* positive, which ends the process and the weavelet with it.
NewTicker ==
    /\ loop = "start"
    /\ \/ /\ opts.ExportInterval > 0
          /\ loop' = "select"
          /\ UNCHANGED <<envelope, weavelet, result>>
       \/ /\ opts.ExportInterval <= 0
          /\ result' = "panic"
          /\ loop' = "off" /\ envelope' = "off" /\ weavelet' = "down"
    /\ UNCHANGED <<opts, stage, tick, parent, ctx, err, telemetry>>

\* The ticker runs as long as the loop, and drops a tick that finds its channel
\* full.
Tick ==
    /\ loop \in {"select", "read", "handle"}
    /\ ~tick
    /\ tick' = TRUE
    /\ UNCHANGED <<opts, stage, loop, envelope, weavelet, parent, ctx, err, result, telemetry>>

\* case <-ticker.C
TakeTick ==
    /\ loop = "select"
    /\ tick
    /\ tick' = FALSE
    /\ loop' = "read"
    /\ UNCHANGED <<opts, stage, envelope, weavelet, parent, ctx, err, result, telemetry>>

\* case <-ctx.Done()
TakeDone ==
    /\ loop = "select"
    /\ ctx
    /\ loop' = "returned"
    /\ GroupError("cancelled")
    /\ UNCHANGED <<opts, stage, envelope, weavelet, tick, parent, result, telemetry>>

\* What is left of the metrics unless the config file asks for all.
filterMetrics(snaps, exportGeneratedMetrics) ==
    {m \in snaps : exportGeneratedMetrics \/ ~m.generated}

\* (All metrics, for a mutation.)
readUnfiltered ==
    /\ loop = "read"
    /\ loop' = "handle"
    /\ snapshot' = OwnMetrics \cup WeaveletMetrics
    /\ UNCHANGED <<opts, stage, envelope, weavelet, tick, parent, ctx, err, result, log>>

\* readMetrics adds the weavelet's metrics to the process's own.  GetMetrics may
\* fail, and does if the weavelet is down: then the plugin gets the others, and
\* gets them unfiltered.
readMetrics ==
    /\ loop = "read"
    /\ loop' = "handle"
    /\ \/ /\ weavelet = "up"
          /\ snapshot' = filterMetrics(OwnMetrics \cup WeaveletMetrics, opts.AutoGenerateMetrics)
       \/ snapshot' = OwnMetrics
    /\ UNCHANGED <<opts, stage, envelope, weavelet, tick, parent, ctx, err, result, log>>

\* The plugin returns nil, or an error of its own or of the context.
HandleMetrics ==
    /\ loop = "handle"
    /\ \/ /\ loop' = "select"
          /\ UNCHANGED <<ctx, err>>
       \/ /\ loop' = "returned"
          /\ GroupError("HandleMetrics")
    /\ UNCHANGED <<opts, stage, envelope, weavelet, tick, parent, result, telemetry>>

\* The envelope hands over a batch of log entries (bound: one call at a time;
\* calls share no state).
LogBatch ==
    /\ envelope = "serving"
    /\ log = NoBatch \/ log.reply # "none"
    /\ log' = [NoBatch EXCEPT !.todo = Entries]
    /\ UNCHANGED <<opts, stage, loop, envelope, weavelet, tick, parent, ctx, err, result, snapshot>>

\* The next entry goes to the plugin, which may fail, or else to the printer.
handled(fails) ==
    [log EXCEPT !.todo   = Tail(@),
                !.handed = @ \cup {Head(log.todo)},
                !.failed = IF fails THEN @ \cup {Head(log.todo)} ELSE @]

\* (Giving up at the first error, for a mutation.)
StopAtFirstError ==
    /\ log.todo # <<>>
    /\ result = "running"
    /\ \/ log' = handled(FALSE)
       \/ log' = [handled(TRUE) EXCEPT !.todo = <<>>]
    /\ UNCHANGED <<opts, stage, loop, envelope, weavelet, tick, parent, ctx, err, result, snapshot>>

handleLogEntry ==
    /\ log.todo # <<>>
    /\ result = "running"
    /\ \E fails \in IF opts.HandleLogEntry THEN BOOLEAN ELSE {FALSE} : log' = handled(fails)
    /\ UNCHANGED <<opts, stage, loop, envelope, weavelet, tick, parent, ctx, err, result, snapshot>>

\* LogBatch returns all errors there were, or nil.
LogReply ==
    /\ log # NoBatch
    /\ log.todo = <<>>
    /\ log.reply = "none"
    /\ result = "running"
    /\ log' = [log EXCEPT !.reply = IF log.failed = {} THEN "nil" ELSE "error"]
    /\ UNCHANGED <<opts, stage, loop, envelope, weavelet, tick, parent, ctx, err, result, snapshot>>

\* envelope.Serve stops, with an error, when the weavelet has terminated or
\* the babysitter's context is cancelled.
EnvelopeServe ==
    /\ envelope = "serving"
    /\ weavelet = "down" \/ parent
    /\ envelope' = "returned"
    /\ GroupError("envelope")
    /\ UNCHANGED <<opts, stage, loop, weavelet, tick, parent, result, telemetry>>

\* (Waiting for no goroutine, or for one of them, for mutations.)
ReturnAtOnce ==
    /\ result = "running"
    /\ stage = "serve"
    /\ result' = err
    /\ UNCHANGED <<opts, stage, loop, envelope, weavelet, tick, parent, ctx, err, telemetry>>

WaitForOne ==
    /\ result = "running"
    /\ "returned" \in {loop, envelope}
    /\ result' = err
    /\ UNCHANGED <<opts, stage, loop, envelope, weavelet, tick, parent, ctx, err, telemetry>>

\* group.Wait returns when both goroutines have.
Wait ==
    /\ result = "running"
    /\ loop = "returned"
    /\ envelope = "returned"
    /\ result' = err
    /\ UNCHANGED <<opts, stage, loop, envelope, weavelet, tick, parent, ctx, err, telemetry>>

WeaveletDies ==
    /\ weavelet = "up"
    /\ result = "running"
    /\ weavelet' = "down"
    /\ UNCHANGED <<opts, stage, loop, envelope, tick, parent, ctx, err, result, telemetry>>

\* The context given to NewBabysitter is cancelled, and the group's with it.
CancelParent ==
    /\ ~parent
    /\ parent' = TRUE
    /\ ctx' = (ctx \/ stage = "serve")
    /\ UNCHANGED <<opts, stage, loop, envelope, weavelet, tick, err, result, telemetry>>

Next ==
    \/ Parse \/ NewEnvelope \/ NewClient \/ UpdateComponents
    \/ NewTicker \/ Tick \/ TakeTick \/ TakeDone \/ readMetrics \/ HandleMetrics
    \/ LogBatch \/ handleLogEntry \/ LogReply
    \/ EnvelopeServe \/ Wait
    \/ WeaveletDies \/ CancelParent

Spec == Init /\ [][Next]_vars

\* Goroutines that can run do, the plugin returns, the ticker ticks.  Go's
\* select picks among its ready cases at random, so that a case that is ready
\* again and again is taken: strong fairness of both.
FairSpec ==
    /\ Spec
    /\ WF_vars(Parse) /\ WF_vars(NewEnvelope) /\ WF_vars(NewClient)
    /\ WF_vars(UpdateComponents) /\ WF_vars(NewTicker) /\ WF_vars(Tick)
    /\ SF_vars(TakeTick) /\ SF_vars(TakeDone)
    /\ WF_vars(readMetrics) /\ WF_vars(HandleMetrics)
    /\ WF_vars(handleLogEntry) /\ WF_vars(LogReply)
    /\ WF_vars(EnvelopeServe) /\ WF_vars(Wait)
-------------------------------------------------------------------------------
(* Properties. *)

\* When the weavelet terminates or the babysitter is cancelled, the process
\* ends, so that kubelet can start both again: even while ticks keep coming
\* and the metrics loop is busy.
ProcessEnds == weavelet = "down" \/ parent ~> result # "running"

\* The error of Serve is the cause, not its consequence: the cancellation that
\* one goroutine's failure brings about in the other never hides the failure.
CauseIsReported == result = "cancelled" => parent

\* After Serve has returned, the plugin is neither running nor called again.
NothingAfterServe == [][result # "running" => UNCHANGED loop]_vars

Wanted(m) == m.generated => opts.AutoGenerateMetrics

\* Whatever the weavelet does meanwhile, the plugin gets all metrics that the
\* config file asks for, or, when the weavelet cannot be asked, those of the
\* babysitter; and no others, but for generated ones of the babysitter's own in
\* that case (babysitter.go:322-350).
SnapshotIsFiltered ==
    loop = "handle" =>
       LET asked == snapshot \cap WeaveletMetrics # {}
       IN  /\ \A m \in OwnMetrics : Wanted(m) => m \in snapshot
           /\ \A m \in WeaveletMetrics : m \in snapshot <=> asked /\ Wanted(m)
           /\ \A m \in snapshot : Wanted(m) \/ ~asked

\* One entry that the plugin fails on costs none of the others, and no failure
\* goes unreported (babysitter.go:275-282).
BatchIsHandledWhole ==
    log.reply # "none" =>
       /\ log.handed = Entry
       /\ log.reply = "error" <=> log.failed # {}

\* "HandleMetrics is called periodically on a snapshot of all metric values"
\* (tool/tool.go:38): as long as the babysitter serves its weavelet.
MetricsKeepFlowing ==
    opts.HandleMetrics /\ opts.ExportInterval > 0 /\ envelope = "serving" ~>
       loop = "handle" \/ envelope = "returned" \/ weavelet = "down" \/ parent
===============================================================================
