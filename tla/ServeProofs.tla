----------------------------- MODULE ServeProofs -----------------------------
(***************************************************************************)
(* Proofs about Serve: its type correctness; the error a babysitter ends   *)
(* with is the cause of its end; nothing runs any more when Serve has      *)
(* returned; and what the plugins are given.                               *)
(***************************************************************************)
EXTENDS Serve, TLAPS

\* While no goroutine of the group has failed, the group's context is
\* cancelled only if the babysitter's is; so the metrics loop's "cancelled" is
\* the first error only then.
CauseInv ==
    /\ err = "none" /\ ctx => parent
    /\ err = "cancelled" => parent
    /\ CauseIsReported

LEMMA CauseInit == Init => CauseInv
BY DEF Init, CauseInv, CauseIsReported

LEMMA CauseStep == CauseInv /\ [Next]_vars => CauseInv'
<1> SUFFICES ASSUME CauseInv, [Next]_vars PROVE CauseInv'
    OBVIOUS
<1> USE DEF CauseInv, CauseIsReported
<1>1. CASE Parse \/ NewEnvelope \/ NewClient
      BY <1>1 DEF Parse, NewEnvelope, NewClient, StartupFails
<1>2. CASE UpdateComponents
      BY <1>2 DEF UpdateComponents, StartupFails
<1>3. CASE NewTicker \/ Tick \/ TakeTick \/ readMetrics \/ WeaveletDies
      BY <1>3 DEF NewTicker, Tick, TakeTick, readMetrics, WeaveletDies
<1>4. CASE TakeDone
      BY <1>4 DEF TakeDone, GroupError
<1>5. CASE HandleMetrics
      BY <1>5 DEF HandleMetrics, GroupError
<1>6. CASE EnvelopeServe
      BY <1>6 DEF EnvelopeServe, GroupError
<1>7. CASE Wait
      BY <1>7 DEF Wait
<1>8. CASE CancelParent
      BY <1>8 DEF CancelParent
<1>9. CASE LogBatch \/ handleLogEntry \/ LogReply
  <2>1. UNCHANGED <<parent, ctx, err, result>>
        BY <1>9 DEF LogBatch, handleLogEntry, LogReply
  <2> QED BY <2>1
<1>10. CASE UNCHANGED vars
      BY <1>10 DEF vars
<1> QED BY <1>1, <1>2, <1>3, <1>4, <1>5, <1>6, <1>7, <1>8, <1>9, <1>10 DEF Next

\* Serve reports a cancellation only if the babysitter was cancelled: the one
\* that a failing goroutine brings about in the other never hides the failure
\* (babysitter.go:126-150).
THEOREM CauseReported == Spec => []CauseIsReported
<1>1. CauseInv => CauseIsReported
      BY DEF CauseInv
<1> QED BY <1>1, CauseInit, CauseStep, PTL DEF Spec
-------------------------------------------------------------------------------
\* A goroutine that has returned has left an error, and the metrics loop runs
\* only while the process does.
ReturnInv ==
    /\ envelope = "returned" => err # "none"
    /\ stage # "serve" => loop = "off"
    /\ result # "running" => loop \in {"off", "returned"}

LEMMA ReturnInit == Init => ReturnInv
BY DEF Init, ReturnInv

LEMMA ReturnStep == ReturnInv /\ [Next]_vars => ReturnInv'
<1> SUFFICES ASSUME ReturnInv, [Next]_vars PROVE ReturnInv'
    OBVIOUS
<1> USE DEF ReturnInv
<1>1. CASE Parse \/ NewEnvelope \/ NewClient
      BY <1>1 DEF Parse, NewEnvelope, NewClient, StartupFails
<1>2. CASE UpdateComponents
      BY <1>2 DEF UpdateComponents, StartupFails
<1>3. CASE NewTicker
      BY <1>3 DEF NewTicker
<1>4. CASE Tick \/ TakeTick \/ readMetrics \/ WeaveletDies \/ CancelParent
      BY <1>4 DEF Tick, TakeTick, readMetrics, WeaveletDies, CancelParent
<1>5. CASE TakeDone
      BY <1>5 DEF TakeDone, GroupError
<1>6. CASE HandleMetrics
      BY <1>6 DEF HandleMetrics, GroupError
<1>7. CASE EnvelopeServe
      BY <1>7 DEF EnvelopeServe, GroupError
<1>8. CASE Wait
      BY <1>8 DEF Wait
<1>9. CASE LogBatch \/ handleLogEntry \/ LogReply
  <2>1. UNCHANGED <<stage, loop, envelope, err, result>>
        BY <1>9 DEF LogBatch, handleLogEntry, LogReply
  <2> QED BY <2>1
<1>10. CASE UNCHANGED vars
      BY <1>10 DEF vars
<1> QED BY <1>1, <1>2, <1>3, <1>4, <1>5, <1>6, <1>7, <1>8, <1>9, <1>10 DEF Next

\* Once the process has ended, the metrics loop neither runs nor starts
\* (babysitter.go:126-150).
THEOREM NothingRunsAfterServe == Spec => NothingAfterServe
<1>1. ReturnInv /\ [Next]_vars => [result # "running" => UNCHANGED loop]_vars
  <2> SUFFICES ASSUME ReturnInv, Next, result # "running" PROVE UNCHANGED loop
      OBVIOUS
  <2> USE DEF ReturnInv
  <2>1. CASE Parse \/ NewEnvelope \/ NewClient \/ UpdateComponents \/ WeaveletDies
        BY <2>1 DEF Parse, NewEnvelope, NewClient, UpdateComponents, WeaveletDies
  <2>2. CASE NewTicker \/ Tick \/ TakeTick \/ TakeDone \/ readMetrics \/ HandleMetrics
        BY <2>2 DEF NewTicker, Tick, TakeTick, TakeDone, readMetrics, HandleMetrics
  <2>3. CASE LogBatch \/ handleLogEntry \/ LogReply
        BY <2>3 DEF LogBatch, handleLogEntry, LogReply
  <2>4. CASE EnvelopeServe \/ Wait \/ CancelParent
        BY <2>4 DEF EnvelopeServe, Wait, CancelParent
  <2> QED BY <2>1, <2>2, <2>3, <2>4 DEF Next
<1> QED BY <1>1, ReturnInit, ReturnStep, PTL DEF Spec, NothingAfterServe
-------------------------------------------------------------------------------
LEMMA TypeInit == Init => TypeOK
<1>1. NoBatch \in [todo : Seq(Entry), handed : SUBSET Entry, failed : SUBSET Entry,
                  reply : {"none", "nil", "error"}]
  <2>1. <<>> \in Seq(Entry)
        OBVIOUS
  <2> QED BY <2>1 DEF NoBatch
<1> QED BY <1>1 DEF Init, TypeOK, Stages, Errors

LEMMA TypeStep == TypeOK /\ ReturnInv /\ [Next]_vars => TypeOK'
<1> SUFFICES ASSUME TypeOK, ReturnInv, [Next]_vars PROVE TypeOK'
    OBVIOUS
<1> USE DEF TypeOK, telemetry
<1>1. CASE Parse \/ NewEnvelope \/ NewClient \/ UpdateComponents
      BY <1>1 DEF Parse, NewEnvelope, NewClient, UpdateComponents, StartupFails, Stages, Errors
<1>2. CASE NewTicker \/ Tick \/ TakeTick
      BY <1>2 DEF NewTicker, Tick, TakeTick
<1>3. CASE TakeDone \/ HandleMetrics \/ EnvelopeServe
      BY <1>3 DEF TakeDone, HandleMetrics, EnvelopeServe, GroupError, Errors
<1>4. CASE readMetrics
  <2>1. snapshot' \subseteq OwnMetrics \cup WeaveletMetrics
        BY <1>4 DEF readMetrics, filterMetrics
  <2>2. UNCHANGED <<opts, stage, envelope, weavelet, tick, parent, ctx, err, result, log>>
        /\ loop' = "handle"
        BY <1>4 DEF readMetrics
  <2> QED BY <2>1, <2>2
<1>5. CASE LogBatch
  <2>1. Entries \in Seq(Entry)
        BY DEF Entries, Entry
  <2> QED BY <1>5, <2>1 DEF LogBatch, NoBatch
<1>6. CASE handleLogEntry
  <2>1. Head(log.todo) \in Entry /\ Tail(log.todo) \in Seq(Entry)
        BY <1>6 DEF handleLogEntry
  <2>2. PICK fails \in BOOLEAN : log' = handled(fails)
        BY <1>6 DEF handleLogEntry
  <2>3. log' \in [todo : Seq(Entry), handed : SUBSET Entry, failed : SUBSET Entry,
                  reply : {"none", "nil", "error"}]
        BY <2>1, <2>2 DEF handled
  <2> QED BY <1>6, <2>3 DEF handleLogEntry
<1>7. CASE LogReply
  <2>1. PICK reply \in {"nil", "error"} : log' = [log EXCEPT !.reply = reply]
        BY <1>7 DEF LogReply
  <2> QED BY <1>7, <2>1 DEF LogReply
<1>8. CASE Wait
      BY <1>8 DEF Wait, Errors, ReturnInv
<1>9. CASE WeaveletDies \/ CancelParent
      BY <1>9 DEF WeaveletDies, CancelParent
<1>10. CASE UNCHANGED vars
      BY <1>10 DEF vars
<1> QED BY <1>1, <1>2, <1>3, <1>4, <1>5, <1>6, <1>7, <1>8, <1>9, <1>10 DEF Next

\* Every variable keeps its type.
THEOREM TypeCorrect == Spec => []TypeOK
BY TypeInit, TypeStep, ReturnInit, ReturnStep, PTL DEF Spec
-------------------------------------------------------------------------------
\* Whatever the weavelet does and the config file says, the plugin is given the
\* wanted metrics of both processes, or, when the weavelet cannot be asked, all
\* those of the babysitter, wanted or not (babysitter.go:322-350).
THEOREM SnapshotsAreFiltered == Spec => []SnapshotIsFiltered
<1>1. Init => SnapshotIsFiltered
      BY DEF Init, SnapshotIsFiltered
<1>2. SnapshotIsFiltered /\ [Next]_vars => SnapshotIsFiltered'
  <2> SUFFICES ASSUME SnapshotIsFiltered, [Next]_vars, loop' = "handle"
               PROVE  SnapshotIsFiltered'
      BY DEF SnapshotIsFiltered
  <2>1. CASE readMetrics
    <3>1. UNCHANGED opts
          BY <2>1 DEF readMetrics
    <3>2. OwnMetrics \cap WeaveletMetrics = {}
          BY DEF OwnMetrics, WeaveletMetrics, Metrics
    <3>3. CASE snapshot' = OwnMetrics
          BY <3>1, <3>2, <3>3 DEF SnapshotIsFiltered, Wanted
    <3>4. CASE snapshot' = filterMetrics(OwnMetrics \cup WeaveletMetrics, opts.AutoGenerateMetrics)
      <4>1. \A m \in OwnMetrics \cup WeaveletMetrics : m \in snapshot' <=> Wanted(m)'
        <5>1. \A m \in OwnMetrics \cup WeaveletMetrics : m.generated \in BOOLEAN
              BY DEF OwnMetrics, WeaveletMetrics, Metrics
        <5> QED BY <3>1, <3>4, <5>1 DEF filterMetrics, Wanted
      <4>2. snapshot' \subseteq OwnMetrics \cup WeaveletMetrics
            BY <3>4 DEF filterMetrics
      <4>3. \E m \in WeaveletMetrics : m \in snapshot'
        <5> DEFINE m == [from |-> "weavelet", generated |-> FALSE]
        <5>1. m \in WeaveletMetrics /\ ~m.generated
              BY DEF WeaveletMetrics, Metrics
        <5>2. Wanted(m)'
              BY <5>1 DEF Wanted
        <5> HIDE DEF m
        <5> QED BY <4>1, <5>1, <5>2
      <4> QED BY <4>1, <4>2, <4>3 DEF SnapshotIsFiltered
    <3> QED BY <2>1, <3>3, <3>4 DEF readMetrics
  <2>2. CASE UNCHANGED <<opts, snapshot, loop>>
        BY <2>2 DEF SnapshotIsFiltered, Wanted
  <2>3. readMetrics \/ UNCHANGED <<opts, snapshot, loop>>
    <3>1. CASE Parse \/ NewEnvelope \/ NewClient \/ UpdateComponents
          BY <3>1 DEF Parse, NewEnvelope, NewClient, UpdateComponents, StartupFails, telemetry
    <3>2. CASE NewTicker \/ Tick \/ TakeTick \/ TakeDone \/ HandleMetrics
          BY <3>2 DEF NewTicker, Tick, TakeTick, TakeDone, HandleMetrics, telemetry
    <3>3. CASE LogBatch \/ handleLogEntry \/ LogReply
          BY <3>3 DEF LogBatch, handleLogEntry, LogReply
    <3>4. CASE EnvelopeServe \/ Wait \/ WeaveletDies \/ CancelParent
          BY <3>4 DEF EnvelopeServe, Wait, WeaveletDies, CancelParent, telemetry
    <3>5. CASE UNCHANGED vars
          BY <3>5 DEF vars, telemetry
    <3> QED BY <3>1, <3>2, <3>3, <3>4, <3>5 DEF Next
  <2> QED BY <2>1, <2>2, <2>3
<1> QED BY <1>1, <1>2, PTL DEF Spec

\* During a call every entry has been handed over or is still to come.
BatchInv ==
    /\ log # NoBatch =>
          \A e \in Entry : e \in log.handed \/ \E i \in 1 .. Len(log.todo) : log.todo[i] = e
    /\ log.reply # "none" =>
          /\ log # NoBatch
          /\ log.todo = <<>>
          /\ log.reply = "error" <=> log.failed # {}

LEMMA BatchStep == TypeOK /\ BatchInv /\ [Next]_vars => BatchInv'
<1> SUFFICES ASSUME TypeOK, BatchInv, [Next]_vars PROVE BatchInv'
    OBVIOUS
<1>1. CASE LogBatch
  <2>1. log' = [todo |-> Entries, handed |-> {}, failed |-> {}, reply |-> "none"]
        BY <1>1 DEF LogBatch, NoBatch
  <2>2. \A e \in Entry : \E i \in 1 .. Len(Entries) : Entries[i] = e
        BY DEF Entries, Entry
  <2> QED BY <2>1, <2>2 DEF BatchInv
<1>2. CASE handleLogEntry
  <2>1. PICK fails \in BOOLEAN : log' = handled(fails)
        BY <1>2 DEF handleLogEntry
  <2> DEFINE s == log.todo
  <2>2. s \in Seq(Entry) /\ s # <<>> /\ log.handed \in SUBSET Entry
        BY <1>2 DEF handleLogEntry, TypeOK
  <2>3. log'.todo = Tail(s) /\ log'.handed = log.handed \cup {Head(s)} /\ log'.reply = log.reply
        BY <2>1 DEF handled, TypeOK
  <2>4. log # NoBatch /\ log.reply = "none"
        BY <2>2 DEF NoBatch, BatchInv
  <2>5. ASSUME NEW e \in Entry, e # Head(s), NEW i \in 1 .. Len(s), s[i] = e
        PROVE  \E j \in 1 .. Len(Tail(s)) : Tail(s)[j] = e
    <3>1. Len(s) \in Nat /\ Len(Tail(s)) = Len(s) - 1 /\ Head(s) = s[1]
          BY <2>2
    <3>2. i # 1
          BY <2>5, <3>1
    <3>3. i - 1 \in 1 .. Len(Tail(s))
          BY <3>1, <3>2
    <3>4. Tail(s)[i - 1] = s[i]
          BY <2>2, <3>1, <3>3
    <3> QED BY <2>5, <3>3, <3>4
  <2>6. \A e \in Entry : e \in log'.handed \/ \E j \in 1 .. Len(log'.todo) : log'.todo[j] = e
    <3> SUFFICES ASSUME NEW e \in Entry, e \notin log'.handed
                 PROVE  \E j \in 1 .. Len(log'.todo) : log'.todo[j] = e
        OBVIOUS
    <3>1. e \notin log.handed /\ e # Head(s)
          BY <2>3
    <3>2. PICK i \in 1 .. Len(s) : s[i] = e
          BY <2>4, <3>1 DEF BatchInv
    <3> QED BY <2>3, <2>5, <3>1, <3>2
  <2> QED BY <2>3, <2>4, <2>6 DEF BatchInv
<1>3. CASE LogReply
  <2>1. log' = [log EXCEPT !.reply = IF log.failed = {} THEN "nil" ELSE "error"]
        /\ log # NoBatch /\ log.todo = <<>>
        BY <1>3 DEF LogReply
  <2>2. log'.todo = log.todo /\ log'.handed = log.handed /\ log'.failed = log.failed
        /\ log'.reply = IF log.failed = {} THEN "nil" ELSE "error"
        BY <2>1 DEF TypeOK
  <2>3. log' # NoBatch
        BY <2>2 DEF NoBatch
  <2> QED BY <2>1, <2>2, <2>3 DEF BatchInv
<1>4. CASE UNCHANGED log
  <2>1. NoBatch' = NoBatch
        BY DEF NoBatch
  <2> QED BY <1>4, <2>1 DEF BatchInv
<1>5. LogBatch \/ handleLogEntry \/ LogReply \/ UNCHANGED log
  <2>1. CASE Parse \/ NewEnvelope \/ NewClient \/ UpdateComponents
        BY <2>1 DEF Parse, NewEnvelope, NewClient, UpdateComponents, StartupFails, telemetry
  <2>2. CASE NewTicker \/ Tick \/ TakeTick \/ TakeDone \/ readMetrics \/ HandleMetrics
        BY <2>2 DEF NewTicker, Tick, TakeTick, TakeDone, readMetrics, HandleMetrics, telemetry
  <2>3. CASE EnvelopeServe \/ Wait \/ WeaveletDies \/ CancelParent
        BY <2>3 DEF EnvelopeServe, Wait, WeaveletDies, CancelParent, telemetry
  <2>4. CASE UNCHANGED vars
        BY <2>4 DEF vars, telemetry
  <2> QED BY <2>1, <2>2, <2>3, <2>4 DEF Next
<1> QED BY <1>1, <1>2, <1>3, <1>4, <1>5

\* A LogBatch call that returns has handed every entry over, also those after
\* one that failed, and reports a failure (babysitter.go:275-282).
THEOREM BatchesAreHandledWhole == Spec => []BatchIsHandledWhole
<1>1. Init => BatchInv
      BY DEF Init, BatchInv, NoBatch
<1>2. TypeOK /\ BatchInv => BatchIsHandledWhole
  <2> SUFFICES ASSUME TypeOK, BatchInv, log.reply # "none" PROVE BatchIsHandledWhole
      BY DEF BatchIsHandledWhole
  <2>1. Len(log.todo) = 0
        BY DEF BatchInv
  <2>2. Entry \subseteq log.handed
        BY <2>1 DEF BatchInv
  <2>3. log.handed \subseteq Entry
        BY DEF TypeOK
  <2> QED BY <2>2, <2>3 DEF BatchInv, BatchIsHandledWhole
<1> QED BY <1>1, <1>2, BatchStep, TypeCorrect, PTL DEF Spec
===============================================================================
