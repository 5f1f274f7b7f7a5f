SPECIFICATION FairSpec
INVARIANTS TypeOK CauseIsReported SnapshotIsFiltered BatchIsHandledWhole
PROPERTIES ProcessEnds NothingAfterServe
CHECK_DEADLOCK FALSE
