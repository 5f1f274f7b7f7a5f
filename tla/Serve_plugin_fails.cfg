SPECIFICATION FairSpec
PROPERTY MetricsKeepFlowing
CHECK_DEADLOCK FALSE
