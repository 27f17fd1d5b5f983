\* Live Rows(2), live Checkpoints(3) and migration splitting; the bounds are
\* in MCBatchingModes.
SPECIFICATION Spec
INVARIANTS TypeOK OrderPreserved FilesWellFormed SizeThresholdRespected
           FollowsIndex InitialWatermarkEpoch
\* The chain is finite: once every checkpoint is committed nothing is left to do.
CHECK_DEADLOCK FALSE
