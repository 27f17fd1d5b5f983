\* Five bridge transactions, pages of two, a channel of two batches, two
\* failed polls.
CONSTANTS
    NumTx = 5
    Limit = 2
    ChanCap = 2
    MaxFailures = 2
    None = None
SPECIFICATION FairSpec
INVARIANTS TypeOK PagesInOrderOnce
PROPERTIES EveryTxProcessed ImplementsBridgeFeed
\* The task polls forever; once every transaction is processed and the
\* failures are spent, a poll only finds an empty page.
CHECK_DEADLOCK FALSE
