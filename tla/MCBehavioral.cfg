\* Two leaders that batch up to three tasks, two followers.
SPECIFICATION FairBehSpec
CONSTANTS
  NUM_TASKS = 7
  NUM_LEADERS = 2
  NUM_FOLLOWERS = 2
  BATCH_ENQUEUE = 3
  DISPATCH_TIMES <- SomeTimes
  INTERARRIVALS <- SomeTimes
  DURATIONS <- SomeDurations
INVARIANTS TaskInOnePlace NoLostWakeup StartsFollowEnqueues TotalsAtExit LeadersKeepArrivalOrder
PROPERTY AllTasksFinish
CHECK_DEADLOCK FALSE
