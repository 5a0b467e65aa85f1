SPECIFICATION FairSpec
CONSTANTS
  h1 = h1  h2 = h2  p1 = p1  p2 = p2  x1 = x1  x3 = x3
  Threads <- TwoThreads
  Pushers <- TwoPushers
  Tasks <- TwoTasks
  Prio <- Priorities
  ResizeTo <- UpAndDown
CHECK_DEADLOCK FALSE
INVARIANTS TasksSafe
PROPERTIES StopReturns PushedIsTaken
