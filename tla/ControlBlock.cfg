SPECIFICATION FairSpec
CONSTANTS
  Handles = {h1, h2, h3, h4}
INVARIANTS NoUseAfterFree ReleasedOnce CountsExact
PROPERTIES NoRevival EventuallyFreed
CHECK_DEADLOCK FALSE
