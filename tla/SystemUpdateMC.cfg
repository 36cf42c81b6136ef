\* Two presses of the button while three releases are published: a release can
\* come between any two steps, two updates can overlap, and one that failed or was
\* interrupted can be retried.
CONSTANTS
  MaxRequests = 2
  MaxVersion = 3
  Moving = Moving
  NoImage = NoImage
SPECIFICATION FairSpec
INVARIANTS
  TypeOK
  TagHasImages
  StatusShownIsTrue
  RestsOnWorkingVersion
PROPERTIES
  EveryUpdateEnds
CHECK_DEADLOCK FALSE
