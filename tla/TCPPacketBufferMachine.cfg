CONSTANTS
    IntMax = 7
    StreamLength = 6
    MaxLength = 3
    FirstSeq = 13
SPECIFICATION Spec
INVARIANT TypeOK
INVARIANT OutInOrder
INVARIANT SizeCountsDistinctBytes
INVARIANT GrowthCountsDistinctBytes
INVARIANT FirstFollowsOut
INVARIANT ListSorted
PROPERTY TakesAllContinuous
