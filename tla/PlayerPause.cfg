CONSTANTS
    clip1 = clip1
    clip2 = clip2
    tube = tube
    Clips = {clip1, clip2, tube}
    YouTube = {tube}
    Lists <- MCLists
    MaxBlobs = 0
SPECIFICATION PlayerSpec
CHECK_DEADLOCK FALSE
INVARIANT PauseMeansSound
