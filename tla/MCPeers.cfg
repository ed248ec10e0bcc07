SPECIFICATION Spec
CONSTANTS
    Bits = 3
    Self <- Zero
    Peer <- ThreePeers
    BucketSize = 1
    Slow <- NobodyElse
    Early <- OneFar
    Local <- LocalNodes
    Poster <- JustNear
    BootstrapTTL = 1
    Interval = 1
    MaxTime = 2
    MaxConns = 2
    MaxBlocks = 1
    MaxRestarts = 1
INVARIANTS TableSound NearestInBucket RefcountTracks 
 
