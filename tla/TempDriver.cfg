SPECIFICATION FairSpec
CONSTANT User = {u1, u2}
INVARIANTS TypeOK NothingLeft ReleasedInReverse CallbacksInside TaskletKilled
PROPERTY ReleaseEnds
