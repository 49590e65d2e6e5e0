CONSTANT N = 3
SPECIFICATION FairSpec
INVARIANT ChainSound
PROPERTY ChainSettles
