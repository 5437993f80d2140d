CONSTANT Clients = {c1, c2, c3, c4}
SPECIFICATION FairSpec
INVARIANT McEventInv
PROPERTY EverybodyContinues
