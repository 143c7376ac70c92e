SPECIFICATION LocalSpec
CONSTANT Connections = {1, 2}
INVARIANTS LocalInv NeverAsksAnotherServer
PROPERTIES Announced
