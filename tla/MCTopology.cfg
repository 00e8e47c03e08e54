SPECIFICATION Spec
CONSTANTS
    Clients = {c1, c2}
    Trajs = {0, 1}
    Texts = {x, y}
    MaxFrames = 3
    Params = {p, q}
    Methods = {nauty, wl}
    Conflicts <- Exclusive
    Nil = Nil
SYMMETRY Symmetry
INVARIANTS RowsMirrorKeys MethodsNeverMixed KeysAreOfTheirFrames
PROPERTIES NoFrameIsReplaced
