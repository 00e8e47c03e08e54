SPECIFICATION Spec
CONSTANTS
    Clients = {c1, c2}
    Trajs = {0, 1}
    Texts = {x, y}
    MaxFrames = 3
    Params = {p}
    Methods = {nauty, wl}
    Conflicts <- Overlap
    Nil = Nil
SYMMETRY Symmetry
PROPERTIES NoFrameIsReplaced
