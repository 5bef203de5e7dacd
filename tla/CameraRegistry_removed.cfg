SPECIFICATION RegistrySpec
CONSTANTS
    k1 = k1
    k2 = k2
    k3 = k3
    c1 = c1
    c2 = c2
    Cameras = {k1, k2}
    Configs = {c1, c2}
    None = None
    MaxConcurrent = 2
SYMMETRY CameraSymmetry
INVARIANTS
    RemovedIsDown
