SPECIFICATION Spec
CONSTANTS
    k1 = k1
    k2 = k2
    k3 = k3
    Keys = {k1, k2, k3}
    Size <- MCSize
    NoLimit = NoLimit
    MaxAge = 1
    MaxEntries = 2
    MaxSize = 3
    MaxClock = 3
PROPERTY QuietPassExact
 
