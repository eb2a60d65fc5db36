\* The order in which phones are offered for reconnection.
SPECIFICATION Spec
CONSTANTS
    Mobiles = {m1, m2, m3}
    m1 = m1
    m2 = m2
    m3 = m3
    Bud = Bud
    Keys = {k1, k2}
    k1 = k1
    k2 = k2
    Count = 3
    VolMax = 1
    DefaultVol = 1
    Zero = Zero
    MaxLinks = 4
    MaxVols = 0
    MaxBoots = 0

INVARIANT LatestMobileFirst
CHECK_DEADLOCK FALSE
