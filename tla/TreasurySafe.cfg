\* Two resets, one start-up, one close and a stake of each kind on one account;
\* deposits reach twice the minimum, one mishap anywhere.
CONSTANTS
    Backends = {b1}
    Resets = {r1, r2}
    Closes = {c1}
    Stakes = {s1}
    StakeScripts = {s2}
    MaxLandings = 2
    MaxMishaps = 1
SYMMETRY Symmetry
SPECIFICATION Spec
INVARIANT IInv
PROPERTY HuskStays
CHECK_DEADLOCK FALSE
