\* One tab, two users who sign in after each other, one fault.
CONSTANTS
    Tab = {t1}
    User = {ann, bob}
    Pair = {k1, k2, k3}
    MaxFaults = 1
SPECIFICATION Spec
SYMMETRY Symmetry
INVARIANTS WaitingIsServed NoReuse ActsAsShown
CHECK_DEADLOCK FALSE
