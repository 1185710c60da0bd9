SPECIFICATION Spec
INVARIANT SlotOwnersStay
CONSTANTS
    Members = {a, b, t}
    Target = t
    First = a
    Second = b
    Leftovers = {}
    Strangers = {new}
    NoNode = NoNode
    MaxFaults = 0
CHECK_DEADLOCK FALSE
