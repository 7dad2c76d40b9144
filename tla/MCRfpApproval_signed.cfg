SPECIFICATION RacingSpec
CONSTANTS
    Dept = {warehouse, reverse}
    Openings = {}
    Reviews = {v1, v2}
    Words = {"approve", "reject"}
INVARIANTS
    DocumentFullySigned
SYMMETRY Symmetry
