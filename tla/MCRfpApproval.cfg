SPECIFICATION FairRacingSpec
CONSTANTS
    Dept = {warehouse, reverse}
    Openings = {}
    Reviews = {v1, v2}
    Words = {"approve", "request_changes"}
INVARIANTS
    AllApprovedIsPublished
PROPERTIES
    SignaturesGetDocument
