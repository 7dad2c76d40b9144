SPECIFICATION FairLifecycleSpec
CONSTANTS
    Dept = {warehouse}
    Runs = {g1}
    MaxIterations = 1
    Compliant = {warehouse}
    Openings = {o1}
    Reviews = {v1}
    Words = {"approve", "reject", "request_changes"}
PROPERTIES
    DiscardedStays
