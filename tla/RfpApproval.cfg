SPECIFICATION ApprovalSpec
CONSTANTS
    Dept = {warehouse, reverse}
    Openings = {o1}
    Reviews = {v1}
    Words = {"approve", "reject", "request_changes"}
INVARIANTS
    ApprovalTypeOK
    DocumentFullySigned
    TerminadoIsAllApproved
PROPERTIES
    ImplementsSignOff
