----------------------------- MODULE RfpSignOff -----------------------------
(***************************************************************************)
(* What part 3 of the RFP workflow promises Sales: the people responsible  *)
(* sign their own section, in any order and without waiting for each other,*)
(* and may take a signature back; the final document is made in one step   *)
(* that finds every section signed.                                        *)
(***************************************************************************)
EXTENDS FiniteSets

CONSTANT Dept

VARIABLES involved,   \* the departments that must sign
          signed,     \* those whose section is signed now
          published   \* the departments whose section the document holds

signOffVars == <<involved, signed, published>>

Init == /\ involved \in (SUBSET Dept) \ {{}}
        /\ signed = {}
        /\ published = {}

Sign(d) == /\ d \in involved
           /\ signed' = signed \cup {d}
           /\ UNCHANGED <<involved, published>>

Withdraw(d) == /\ signed' = signed \ {d}
               /\ UNCHANGED <<involved, published>>

Publish == /\ signed = involved
           /\ published' = involved
           /\ UNCHANGED <<involved, signed>>

Next == Publish \/ \E d \in Dept : Sign(d) \/ Withdraw(d)

Spec == Init /\ [][Next]_signOffVars
=============================================================================
