------------------------------ MODULE RfpStore ------------------------------
(***************************************************************************)
(* The rows that one RFP ticket owns in the SQL store, and the operations  *)
(* of data/pipelines/rfp_intake/persistence.py on them.                    *)
(*                                                                         *)
(* Every function of persistence.py opens a session of its own, reads and  *)
(* writes one or a few rows and commits.  Here each is one step: nothing   *)
(* else touches the row in between, while everything else may run between  *)
(* two such calls of the same caller.  Text (drafts, notes, metadata) is   *)
(* abstracted to what the lifecycle depends on: whether a section has a    *)
(* draft and whether that draft is the one the evaluators looked at.       *)
(***************************************************************************)
EXTENDS FiniteSets

CONSTANT Dept  \* the official departments: warehouse, lastmile, reverse

VARIABLES status,   \* rfp_tickets.status, or "no_ticket" before the row exists
          section,  \* section[d]: the rfp_department_sections row of d, or Absent
          doc       \* rfp_final_documents.sections: the rows it was built from

storeVars == <<status, section, doc>>

Statuses == {"analizando", "descartado", "analisis_completo",
             "generando_borrador", "en_evaluacion", "needs_human_review",
             "esperando_aprobacion", "terminado"}

(* approval_status as the callers write it; "null" is SQL NULL, the value a  *)
(* section is created with.                                                 *)
ApprovalStatus == {"null", "evaluated_pass", "needs_human_review", "pending",
                   "approved", "rejected", "changes_requested"}

(* draft_content: none yet, the text the stored evaluation_results judge, or *)
(* a text written after them.                                               *)
DraftKind == {"none", "evaluated", "unevaluated"}

SectionRow == [draft : DraftKind, approval : ApprovalStatus]
Absent     == [draft |-> "none", approval |-> "absent"]
FreshRow   == [draft |-> "none", approval |-> "null"]
NoDoc      == [d \in Dept |-> Absent]

Sections == [Dept -> SectionRow \cup {Absent}]

StoreTypeOK == /\ status \in Statuses \cup {"no_ticket"}
               /\ section \in Sections
               /\ doc \in Sections

StoreInit == /\ status = "no_ticket"
             /\ section = NoDoc
             /\ doc = NoDoc

(***************************************************************************)
(* Reads.                                                                  *)
(***************************************************************************)
Active == {d \in Dept : section[d] # Absent}

\* Faulty variant of the next: one signature taken for all of them.
AnyApproved == \E d \in Active : section[d].approval = "approved"

(* check_all_sections_approved: false for a ticket without sections.        *)
AllApproved == /\ Active # {}
               /\ \A d \in Active : section[d].approval = "approved"

(***************************************************************************)
(* Writes.  Each is the next-state formula of the one table it changes.    *)
(***************************************************************************)
CreateTicket == status = "no_ticket" /\ status' = "analizando"

SetStatus(s) == status' = s

(* upsert_department_section: an existing row keeps its draft and approval. *)
UpsertSection(d) ==
    section' = [section EXCEPT ![d] = IF @ = Absent THEN FreshRow ELSE @]

(* update_department_section_draft, as its two callers use it.              *)
WriteDraft(d, kind, verdict) ==
    section' = [section EXCEPT ![d] =
                  IF @ = Absent THEN @
                  ELSE [draft |-> kind, approval |-> verdict]]

(* update_department_approval.                                              *)
RecordApproval(d, verdict) ==
    section' = [section EXCEPT ![d] =
                  IF @ = Absent THEN @ ELSE [@ EXCEPT !.approval = verdict]]

(* save_final_document, its first commit: the document row is inserted or    *)
(* overwritten.  Its second commit is SetStatus("terminado").               *)
SaveDocument(rows) == doc' = rows
=============================================================================
