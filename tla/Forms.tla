-------------------------------- MODULE Forms --------------------------------
(* The page on which a change request is written and the one that creates and edits *)
(* a capability, over one hierarchy: a behaviour has one of the two pages open.     *)
EXTENDS ChangeRequestForm, CapabilityForm

FormsSpec == (FormSpec /\ []EditorInit) \/ (EditorSpec /\ []FormInit)

\* The forms of change requests and of capabilities, and what is read for them: see
\* ChangeRequestForm and CapabilityForm.
FormsAreRight == RequestFormIsRight /\ DetailIsRight
=============================================================================
