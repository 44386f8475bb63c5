------------------------------ MODULE ImportPage ------------------------------
(***************************************************************************)
(* The import wizard of the web client, on top of the import it calls.     *)
(* Source: apps/web/src/pages/CapabilityImportPage.tsx and                 *)
(* apps/web/src/api/capability-import.ts.                                  *)
(*                                                                         *)
(* A guard is the condition under which the page shows a control enabled.  *)
(* An answer arrives while the user goes on; a request can lose its        *)
(* connection, and the server then goes on without a page.  Texts and      *)
(* tables are left out, and so is the message of a failed request.         *)
(***************************************************************************)
EXTENDS CapabilityImport

CONSTANTS
    NoRequest,   \* no mutation is pending
    MaxReading   \* files being read at a time

WizardSteps == {"upload", "review", "dry-run", "confirm", "complete"}

\* What the page keeps of an answer; content is the payload it answers.
Results == [content : Contents, canCommit : BOOLEAN, readyCount : Nat]

ASSUME PageAssumption == NoRequest \notin Handlers /\ MaxReading \in Nat

VARIABLES
    currentStep,
    csvContent,
    reading,         \* how many files a FileReader is still reading
    dryRunResult,    \* a result, or NoContent
    commitResult,    \* the content of the import, or NoContent
    dryRunRequest,   \* the handler of the pending mutation, or NoRequest
    commitRequest

pageVars == <<currentStep, csvContent, reading, dryRunResult, commitResult,
              dryRunRequest, commitRequest>>
vars == <<serverVars, pageVars>>

dryRunPending == dryRunRequest # NoRequest
commitPending == commitRequest # NoRequest
CanCommit == dryRunResult # NoContent /\ dryRunResult.canCommit

Init ==
    /\ ServerInit
    /\ currentStep = "upload"
    /\ csvContent = NoContent
    /\ reading = 0
    /\ dryRunResult = NoContent
    /\ commitResult = NoContent
    /\ dryRunRequest = NoRequest
    /\ commitRequest = NoRequest

-----------------------------------------------------------------------------
(* The controls of the five sections *)

\* handleCsvContentChange and resetWorkflow.
SetContent(c) ==
    /\ csvContent' = c
    /\ currentStep' = "upload"
    /\ dryRunResult' = NoContent
    /\ commitResult' = NoContent

ChangeContent(c) ==
    /\ currentStep = "upload" /\ c # csvContent
    /\ SetContent(c)
    /\ UNCHANGED <<serverVars, reading, dryRunRequest, commitRequest>>

SelectFile ==
    /\ currentStep = "upload"
    /\ reading < MaxReading
    /\ reading' = reading + 1
    /\ UNCHANGED <<serverVars, currentStep, csvContent, dryRunResult, commitResult,
                   dryRunRequest, commitRequest>>

\* reader.onload, in whatever step the page is by then; c is what the file held.
FileLoaded(c) ==
    /\ reading > 0
    /\ reading' = reading - 1
    /\ SetContent(c)
    /\ UNCHANGED <<serverVars, dryRunRequest, commitRequest>>

FileUnreadable ==
    /\ reading > 0
    /\ reading' = reading - 1
    /\ UNCHANGED <<serverVars, currentStep, csvContent, dryRunResult, commitResult,
                   dryRunRequest, commitRequest>>

\* "Clear CSV" and "Import another CSV".
ClearShown ==
    \/ currentStep = "upload" /\ csvContent # NoContent
    \/ currentStep = "complete" /\ commitResult # NoContent

Clear ==
    /\ ClearShown
    /\ SetContent(NoContent)
    /\ UNCHANGED <<serverVars, reading, dryRunRequest, commitRequest>>

\* The steps the buttons of each section lead to.
UploadSection == {s \in {"review"} : csvContent # NoContent}
ReviewSection == {"upload"}
DryRunSection == {"review", "upload"} \cup {s \in {"confirm"} : CanCommit}
ConfirmSection == {s \in {"dry-run"} : dryRunResult # NoContent /\ ~commitPending}

StepButtons ==
    CASE currentStep = "upload" -> UploadSection
      [] currentStep = "review" -> ReviewSection
      [] currentStep = "dry-run" -> DryRunSection
      [] currentStep = "confirm" -> ConfirmSection
      [] OTHER -> {}

GoTo(s) ==
    /\ s \in StepButtons
    /\ currentStep' = s
    /\ UNCHANGED <<serverVars, csvContent, reading, dryRunResult, commitResult,
                   dryRunRequest, commitRequest>>

-----------------------------------------------------------------------------
(* The requests *)

DryRunEnabled == currentStep = "review" /\ csvContent # NoContent /\ ~dryRunPending
CommitEnabled == currentStep = "confirm" /\ CanCommit /\ ~commitPending

\* handleRunDryRun: the result of the dry run before stays in place.
RunDryRun(h) ==
    /\ DryRunEnabled
    /\ Receive(h, FALSE, csvContent)
    /\ currentStep' = "dry-run"
    /\ dryRunRequest' = h
    /\ UNCHANGED <<csvContent, reading, dryRunResult, commitResult, commitRequest>>

\* handleCommit, up to the answer.
Commit(h) ==
    /\ CommitEnabled
    /\ Receive(h, TRUE, csvContent)
    /\ commitRequest' = h
    /\ UNCHANGED <<currentStep, csvContent, reading, dryRunResult, commitResult, dryRunRequest>>

ResultOf(h) ==
    LET errors == request[h].errors
    IN  [content |-> request[h].content, canCommit |-> errors = {},
         readyCount |-> ReadyCount(RowsOf(h), errors)]

\* The rest of handleRunDryRun; ok when the server answered with a result.
DryRunSettles(ok, result) ==
    /\ dryRunRequest' = NoRequest
    /\ dryRunResult' = IF ok THEN result ELSE NoContent
    /\ commitResult' = IF ok THEN NoContent ELSE commitResult
    /\ UNCHANGED <<currentStep, csvContent, reading, commitRequest>>

DryRunAnswered(h) ==
    /\ h = dryRunRequest
    /\ Reply(h)
    /\ DryRunSettles(request[h].answer = "validated", ResultOf(h))

\* What the server goes on reading for it has no effect.
DryRunLost ==
    /\ dryRunPending
    /\ DryRunSettles(FALSE, NoContent)
    /\ request' = [request EXCEPT ![dryRunRequest] = Idle]
    /\ UNCHANGED capability

\* The rest of handleCommit: a validation error carries the errors of a new validation.
CommitAnswered(h) ==
    /\ h = commitRequest
    /\ Reply(h)
    /\ commitRequest' = NoRequest
    /\ commitResult' = IF request[h].answer = "created" THEN request[h].content ELSE commitResult
    /\ dryRunResult' = IF request[h].answer = "invalid" THEN ResultOf(h) ELSE dryRunResult
    /\ currentStep' = CASE request[h].answer = "created" -> "complete"
                        [] request[h].answer = "invalid" -> "dry-run"
                        [] OTHER -> currentStep
    /\ UNCHANGED <<csvContent, reading, dryRunRequest>>

\* The connection is lost; the handler, if it has the request, goes on.
CommitLost ==
    /\ commitPending
    /\ commitRequest' = NoRequest
    /\ UNCHANGED <<serverVars, currentStep, csvContent, reading, dryRunResult, commitResult, dryRunRequest>>

\* An answer nobody waits for.
AnswerDropped(h) ==
    /\ h \notin {dryRunRequest, commitRequest}
    /\ Reply(h)
    /\ UNCHANGED pageVars

-----------------------------------------------------------------------------
User ==
    \/ \E c \in Contents : ChangeContent(c)
    \/ SelectFile
    \/ Clear
    \/ \E s \in WizardSteps : GoTo(s)
    \/ \E h \in Handlers : RunDryRun(h) \/ Commit(h)

Browser ==
    \/ \E c \in Contents : FileLoaded(c)
    \/ FileUnreadable \/ DryRunLost \/ CommitLost

Answer(h) == DryRunAnswered(h) \/ CommitAnswered(h) \/ AnswerDropped(h)

Server == (\E h \in Handlers : Work(h)) \/ Others

Next == User \/ Browser \/ (\E h \in Handlers : Answer(h)) \/ (Server /\ UNCHANGED pageVars)

Spec == Init /\ [][Next]_vars

-----------------------------------------------------------------------------
TypeOK ==
    /\ ServerTypeOK
    /\ currentStep \in WizardSteps
    /\ csvContent \in Contents \cup {NoContent}
    /\ reading \in 0..MaxReading
    /\ dryRunResult \in Results \cup {NoContent}
    /\ commitResult \in Contents \cup {NoContent}
    /\ {dryRunRequest, commitRequest} \subseteq Handlers \cup {NoRequest}

\* CapabilityImportPage.tsx:1313: the confirmation is about the content that the
\* commit will send.
ConfirmsCurrentContent ==
    currentStep = "confirm" /\ dryRunResult # NoContent => dryRunResult.content = csvContent

\* What the preview says, in its parts.
PreviewIsRight == TypeOK /\ ValidationIsExact
=============================================================================
