---------------------------- MODULE ProjectForm ----------------------------
(***************************************************************************)
(* The form a project's settings are edited in (project-form.tsx), and     *)
(* what app.tsx keeps for it: the list of projects, the project that is    *)
(* edited and the inspection of its directory.  Its saves go to            *)
(* saveProjectSettings, one after the other.  Of the workspace's           *)
(* configuration it has whether it is Git's, whether a remote is named,    *)
(* and whether work is pushed to it.                                       *)
(***************************************************************************)
EXTENDS ProjectSettings

VARIABLES
    listed,         \* projects: the project as the window has it
    editor,         \* projectEditor
    inspection,     \* projectInspection, and whether it has been asked for
    form,           \* the form that is mounted
    submissions,    \* its saves that have not ended, the oldest first
    unheard         \* history: a save was made that the window was not told of

formVars == <<listed, editor, inspection, form, submissions, unheard>>

NewProject == [revision |-> 0, enabled |-> FALSE, refs |-> {}, config |-> {}]
NoInspection == [known |-> FALSE, asking |-> FALSE, found |-> "nothing"]

(* inspectGitProject: a directory that is not Git's, one with a remote to  *)
(* publish to - the one that is configured, or the one it fetches from -   *)
(* and one without.                                                        *)
Findings == {"nothing", "remote", "unavailable"}

(* mergeWorkspaceInspection: what is configured stays, a remote is filled  *)
(* in, and nothing is pushed where it cannot be.                           *)
Merge(config, found) ==
  CASE "git" \notin config \/ found = "nothing" -> config
    [] "git" \in config /\ found = "remote" -> config \cup {"remote"}
    [] "git" \in config /\ found = "unavailable" -> config \ {"push"}

(* initialValue: a form starts from the row it is given and the inspection *)
(* there is.  missed: a save of a form before it had not ended then.       *)
Initial(row, found) ==
  [row |-> row, enabled |-> row.enabled, config |-> Merge(row.config, found), found |-> found,
   draft |-> {}, saved |-> row.revision # 0, saving |-> FALSE, missed |-> FALSE]

InitForm ==
  /\ listed = NewProject /\ editor = [open |-> FALSE, row |-> NewProject]
  /\ inspection = NoInspection /\ form = Initial(NewProject, "nothing")
  /\ submissions = <<>> /\ unheard = FALSE

(* A form that is mounted takes the place of the one before: what comes of *)
(* that one's saves does not reach it.                                     *)
Mount(row, found) ==
  /\ form' = [Initial(row, found) EXCEPT !.missed = submissions # <<>>]
  /\ submissions' = [j \in DOMAIN submissions |-> [submissions[j] EXCEPT !.own = FALSE]]

-----------------------------------------------------------------------------
(* A project of the list, a directory that was chosen, or a path that will *)
(* be typed in.                                                            *)
OpenEditor ==
  /\ ~editor.open
  /\ editor' = [open |-> TRUE, row |-> listed]
  /\ IF listed.revision = 0
       THEN \/ inspection' = NoInspection
            \/ \E found \in Findings : inspection' = [known |-> TRUE, asking |-> FALSE, found |-> found]
       ELSE inspection' = [NoInspection EXCEPT !.asking = TRUE]
  /\ Mount(listed, inspection'.found)
  /\ UNCHANGED <<supervisor, faults, settingsVars, listed, unheard>>

CancelEditor ==
  /\ editor.open
  /\ editor' = [open |-> FALSE, row |-> NewProject] /\ Mount(NewProject, "nothing")
  /\ inspection' = NoInspection
  /\ UNCHANGED <<supervisor, faults, settingsVars, listed, unheard>>

(* The inspection's directory is part of the form's key: the first answer, *)
(* and one that fails after it, mount the form anew, whatever has been     *)
(* typed into it.                                                          *)
Inspected(known, found) ==
  /\ editor.open /\ inspection.asking
  /\ inspection' = [known |-> known, asking |-> FALSE, found |-> found]
  /\ IF known = inspection.known THEN UNCHANGED <<form, submissions>> ELSE Mount(editor.row, found)
  /\ UNCHANGED <<supervisor, settingsVars, listed, editor, unheard>>

InspectProject ==
  \/ Serving /\ (\E found \in Findings : Inspected(TRUE, found)) /\ UNCHANGED faults
  \/ ~Connected /\ Inspected(FALSE, "nothing") /\ UNCHANGED faults
  \/ Fault("request") /\ Inspected(FALSE, "nothing")

Edited(value) ==
  /\ editor.open
  /\ form' = [value EXCEPT !.saved = FALSE]
  /\ UNCHANGED <<supervisor, faults, settingsVars, listed, editor, inspection, submissions, unheard>>

EditIntegration == Edited([form EXCEPT !.enabled = ~@])

(* The workspace's provider, and the push of Git's, which needs a remote   *)
(* to publish to.                                                          *)
EditWorkspace ==
  \/ Edited([form EXCEPT !.config = IF "git" \in @ THEN {} ELSE Merge({"git"}, form.found)])
  \/ /\ "git" \in form.config /\ form.found = "remote"
     /\ Edited([form EXCEPT !.config = IF "push" \in @ THEN @ \ {"push"} ELSE @ \cup {"push"}])

(* Another directory, which has been inspected. *)
SelectDirectory ==
  Serving /\ \E found \in Findings :
    Edited([form EXCEPT !.found = found, !.config = Merge(@ \cap {"git"}, found)])

(* onSecretChange; the secrets are all typed in at once. *)
TypeSecrets == Edited([form EXCEPT !.draft = Keys])

-----------------------------------------------------------------------------
(* saveProjectSettingsPayload *)
Payload ==
  [own |-> TRUE, heard |-> TRUE, pc |-> "sent", form |-> form, from |-> NewProject,
   expected |-> form.row.revision]

(* validateIntegrations *)
Valid == form.enabled => form.row.refs \cup form.draft = Keys

(* normalizeIntegrations, collectSecretPatches: only what was typed in. *)
Patch(s) == [k \in s.form.draft |-> 1]

(* submit: the button is disabled while a save is under way. *)
SubmitForm ==
  /\ editor.open /\ ~form.saving /\ Valid
  /\ saves + Len(submissions) < MaxSaves
  /\ IF Connected
       THEN /\ form' = [form EXCEPT !.saving = TRUE, !.saved = FALSE]
            /\ submissions' = Append(submissions, Payload)
       ELSE form' = [form EXCEPT !.saved = FALSE] /\ UNCHANGED submissions
  /\ UNCHANGED <<supervisor, faults, settingsVars, listed, editor, inspection, unheard>>

NextSave == Head(submissions)
Pass(pc) == submissions' = <<[NextSave EXCEPT !.pc = pc, !.from = project]>> \o Tail(submissions)

(* The Runtime takes it up: a form without a project would create one, and *)
(* the project's key is already taken.                                     *)
ServeForm ==
  /\ submissions # <<>> /\ NextSave.pc = "sent" /\ mutation.pc = "idle"
  /\ IF NextSave.expected = 0 /\ project.revision # 0
       THEN Pass("refused") /\ UNCHANGED <<supervisor, faults, settingsVars>>
       ELSE Pass("running") /\ Save(Patch(NextSave), NextSave.form.enabled, NextSave.form.config, NextSave.expected)
  /\ UNCHANGED <<listed, editor, inspection, form, unheard>>

Made(s) == s.pc = "running" /\ project.revision > s.from.revision

(* Mutant: the form goes on with what it has submitted. *)
ConfirmedAsSubmitted == [form EXCEPT !.draft = {}, !.saved = TRUE, !.saving = FALSE]

(* The form whose save it was starts again from the saved project, with    *)
(* the inspection it has.                                                  *)
Confirmed == Initial(project, form.found)

(* saveProject and rememberProject: the saved project is listed and edited *)
(* on, even if the editor was closed; any other form of it stays as it is. *)
Saved ==
  /\ listed' = project /\ editor' = [open |-> TRUE, row |-> project]
  /\ inspection' = [inspection EXCEPT !.asking = TRUE] /\ unheard' = FALSE
  /\ submissions' = Tail(submissions)
  /\ \/ NextSave.own /\ form' = Confirmed
     \/ ~NextSave.own /\ editor.open /\ UNCHANGED form
     \/ ~NextSave.own /\ ~editor.open /\ form' = [Initial(project, inspection.found) EXCEPT !.missed = Len(submissions) > 1]

NotSaved ==
  /\ unheard' = (unheard \/ Made(NextSave))
  /\ form' = IF NextSave.own THEN [form EXCEPT !.saving = FALSE] ELSE form
  /\ submissions' = Tail(submissions)
  /\ UNCHANGED <<listed, editor, inspection>>

(* The answer reads the secrets once more, and a save that was made is     *)
(* answered with an error if that fails.                                   *)
AnswerForm ==
  /\ submissions # <<>> /\ NextSave.pc # "sent"
  /\ NextSave.pc = "running" => mutation.pc = "idle"
  /\ \/ Made(NextSave) /\ NextSave.heard /\ Saved /\ UNCHANGED faults
     \/ ~(Made(NextSave) /\ NextSave.heard) /\ NotSaved /\ UNCHANGED faults
     \/ Made(NextSave) /\ project.refs # {} /\ Fault("keychain") /\ NotSaved
  /\ UNCHANGED <<supervisor, settingsVars>>

(* The request times out; the Runtime goes on with it. *)
FormTimesOut(j) ==
  /\ submissions[j].heard /\ Fault("request")
  /\ submissions' = [submissions EXCEPT ![j].heard = FALSE, ![j].own = FALSE]
  /\ form' = IF submissions[j].own THEN [form EXCEPT !.saving = FALSE] ELSE form
  /\ UNCHANGED <<supervisor, settingsVars, listed, editor, inspection, unheard>>

(* The process is gone, and every request with it. *)
FormLosesRuntime ==
  /\ unheard' = (unheard \/ \E j \in DOMAIN submissions : Made(submissions[j]))
  /\ form' = [form EXCEPT !.saving = FALSE] /\ submissions' = <<>>
  /\ UNCHANGED <<listed, editor, inspection>>
=============================================================================
