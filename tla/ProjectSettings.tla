-------------------------- MODULE ProjectSettings --------------------------
(***************************************************************************)
(* A project's settings and secrets (RuntimeService.saveProjectSettings,   *)
(* setIntegrationSecrets), the keychain they are written to, and the       *)
(* IntegrationManager, which runs the project's source with them.          *)
(***************************************************************************)
EXTENDS UtilityProcess, Sequences, SequencesExt

CONSTANTS
    Keys,               \* secret fields of the project's integration
    MaxSaves            \* bound: how often the settings are saved

ASSUME SettingsAssumption == IsFiniteSet(Keys) /\ MaxSaves \in Nat

VARIABLES
    project,        \* the saved project; revision 0 before it exists
    keychain,       \* the secrets' values, 0 for none
    meant,          \* history: the secrets the saved revision was saved with
    mutation,       \* the mutation at the head of projectMutations
    torn,           \* history: a mutation was cut off, or could not be undone
    source,         \* the manager's ActiveSource and its task
    saves           \* how often the settings have been saved

settingsVars == <<project, keychain, meant, mutation, torn, source, saves>>

Secrets == [Keys -> 0 .. 2]
NoMutation == [pc |-> "idle", patch |-> <<>>, todo |-> <<>>, applied |-> <<>>,
               previous |-> [k \in Keys |-> 0], expected |-> 0, enabled |-> FALSE, config |-> {}]
NoSource == [state |-> "none", aborted |-> FALSE, secrets |-> [k \in Keys |-> 0], revision |-> 0]

InitSettings ==
  /\ project = [revision |-> 0, enabled |-> FALSE, refs |-> {}, config |-> {}]
  /\ keychain = [k \in Keys |-> 0] /\ meant = keychain
  /\ mutation = NoMutation /\ torn = FALSE /\ source = NoSource /\ saves = 0

-----------------------------------------------------------------------------
(* The manager.  A source keeps the secrets it was created with.           *)
Loaded(secrets, refs) == [k \in Keys |-> IF k \in refs THEN secrets[k] ELSE 0]

RunsWith(p, secrets) ==
  LET loaded == Loaded(secrets, p.refs) IN
  IF p.revision = 0 \/ ~p.enabled THEN NoSource
  ELSE [state |-> IF \E k \in Keys : loaded[k] = 0 THEN "failed" ELSE "running",
        aborted |-> FALSE, secrets |-> loaded, revision |-> p.revision]

(* startProject: the source runs, or a secret that is missing or a         *)
(* keychain that fails leaves it in backoff until the project is saved.    *)
StartSource ==
  \/ source' = RunsWith(project, keychain) /\ UNCHANGED faults
  \/ /\ project.enabled /\ Fault("keychain")
     /\ source' = [RunsWith(project, keychain) EXCEPT !.state = "failed"]

StartsSources ==
  /\ source' = RunsWith(project, keychain)
  /\ UNCHANGED <<project, keychain, meant, mutation, torn, saves>>

(* stopProject: the source is told to stop, and its task is waited for.    *)
AbortSource ==
  /\ source.state # "none" /\ ~source.aborted
  /\ mutation.pc = "refreshing" \/ (quitting /\ mutation.pc = "idle")
  /\ source' = [source EXCEPT !.aborted = TRUE]
  /\ UNCHANGED <<supervisor, faults, project, keychain, meant, mutation, torn, saves>>

RefreshProject(ended) ==
  /\ mutation.pc = "refreshing"
  /\ source.state # "none" => source.aborted /\ ended
  /\ StartSource
  /\ mutation' = NoMutation
  /\ UNCHANGED <<supervisor, project, keychain, meant, torn, saves>>

-----------------------------------------------------------------------------
(* prepareSecretChanges: the secrets the project will refer to. *)
Refs(p, patch) ==
  {k \in Keys : IF k \in DOMAIN patch THEN patch[k] # 0 ELSE k \in p.refs}

(* saveProjectSettings.  Mutations run one after the other; the window may *)
(* have read an older revision than the one it would replace.              *)
Save(patch, enabled, config, expected) ==
  /\ Serving /\ ~quitting /\ mutation.pc = "idle" /\ saves < MaxSaves
  /\ saves' = saves + 1
  /\ mutation' = [pc |-> "writing", patch |-> patch, todo |-> SetToSeq(DOMAIN patch),
                  applied |-> <<>>, previous |-> keychain, expected |-> expected, enabled |-> enabled, config |-> config]
  /\ UNCHANGED <<supervisor, faults, project, keychain, meant, torn, source>>

Expected == {project.revision} \cup (IF project.revision > 1 THEN {project.revision - 1} ELSE {})

SaveProjectSettings(patches) ==
  \E patch \in patches, enabled \in BOOLEAN, expected \in Expected :
     /\ enabled => Refs(project, patch) = Keys      \* validateIntegrations
     /\ Save(patch, enabled, project.config, expected)

SetIntegrationSecrets(patches) ==
  /\ project.revision # 0
  /\ \E patch \in patches : Save(patch, project.enabled, project.config, project.revision)

(* createProject and updateProject leave the secrets alone. *)
CreateProject == project.revision = 0 /\ Save(<<>>, FALSE, {}, 0)

UpdateProject ==
  /\ project.revision # 0
  /\ \E enabled \in BOOLEAN, expected \in Expected :
       (enabled => project.refs = Keys) /\ Save(<<>>, enabled, project.config, expected)

(* A change is undone even if it is the one that has failed: it may have   *)
(* been made.                                                              *)
Applied(k) == [mutation EXCEPT !.applied = Append(@, k), !.todo = Tail(@)]

(* Mutant: a change is noted when it has been made. *)
WriteSecretNotedAfter ==
  /\ mutation.pc = "writing" /\ mutation.todo # <<>>
  /\ LET k == Head(mutation.todo) IN
     \/ /\ keychain' = [keychain EXCEPT ![k] = mutation.patch[k]]
        /\ mutation' = Applied(k) /\ UNCHANGED faults
     \/ /\ Fault("keychain")
        /\ keychain' \in {keychain, [keychain EXCEPT ![k] = mutation.patch[k]]}
        /\ mutation' = [mutation EXCEPT !.pc = "undoing"]
  /\ UNCHANGED <<supervisor, project, meant, torn, source, saves>>

WriteSecret ==
  /\ mutation.pc = "writing" /\ mutation.todo # <<>>
  /\ LET k == Head(mutation.todo) IN
     \/ /\ keychain' = [keychain EXCEPT ![k] = mutation.patch[k]]
        /\ mutation' = Applied(k) /\ UNCHANGED faults
     \/ /\ Fault("keychain")
        /\ keychain' \in {keychain, [keychain EXCEPT ![k] = mutation.patch[k]]}
        /\ mutation' = [Applied(k) EXCEPT !.pc = "undoing"]
  /\ UNCHANGED <<supervisor, project, meant, torn, source, saves>>

(* The revision is compared only now, in the transaction. *)
Persist ==
  /\ mutation.pc = "writing" /\ mutation.todo = <<>>
  /\ IF mutation.expected = project.revision
       THEN /\ project' = [revision |-> project.revision + 1, enabled |-> mutation.enabled,
                           refs |-> Refs(project, mutation.patch), config |-> mutation.config]
            /\ meant' = keychain
            /\ mutation' = [mutation EXCEPT !.pc = "refreshing"]
       ELSE mutation' = [mutation EXCEPT !.pc = "undoing"] /\ UNCHANGED <<project, meant>>
  /\ UNCHANGED <<supervisor, faults, keychain, torn, source, saves>>

(* rollbackSecrets, the last change first; a failure ends it. *)
UndoSecret ==
  /\ mutation.pc = "undoing" /\ mutation.applied # <<>>
  /\ LET k == Last(mutation.applied) IN
     \/ /\ keychain' = [keychain EXCEPT ![k] = mutation.previous[k]]
        /\ mutation' = [mutation EXCEPT !.applied = Front(@)] /\ UNCHANGED <<torn, faults>>
     \/ /\ Fault("keychain") /\ torn' = TRUE
        /\ mutation' = NoMutation /\ UNCHANGED keychain
  /\ UNCHANGED <<supervisor, project, meant, source, saves>>

Undone ==
  /\ mutation.pc = "undoing" /\ mutation.applied = <<>>
  /\ mutation' = NoMutation
  /\ UNCHANGED <<supervisor, faults, project, keychain, meant, torn, source, saves>>

(* The process is gone in the middle of it. *)
SettingsLoseRuntime ==
  /\ torn' = (torn \/ (mutation.applied # <<>> /\ mutation.pc # "refreshing"))
  /\ mutation' = NoMutation /\ source' = NoSource
  /\ UNCHANGED <<project, keychain, meant, saves>>
=============================================================================
