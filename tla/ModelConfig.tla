---------------------------- MODULE ModelConfig ----------------------------
(***************************************************************************)
(* Which model configuration and which API key a project generates with:   *)
(* the rows of the system and of each project (SystemSettingsService,      *)
(* ProjectService, model_config_utils.py), the provider channel they name  *)
(* and RuntimeService, which resolves them for the pipeline.               *)
(*                                                                         *)
(* A saved key is known by the number of the request that saved it.  An    *)
(* encryption key is configured and stays the same.  Of a configuration    *)
(* only what decides on the key is kept; of the provider, the model and    *)
(* its parameters, whether they equal the writer's.                        *)
(***************************************************************************)
EXTENDS Naturals, FiniteSets

CONSTANTS
  Projects,     \* ids of projects
  SavedKeys,    \* bound: keys ever saved
  MaxSaves      \* bound: requests that change a configuration

ASSUME ModelConfigAssumption == SavedKeys \in Nat /\ MaxSaves \in Nat

VARIABLES
  systemRows,   \* [role -> system_model_configs]
  projectRows,  \* [project -> [role -> project_model_configs]]
  created,      \* the rows of projects
  channelRow,   \* the provider channel that configurations may name
  saves         \* [left, keys]: the bounds

configVars == <<systemRows, projectRows, created, channelRow, saves>>

\* critic and memory are treated as the writer is
Role == {"writer", "prompt_builder"}
RequiredRoles == {"writer"}
ConfigRow == [row : BOOLEAN, key : 0..SavedKeys, variable : BOOLEAN, channel : BOOLEAN]
NoRow == [row |-> FALSE, key |-> 0, variable |-> FALSE, channel |-> FALSE]
NoRows == [r \in Role |-> NoRow]
RolesOf(rows) == {r \in Role : rows[r].row}
\* _default_model_configs_from_env
EnvRow == [NoRow EXCEPT !.row = TRUE, !.variable = TRUE]

\* what the settings pages send for a role; a key is left alone, cleared or replaced
Form == [key : {"keep", "clear", "new"}, variable : BOOLEAN, channel : BOOLEAN]

ConfigInit ==
  /\ systemRows = NoRows
  /\ projectRows = [p \in Projects |-> NoRows]
  /\ created = {}
  /\ channelRow = [present |-> FALSE, key |-> 0, variable |-> FALSE]
  /\ saves = [left |-> MaxSaves, keys |-> 0]

(******************************* reading ********************************)

\* SystemSettingsService.get_model_configs
SystemConfigs ==
  IF RolesOf(systemRows) = {} THEN [r \in Role |-> EnvRow]
  ELSE [r \in Role |-> IF systemRows[r].row \/ r \notin RequiredRoles THEN systemRows[r]
                       ELSE EnvRow]

\* build_default_model_snapshots_for_project: a prompt builder with the writer's signature
\* is left out
Snapshots == {SystemConfigs} \cup
  (LET w == SystemConfigs["writer"]
       b == SystemConfigs["prompt_builder"]
   IN  IF b.row /\ w.key = 0 /\ b.key = 0 /\ w.variable = b.variable
       THEN {[SystemConfigs EXCEPT !["prompt_builder"] = NoRow]} ELSE {})

\* ProjectService.get_model_configs: the roles a project lacks are shown as the system's
ShownConfigs(p) ==
  {[r \in Role |-> IF projectRows[p][r].row THEN projectRows[p][r] ELSE s[r]] : s \in Snapshots}

(* Mutant: the pipeline completes the rows of a project as the settings page does. *)
RuntimeShown(p, role, fallback) ==
  LET rows == CHOOSE c \in ShownConfigs(p) : TRUE
  IN  IF rows[role].row THEN rows[role] ELSE rows[fallback]

\* RuntimeService.get_client: the rows of the project alone, if it has any
RuntimeConfig(p, role, fallback) ==
  LET rows == IF RolesOf(projectRows[p]) # {} THEN projectRows[p]
              ELSE CHOOSE c \in ShownConfigs(p) : TRUE
  IN  IF rows[role].row THEN rows[role] ELSE rows[fallback]

\* RuntimeService.resolve_api_key and _resolve_channel_api_key
KeySource(c) ==
  IF c.key > 0 THEN <<"saved", c.key>>
  ELSE IF c.variable THEN <<"variable", 0>>
  ELSE IF c.channel /\ channelRow.key > 0 THEN <<"channel", channelRow.key>>
  ELSE IF c.channel /\ channelRow.variable THEN <<"channelVariable", 0>>
  ELSE <<"roleVariable", 0>>

\* what the pipeline's writer and the prompt builder call with
ClientOf(p, role) == LET c == RuntimeConfig(p, role, "writer") IN <<c.row, KeySource(c)>>

\* ensure_required_model_roles, which start_project asks
RolesEnsured(p) == \A c \in ShownConfigs(p) : RequiredRoles \subseteq RolesOf(c)

(******************************* writing ********************************)

Save(keys) == /\ saves.left > 0 /\ saves.keys + keys <= SavedKeys
              /\ saves' = [left |-> saves.left - 1, keys |-> saves.keys + keys]

\* merge_extra_config_for_storage, and the columns beside it
Merged(c, form) ==
  [row |-> TRUE, variable |-> form.variable, channel |-> form.channel /\ channelRow.present,
   key |-> IF form.key = "clear" THEN 0
           ELSE IF form.key = "new" THEN saves.keys + 1 ELSE c.key]

\* a role that is sent as it is shown
AsShown(c) == [key |-> "keep", variable |-> c.variable, channel |-> c.channel]

\* the rows after a payload of these roles, of which one was changed
After(old, roles, changed, form) ==
  [r \in Role |-> IF r \notin roles THEN NoRow
                  ELSE Merged(old[r], IF r = changed THEN form ELSE AsShown(old[r]))]

(* Mutant: a payload without the required roles is taken. *)
Acceptable(roles) == roles # {}

\* validate_model_configs_payload
Complete(roles) == RequiredRoles \subseteq roles

\* save_model_configs of either service: the roles that were not sent are deleted
SaveSystemConfigs ==
  /\ \E roles \in SUBSET Role, form \in Form : \E changed \in roles :
       /\ Complete(roles)
       /\ Save(IF form.key = "new" THEN 1 ELSE 0)
       /\ systemRows' = After(systemRows, roles, changed, form)
  /\ UNCHANGED <<projectRows, created, channelRow>>

SaveProjectConfigs(p) ==
  /\ p \in created
  /\ \E roles \in SUBSET Role, form \in Form : \E changed \in roles :
       /\ Complete(roles)
       /\ Save(IF form.key = "new" THEN 1 ELSE 0)
       /\ projectRows' = [projectRows EXCEPT ![p] = After(@, roles, changed, form)]
  /\ UNCHANGED <<systemRows, created, channelRow>>

\* create_project: the snapshots go through the same merge, which takes over no ciphertext
CreateProject(p) ==
  /\ p \notin created /\ Save(0)
  /\ created' = created \cup {p}
  /\ \E s \in Snapshots :
       projectRows' = [projectRows EXCEPT ![p] = [r \in Role |-> [s[r] EXCEPT !.key = 0]]]
  /\ UNCHANGED <<systemRows, channelRow>>

\* copy_project: the rows as get_model_configs shows them, ciphertexts included
CopyProject(p, q) ==
  /\ p \in created /\ q \notin created /\ Save(0)
  /\ created' = created \cup {q}
  /\ \E c \in ShownConfigs(p) : projectRows' = [projectRows EXCEPT ![q] = c]
  /\ UNCHANGED <<systemRows, channelRow>>

DeleteProject(p) ==
  /\ p \in created /\ Save(0)
  /\ created' = created \ {p}
  /\ projectRows' = [projectRows EXCEPT ![p] = NoRows]
  /\ UNCHANGED <<systemRows, channelRow>>

\* create_channel and update_channel
SaveChannel ==
  \E key \in {"keep", "clear", "new"}, variable \in BOOLEAN :
    /\ Save(IF key = "new" THEN 1 ELSE 0)
    /\ channelRow' = [present |-> TRUE, variable |-> variable,
                      key |-> IF key = "clear" THEN 0
                              ELSE IF key = "new" THEN saves.keys + 1 ELSE channelRow.key]
    /\ UNCHANGED <<systemRows, projectRows, created>>

\* delete_channel; the rows that name it are set to NULL
DeleteChannel ==
  /\ channelRow.present /\ Save(0)
  /\ LET off(rows) == [r \in Role |-> [rows[r] EXCEPT !.channel = FALSE]]
     IN  /\ systemRows' = off(systemRows)
         /\ projectRows' = [p \in Projects |-> off(projectRows[p])]
  /\ channelRow' = [present |-> FALSE, key |-> 0, variable |-> FALSE]
  /\ UNCHANGED created

ConfigNext ==
  \/ SaveSystemConfigs \/ SaveChannel \/ DeleteChannel
  \/ \E p \in Projects : \/ SaveProjectConfigs(p) \/ CreateProject(p) \/ DeleteProject(p)
                         \/ \E q \in Projects : CopyProject(p, q)
ConfigSpec == ConfigInit /\ [][ConfigNext]_configVars

(****************************** properties ********************************)

ConfigTypeOK ==
  /\ systemRows \in [Role -> ConfigRow]
  /\ projectRows \in [Projects -> [Role -> ConfigRow]]
  /\ created \subseteq Projects
  /\ channelRow \in [present : BOOLEAN, key : 0..SavedKeys, variable : BOOLEAN]
  /\ saves \in [left : 0..MaxSaves, keys : 0..SavedKeys]

\* The start check and the runtime agree: a project that passes ensure_required_model_roles,
\* which fills in the system's defaults, has a configuration for every role the pipeline
\* asks for, although the pipeline looks at the project's own rows only -- after any
\* requests that save, copy and delete configurations.
StartedHasClients ==
  \A p \in created : RolesEnsured(p) => \A r \in Role : RuntimeConfig(p, r, "writer").row

\* "only affects projects created later" (SystemSettings.vue): saving the system's
\* configuration changes neither the configuration nor the key with which an existing
\* project writes or builds its prompts, also for a role the project has no row of.
SystemSettingsStayOut ==
  [][systemRows' # systemRows /\ channelRow' = channelRow
       => \A p \in created, r \in Role : ClientOf(p, r)' = ClientOf(p, r)]_configVars
=============================================================================
