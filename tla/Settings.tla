------------------------------ MODULE Settings ------------------------------
(***************************************************************************)
(* The settings in force and agents/harvey.yaml, which the author may edit *)
(* at any time. A setting is changed in memory first and then saved: the   *)
(* file is read again, the sections of that command are put in, and the    *)
(* whole file is written. At startup the file is laid over the defaults.   *)
(***************************************************************************)
EXTENDS Naturals, SequencesExt

CONSTANTS
  Programs, DefaultAllowedCommands,
  Directories,    \* the paths rules may be set for, as sequences of names; <<>> is "."
  Aliases,
  Edits,          \* files the author may leave behind: sets of what Blank is one of
  Happenings      \* of "unwritable", "full disk", "kill", "edit"

\* "exec" and "delete" may be set too, but nothing asks for them.
AllPermissions == {"read", "write"}

\* Tables of rules: what may be done under each of some directories.
Rules == UNION {[D -> SUBSET AllPermissions] : D \in SUBSET Directories}

\* What agents/harvey.yaml may hold; the sections Harvey knows, and what is the matter
\* with the rest.
Files == [text : {"good", "garbled"}, safe : SUBSET BOOLEAN, allowed : SUBSET Programs,
          permissions : Rules, aliases : SUBSET Aliases,
          rest : {"none", "removed", "catalog", "services"}]

\* A file without a section has {} there; no table is the empty function.
Blank == [text |-> "good", safe |-> {}, allowed |-> {}, permissions |-> <<>>,
          aliases |-> {}, rest |-> "none"]
Garbled == [Blank EXCEPT !.text = "garbled"]

ASSUME SettingsAssumption ==
  /\ DefaultAllowedCommands \subseteq Programs /\ DefaultAllowedCommands # {}
  /\ <<>> \in Directories
  /\ Edits \subseteq Files
  /\ \A y \in Edits : y.text = "garbled" => y = Garbled

VARIABLES
  config,   \* the settings in force
  yaml,     \* agents/harvey.yaml
  behind    \* of "rules" and "aliases", what the file may rightly differ in

settings == <<config, yaml, behind>>

DefaultConfig == [safe |-> TRUE, allowed |-> DefaultAllowedCommands,
                  permissions |-> [q \in {<<>>} |-> AllPermissions], aliases |-> {}]

\* A section that is no longer supported, a skills.catalog that is not known, or a
\* service that is not described rightly.
Misfit(y) == y.rest \in {"removed", "catalog", "services"}

\* Reading stops at the first thing that is wrong and keeps what was taken by then.
LoadHarveyYAML(y) ==
  IF y.text = "garbled" \/ y.rest = "removed" THEN DefaultConfig
  ELSE [safe        |-> IF y.safe = {} THEN DefaultConfig.safe
                        ELSE CHOOSE safe \in y.safe : TRUE,
        permissions |-> IF y.permissions = <<>> THEN DefaultConfig.permissions
                        ELSE y.permissions,
        allowed     |-> IF y.allowed = {} \/ y.rest = "catalog" THEN DefaultAllowedCommands
                        ELSE y.allowed,
        aliases     |-> IF Misfit(y) THEN {} ELSE y.aliases]

\* What is not understood is taken for an empty file.
Unmarshal(y) == IF y.text = "garbled" THEN Blank ELSE y

\* Variant: a setting that is FALSE is left out of the file.
MemoryConfigOmitsFalse(c, y) ==
  [Unmarshal(y) EXCEPT !.safe = IF c.safe THEN {TRUE} ELSE {}, !.permissions = c.permissions,
                       !.allowed = IF c.allowed = {} THEN @ ELSE c.allowed]

\* An empty allowlist, as a list without aliases below, leaves the file's as it was.
MemoryConfig(c, y) ==
  [Unmarshal(y) EXCEPT !.safe = {c.safe}, !.permissions = c.permissions,
                       !.allowed = IF c.allowed = {} THEN @ ELSE c.allowed]

ModelAliases(c, y) ==
  [Unmarshal(y) EXCEPT !.aliases = IF c.aliases = {} THEN @ ELSE c.aliases]

\* os.WriteFile empties the file before it writes.
Save(part, y) ==
  \/ yaml' = y /\ behind' = behind \ {part}
  \/ "unwritable" \in Happenings /\ UNCHANGED yaml /\ behind' = behind \cup {part}
  \/ /\ "full disk" \in Happenings
     /\ yaml' \in {Blank, Garbled} /\ behind' = {"rules", "aliases"}

SaveMemoryConfig == Save("rules", MemoryConfig(config', yaml))
SaveModelAliases == Save("aliases", ModelAliases(config', yaml))

----------------------------------------------------------------------------
(* The commands that change settings; c is the line, see Access. *)

AddAllowedCommand(program) == config' = [config EXCEPT !.allowed = @ \cup {program}]
RemoveAllowedCommand(program) == config' = [config EXCEPT !.allowed = @ \ {program}]
ResetAllowedCommands == config' = [config EXCEPT !.allowed = DefaultAllowedCommands]

SafeMode(c) ==
  /\ \/ c.op = "safemode on" /\ config' = [config EXCEPT !.safe = TRUE]
     \/ c.op = "safemode off" /\ config' = [config EXCEPT !.safe = FALSE]
     \/ c.op = "safemode allow" /\ AddAllowedCommand(c.on)
     \/ c.op = "safemode deny" /\ RemoveAllowedCommand(c.on)
     \/ c.op = "safemode reset" /\ ResetAllowedCommands
  /\ SaveMemoryConfig

\* The first rule set stands beside the default one for the root.
SetPermission(prefix, perms) ==
  config' = [config EXCEPT !.permissions =
               [q \in DOMAIN @ \cup {prefix} |-> IF q = prefix THEN perms ELSE @[q]]]

ResetPermissions == config' = [config EXCEPT !.permissions = DefaultConfig.permissions]

Permissions(c) ==
  /\ \/ c.op = "permissions set" /\ SetPermission(c.on, c.rights)
     \/ c.op = "permissions reset" /\ ResetPermissions
  /\ SaveMemoryConfig

ModelAlias(c) ==
  \/ /\ c.op = "alias add"
     /\ config' = [config EXCEPT !.aliases = @ \cup {c.on}]
     /\ SaveModelAliases
  \/ /\ c.op = "alias remove" /\ c.on \in config.aliases
     /\ config' = [config EXCEPT !.aliases = @ \ {c.on}]
     /\ SaveModelAliases
  \/ c.op = "alias remove" /\ c.on \notin config.aliases /\ UNCHANGED settings

SettingsInit ==
  /\ yaml \in Edits
  /\ config = LoadHarveyYAML(yaml) /\ behind = {}

\* A process ended or died and the next one starts. Dying in the middle of a write is
\* a full disk followed by this.
Startup == config' = LoadHarveyYAML(yaml) /\ behind' = {} /\ UNCHANGED yaml

AuthorEdits ==
  /\ "edit" \in Happenings /\ yaml' \in Edits \ {yaml}
  /\ behind' = {"rules", "aliases"} /\ UNCHANGED config

----------------------------------------------------------------------------
\* IsCommandAllowed: outside safe mode every program is.
IsCommandAllowed(program) == config.safe => program \in config.allowed

\* HasPermission: the rule of the longest directory the path is in, and no other.
HasPermission(path, right) ==
  LET matching == {q \in DOMAIN config.permissions : IsStrictPrefix(q, path)}
  IN  \E q \in matching :
        (\A r \in matching : Len(r) <= Len(q)) /\ right \in config.permissions[q]
=============================================================================
