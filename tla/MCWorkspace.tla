----------------------------- MODULE MCWorkspace -----------------------------
(* The parts that keep the project and its repositories in order. They     *)
(* share no state: turn says which of them a behaviour is about, the       *)
(* others stand still.                                                     *)
EXTENDS TLC,
  BranchSwitch, KephDocs, DocsPublish, AssistantFiles, RegistryLinks,
  ConfigFile, McpRegistration, LocalPrivacy

VARIABLE turn

\* The parts, each with its variables.
Turns == {"branches", "keph", "publish", "files", "links", "config", "mcp", "privacy"}
allVars == <<turn, branchVars, kephVars, workVars, filesVars, linkVars,
             configVars, mcpVars, privacyVars>>

\* The part whose turn it is starts anywhere it may start, the others in one state.
Init ==
  /\ turn \in Turns
  /\ BranchInit
  /\ \/ turn = "keph" /\ KephInit
     \/ turn # "keph" /\ KephBegin({<<1, "open">>})
  /\ WorkInit
  /\ \/ turn = "files" /\ FilesInit
     \/ turn # "files" /\ claude = Nothing /\ agents = Nothing /\ ignored = FALSE /\ FilesInit
  /\ \/ turn = "links" /\ LinksInit
     \/ turn # "links" /\ LinksBegin("dir", "right")
  /\ \/ turn = "config" /\ ConfigInit
     \/ turn # "config" /\ ConfigBegin(OutdatedLines, "none", FALSE) /\ playbook = "none"
  /\ \/ turn = "mcp" /\ RegistrationInit
     \/ turn # "mcp" /\ RegistrationBegin(NoSuchFile, NoSuchFile, NoSuchFile, {}, "git", TRUE, [e \in Env |-> "home"])
  /\ \/ turn = "privacy" /\ PrivacyInit
     \/ turn # "privacy" /\ PrivacyBegin("there", TRUE, "none", "none", {}, {})

\* Only that part goes on.
Next ==
  /\ UNCHANGED turn
  /\ \/ turn = "branches" /\ BranchNext /\ UNCHANGED <<kephVars, workVars, filesVars, linkVars,
           configVars, mcpVars, privacyVars>>
     \/ turn = "keph" /\ KephNext /\ UNCHANGED <<branchVars, workVars, filesVars, linkVars,
           configVars, mcpVars, privacyVars>>
     \/ turn = "publish" /\ WorkNext /\ UNCHANGED <<branchVars, kephVars, filesVars, linkVars,
           configVars, mcpVars, privacyVars>>
     \/ turn = "files" /\ FilesNext /\ UNCHANGED <<branchVars, kephVars, workVars, linkVars,
           configVars, mcpVars, privacyVars>>
     \/ turn = "links" /\ LinksNext /\ UNCHANGED <<branchVars, kephVars, workVars, filesVars,
           configVars, mcpVars, privacyVars>>
     \/ turn = "config" /\ ConfigNext /\ UNCHANGED <<branchVars, kephVars, workVars, filesVars,
           linkVars, mcpVars, privacyVars>>
     \/ turn = "mcp" /\ RegistrationNext /\ UNCHANGED <<branchVars, kephVars, workVars,
           filesVars, linkVars, configVars, privacyVars>>
     \/ turn = "privacy" /\ PrivacyNext /\ UNCHANGED <<branchVars, kephVars, workVars, filesVars,
           linkVars, configVars, mcpVars>>

Spec == Init /\ [][Next]_allVars

\* Every part keeps its types; those that stand still keep those they began with.
TypeOK ==
  /\ turn \in Turns
  /\ turn = "branches" => BranchTypeOK
  /\ turn = "keph" => KephTypeOK
  /\ turn = "publish" => WorkTypeOK
  /\ turn = "files" => FilesTypeOK
  /\ turn = "links" => LinksTypeOK
  /\ turn = "config" => ConfigTypeOK
  /\ turn = "mcp" => RegistrationTypeOK
  /\ turn = "privacy" => PrivacyTypeOK

\* The environments of the MCP registration are alike; so are the pages, the machines of a
\* collection, the editors of the configuration and the runs on the instruction files, which have
\* the same names.
EnvAlike == Permutations(Env)
==============================================================================
