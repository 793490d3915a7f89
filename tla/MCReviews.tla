------------------------------ MODULE MCReviews ------------------------------
(* The parts of the review tools that work on a run: its steps, what the   *)
(* catalogues say, and the merge; beside them the upgrade of the program,  *)
(* the page of a chat session, the GitHub accesses of a person and the     *)
(* version inventory.  Each reads what another has left as an input of its *)
(* own, so turn says which of them a behaviour is about.                   *)
EXTENDS TLC,
  ReviewRuns, ReviewCatalogue, ReviewMerge, ProgramUpgrade, ChatPage,
  GithubAccess, Inventory, BranchList

VARIABLE turn

\* The parts, each with its variables.
Turns == {"runs", "catalogue", "merge", "upgrade", "page", "github", "inventory", "listing"}
allVars == <<turn, runVars, catalogueVars, mergeVars, upgradeVars,
             pageVars, accessVars, inventoryVars, listVars>>

\* Two clones: one with a fork that the branch names, one whose remotes were taken
\* away by hand while their refs stayed.
CloneWith(remotes, follows, tips) ==
  [head |-> "main", remotes |-> remotes, elsewhere |-> {}, objects |-> Reach,
   follows |-> [n \in BranchName |-> follows],
   points |-> [r \in GitRemote |-> IF r \in remotes THEN "main" ELSE ""],
   tip |-> [p \in RefPlace |-> [n \in BranchName |->
             IF <<p, n>> \in DOMAIN tips THEN tips[<<p, n>>] ELSE Gone]]]
Clones ==
  <<CloneWith({"origin", "fork"}, "fork",
      <<"", "main">> :> {1} @@ <<"origin", "main">> :> {1, 2} @@ <<"", "stage">> :> {1}
      @@ <<"fork", "work">> :> {1, 2}),
    CloneWith({}, "",
      <<"", "main">> :> {1, 2} @@ <<"origin", "work">> :> {1} @@ <<"fork", "work">> :> {1, 2})>>

\* The part whose turn it is starts anywhere it may start, the others in one state.
Init ==
  /\ turn \in Turns
  /\ \/ turn = "runs" /\ RunsInit
     \/ turn # "runs" /\ RunsBegin(RunEntries, {}, {}, 0)
  /\ CatalogueInit
  /\ MergeInit
  /\ \/ turn = "upgrade" /\ UpgradeInit
     \/ turn # "upgrade" /\ UpgradeBegin(1, 1, 1, "target", "https", TRUE, FALSE)
  /\ \/ turn = "page" /\ PageInit
     \/ turn # "page" /\ PageBegin(NoRun, {"other"})
  /\ \/ turn = "github" /\ AccessInit
     \/ turn # "github" /\ AccessBegin(NoFile, AllGood, AllWrite, {})
  /\ \/ turn = "inventory" /\ InventoryInit
     \/ turn # "inventory" /\ InventoryBegin(Bare, NoConfig, NoDoc)
  /\ \/ turn = "listing" /\ \E i \in DOMAIN Clones : ListBegin(Clones[i])
     \/ turn # "listing" /\ ListBegin(Clones[1])

\* Only that part goes on.
Next ==
  /\ UNCHANGED turn
  /\ \/ turn = "runs" /\ RunsNext /\ UNCHANGED <<catalogueVars, mergeVars, upgradeVars, pageVars,
           accessVars, inventoryVars, listVars>>
     \/ turn = "catalogue" /\ CatalogueNext /\ UNCHANGED <<runVars, mergeVars, upgradeVars,
           pageVars, accessVars, inventoryVars, listVars>>
     \/ turn = "merge" /\ MergeNext /\ UNCHANGED <<runVars, catalogueVars, upgradeVars, pageVars,
           accessVars, inventoryVars, listVars>>
     \/ turn = "upgrade" /\ UpgradeNext /\ UNCHANGED <<runVars, catalogueVars, mergeVars,
           pageVars, accessVars, inventoryVars, listVars>>
     \/ turn = "page" /\ PageNext /\ UNCHANGED <<runVars, catalogueVars, mergeVars, upgradeVars,
           accessVars, inventoryVars, listVars>>
     \/ turn = "github" /\ AccessNext /\ UNCHANGED <<runVars, catalogueVars, mergeVars,
           upgradeVars, pageVars, inventoryVars, listVars>>
     \/ turn = "inventory" /\ InventoryNext /\ UNCHANGED <<runVars, catalogueVars, mergeVars,
           upgradeVars, pageVars, accessVars, listVars>>
     \/ turn = "listing" /\ ListNext /\ UNCHANGED <<runVars, catalogueVars, mergeVars,
           upgradeVars, pageVars, accessVars, inventoryVars>>

Spec == Init /\ [][Next]_allVars

\* Every part keeps its types; those that stand still keep those they began with.
TypeOK ==
  /\ turn \in Turns
  /\ turn = "runs" => RunsTypeOK
  /\ turn = "catalogue" => CatalogueTypeOK
  /\ turn = "merge" => MergeTypeOK
  /\ turn = "upgrade" => UpgradeTypeOK
  /\ turn = "page" => PageTypeOK
  /\ turn = "github" => AccessTypeOK
  /\ turn = "inventory" => InventoryTypeOK
  /\ turn = "listing" => ListTypeOK

\* The calls of each part are alike; the parts call them by the same names.
CallsAlike == Permutations(Caller)
==============================================================================
