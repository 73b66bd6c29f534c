------------------------------- MODULE Requests -------------------------------
(***************************************************************************)
(* The requests on rows of the database: Sync, Catalogue, ScriptRows and   *)
(* Accounts.  They share no row, so what holds of each of them alone holds *)
(* of them together; part, chosen at the start, says which one moves.      *)
(***************************************************************************)
EXTENDS Naturals

CONSTANTS
    SyncThread, TaskName, SyncRun, PageSize, MaxDays, MaxSync,
    CatThread, ProjectName, About, CatNode, MaxJob, MaxCat,
    RowThread, SpiderName, Cfg, MaxRow, MaxRowOps,
    UserThread, UserName, Right, Value, MaxRows, MaxUserOps

ASSUME BoundsAssumption ==
    /\ PageSize \in Nat \ {0}
    /\ MaxDays \in Nat
    /\ MaxSync \in Nat
    /\ MaxJob \in Nat
    /\ MaxCat \in Nat
    /\ MaxRow \in Nat \ {0}
    /\ MaxRowOps \in Nat
    /\ MaxRows \in Nat \ {0}
    /\ MaxUserOps \in Nat

VARIABLES
    part,
    strict, tasks, instances, dataDays, data, req, browser, asked,
    raced, removed, overtaken, killed,
    jobs, projects, nodes, deploys, made, creq, casked, extra, orphaned, crossed,
    scripts, lastId, rreq, rasked, wanted, late, spoiled, doubled,
    users, roles, live, ureq, uasked,
    meant, given, broken, behind, undone, mixed, twice, left

syncState == <<strict, tasks, instances, dataDays, data, req, browser, asked,
               raced, removed, overtaken, killed>>
catState == <<jobs, projects, nodes, deploys, made, creq, casked, extra, orphaned,
              crossed>>
rowState == <<scripts, lastId, rreq, rasked, wanted, late, spoiled, doubled>>
userState == <<users, roles, live, ureq, uasked, meant, given, broken, behind,
               undone, mixed, twice, left>>

S == INSTANCE Sync
C == INSTANCE Catalogue
R == INSTANCE ScriptRows
A == INSTANCE Accounts

\* The parts that do not move start in one state.
Init ==
    /\ part \in {"sync", "catalogue", "scripts", "accounts"}
    /\ S!Init /\ C!Init /\ R!Init /\ A!Init
    /\ part # "sync" => strict
    /\ part # "catalogue" => made = {}
    /\ part # "scripts" => scripts[1].path /\ scripts[1].name = CHOOSE n \in SpiderName : TRUE
    /\ part # "accounts" => /\ roles[1] = CHOOSE n \in UserName : TRUE
                            /\ roles[1] = users[1].name
                            /\ users[1].pwd = CHOOSE v \in Value : TRUE

Next ==
    /\ UNCHANGED part
    /\ \/ /\ part = "sync"
          /\ S!Next
          /\ UNCHANGED <<catState, rowState, userState>>
       \/ /\ part = "catalogue"
          /\ C!Next
          /\ UNCHANGED <<syncState, rowState, userState>>
       \/ /\ part = "scripts"
          /\ R!Next
          /\ UNCHANGED <<syncState, catState, userState>>
       \/ /\ part = "accounts"
          /\ A!Next
          /\ UNCHANGED <<syncState, catState, rowState>>

vars == <<part, syncState, catState, rowState, userState>>

Spec == Init /\ [][Next]_vars

-----------------------------------------------------------------------------
\* Every variable of every part keeps its type.
TypeOK == S!TypeOK /\ C!TypeOK /\ R!TypeOK /\ A!TypeOK

\* Sync: the reports of a run go to one row (sync_instance_create).
OneRowPerRun == S!OneRowPerRun

\* Sync: the rows that are deleted are those the confirmed requests named
\* (sync_instance_delete).
DeletedAsConfirmed == S!DeletedAsConfirmed

\* Sync: a run that has ended is not removed from the list, but for a report that
\* came during the request (sync_instance_delete).
EndedStaysListed == [][S!KeepsEnded]_syncState

\* Sync: the pages show all of what was there (sync_instance_list, page_helper).
BrowseSeesAll == [][S!LastPageCompletes]_syncState

\* Catalogue: projects, nodes and deployments that handlers get are there, once.
RowsFoundOnce == C!RowsFoundOnce

\* ScriptRows: a script's row is as the last confirmed request made it, and there
\* is one (edit_script_cfg, control_script, script_remove, project_file_read).
ScriptsAsConfirmed == R!ScriptsAsConfirmed

\* Accounts: one user, and one role, of a name (create_user, create_role).
OneRowPerName == A!OneRowPerName

\* Accounts: links and users are as the last request made them, and what is left of
\* one that broke off is part of what it asked for (create_user, edit_user,
\* remove_user, edit_role, create_role).
AccountsAsConfirmed == A!AccountsAsConfirmed

\* Sync: what sync_data_kill_all's comment says: all the data of the back-fill is
\* killed.
KilledAll == S!KilledAll
=============================================================================
