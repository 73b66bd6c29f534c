------------------------------ MODULE Catalogue ------------------------------
(***************************************************************************)
(* Tasks, projects, nodes and deployments: their rows, under the requests  *)
(* of several processes (project_views.py, task_views.py, node_views.py).  *)
(* Every statement commits on its own, and the tables have no unique       *)
(* columns but their ids.  Handlers look rows up with get, which raises    *)
(* if it finds none or more than one.                                      *)
(*                                                                         *)
(* The disk is here only the set of names that have a directory (see       *)
(* WorkDir).                                                               *)
(***************************************************************************)
EXTENDS Naturals, Sequences, FiniteSets

CONSTANTS
    CatThread,      \* threads that handle requests
    ProjectName,    \* names of projects
    About,          \* descriptions
    CatNode,        \* nodes
    MaxJob,         \* bound on tasks
    MaxCat          \* bound on requests

VARIABLES
    jobs,       \* CrawlTask rows, by id
    projects,   \* CrawlProject rows, by id
    nodes,      \* CrawlNode rows
    deploys,    \* CrawlDeploy rows
    made,       \* names that have a directory
    creq,       \* creq[t]: the request t handles, between two statements
    casked,     \* requests so far (bound)
    extra,      \* names with a creation that was refused or failed to make its
                \* directory, or with a build that made a row when another had
                \* been made (history)
    orphaned,   \* nodes removed during a deployment (history)
    crossed     \* pairs of node and project with two deployments at once (history)

catHistory == <<extra, orphaned, crossed>>
catVars == <<jobs, projects, nodes, deploys, made, creq, casked, catHistory>>

None == [op |-> "none"]
NewJob == [project |-> 0, deleted |-> FALSE, deployed |-> FALSE]
DeployRow(node, project, at, by) ==
    [node |-> node, project |-> project, deleted |-> FALSE, at |-> at, by |-> by]

\* One task, which runs on all the nodes, and has no project yet; directories may
\* have been put there by hand.
Init ==
    /\ jobs = <<NewJob>>
    /\ projects = <<>>
    /\ nodes = CatNode
    /\ deploys = {}
    /\ made \in SUBSET ProjectName
    /\ creq = [t \in CatThread |-> None]
    /\ casked = 0
    /\ extra = {}
    /\ orphaned = {}
    /\ crossed = {}

Take(t) ==
    /\ creq[t] = None
    /\ casked < MaxCat
    /\ casked' = casked + 1

Hold(t, r) == creq' = [creq EXCEPT ![t] = r]
Done(t) == Hold(t, None)
Keep(t) == UNCHANGED casked

\* objects.filter(name=name), and with is_deleted=0
Named(name) == {i \in DOMAIN projects : projects[i].name = name}
LiveNamed(name) == {i \in Named(name) : ~ projects[i].deleted}
TheOnly(S) == CHOOSE x \in S : TRUE

-----------------------------------------------------------------------------
(* Tasks.                                                                  *)

\* A live task with the name is refused; names are left out, so either happens.
TaskCreate(t) ==
    /\ Take(t)
    /\ Len(jobs) < MaxJob
    /\ jobs' = Append(jobs, NewJob)
    /\ UNCHANGED <<projects, nodes, deploys, made, creq, catHistory>>

\* task_remove: the task is read, and saved whole; then its project.
TaskRemove(t, i) ==
    /\ Take(t)
    /\ Hold(t, [op |-> "saveTask", task |-> i, row |-> [jobs[i] EXCEPT !.deleted = TRUE],
                next |-> "getProject"])
    /\ UNCHANGED <<jobs, projects, nodes, deploys, made, catHistory>>

\* task.save(), in task_remove and in task_deploy.
SaveTask(t) ==
    LET r == creq[t] IN
    /\ r.op = "saveTask"
    /\ jobs' = [jobs EXCEPT ![r.task] = r.row]
    /\ IF r.next = "getProject"
       THEN IF r.row.project = 0 THEN Done(t)
            ELSE Hold(t, [op |-> "getProject", project |-> r.row.project])
       ELSE Hold(t, [op |-> "deploy", project |-> r.project, left |-> CatNode])
    /\ Keep(t)
    /\ UNCHANGED <<projects, nodes, deploys, made, catHistory>>

GetProject(t) ==
    LET r == creq[t] IN
    /\ r.op = "getProject"
    /\ Hold(t, [op |-> "saveProject", project |-> r.project,
                row |-> [projects[r.project] EXCEPT !.deleted = TRUE]])
    /\ Keep(t)
    /\ UNCHANGED <<jobs, projects, nodes, deploys, made, catHistory>>

\* project.save(), in task_remove and in project_build.
SaveProject(t) ==
    LET r == creq[t] IN
    /\ r.op = "saveProject"
    /\ projects' = [projects EXCEPT ![r.project] = r.row]
    /\ Done(t)
    /\ Keep(t)
    /\ UNCHANGED <<jobs, nodes, deploys, made, catHistory>>

-----------------------------------------------------------------------------
(* Creating and building projects.                                         *)

\* update_or_create(**data) of project_create: all the data is what the row is
\* looked up by, so it is found, deleted or not, or made, or found twice.
ProjectCreate(t, name, about, i) ==
    LET row == [name |-> name, about |-> about, task |-> i, deleted |-> FALSE]
        found == {j \in Named(name) : projects[j].about = about /\ projects[j].task = i}
    IN /\ Take(t)
       /\ IF Cardinality(found) > 1
          THEN UNCHANGED <<projects, creq>>
          ELSE /\ projects' = IF found = {} THEN Append(projects, row) ELSE projects
               /\ Hold(t, [op |-> "mkdir", task |-> i, project |->
                              IF found = {} THEN Len(projects') ELSE TheOnly(found)])
       /\ UNCHANGED <<jobs, nodes, deploys, made, catHistory>>

\* Fault variant: a directory that is there is no reason to refuse.
MakeProjectAnyway(t) ==
    LET r == creq[t]
        name == projects[r.project].name
    IN /\ r.op = "mkdir"
       /\ made' = made \cup {name}
       /\ Hold(t, [r EXCEPT !.op = "generate"])
       /\ Keep(t)
       /\ UNCHANGED <<jobs, projects, nodes, deploys, catHistory>>

\* os.mkdir, with the row made or found before.  If there is a directory of the
\* name ("该工程已存在"), or none can be made, the creation fails and the row stays.
MakeProject(t) ==
    LET r == creq[t]
        name == projects[r.project].name
    IN /\ r.op = "mkdir"
       /\ \/ /\ name \notin made
             /\ made' = made \cup {name}
             /\ Hold(t, [r EXCEPT !.op = "generate"])
             /\ UNCHANGED extra
          \/ /\ Done(t)
             /\ extra' = extra \cup {name}
             /\ UNCHANGED made
       /\ Keep(t)
       /\ UNCHANGED <<jobs, projects, nodes, deploys, orphaned, crossed>>

\* The project is generated, and its task is linked to it: or there is no
\* description, or generating fails.
Generate(t) ==
    LET r == creq[t] IN
    /\ r.op = "generate"
    /\ jobs' \in {jobs, [jobs EXCEPT ![r.task].project = r.project]}
    /\ Done(t)
    /\ Keep(t)
    /\ UNCHANGED <<projects, nodes, deploys, made, catHistory>>

\* project_build once there is an egg: is there a row with the name?
ProjectBuild(t, name) ==
    /\ Take(t)
    /\ name \in made
    /\ Hold(t, [op |-> "build", name |-> name, found |-> Named(name) # {}])
    /\ UNCHANGED <<jobs, projects, nodes, deploys, made, catHistory>>

\* If not, it is made; if there is, the live one is read, to be saved whole.
BuildRow(t, about) ==
    LET r == creq[t]
        live == LiveNamed(r.name)
    IN /\ r.op = "build"
       /\ IF ~ r.found
          THEN /\ projects' = Append(projects, [name |-> r.name, about |-> about,
                                                task |-> 0, deleted |-> FALSE])
               /\ extra' = IF Named(r.name) = {} THEN extra ELSE extra \cup {r.name}
               /\ Done(t)
          ELSE /\ IF Cardinality(live) = 1
                  THEN Hold(t, [op |-> "saveProject", project |-> TheOnly(live),
                                row |-> [projects[TheOnly(live)] EXCEPT !.about = about]])
                  ELSE Done(t)
               /\ UNCHANGED <<projects, extra>>
       /\ Keep(t)
       /\ UNCHANGED <<jobs, nodes, deploys, made, orphaned, crossed>>

-----------------------------------------------------------------------------
(* Deployment, and removing nodes.                                         *)

\* task_deploy once there is an egg: the one live project, its task, with the
\* task's row saved whole.
TaskDeploy(t, name) ==
    LET live == LiveNamed(name)
        p == TheOnly(live)
    IN /\ Take(t)
       /\ name \in made
       /\ Cardinality(live) = 1
       /\ projects[p].task # 0
       /\ Hold(t, [op |-> "saveTask", task |-> projects[p].task, next |-> "deploy",
                   project |-> p,
                   row |-> [jobs[projects[p].task] EXCEPT !.deployed = TRUE]])
       /\ UNCHANGED <<jobs, projects, nodes, deploys, made, catHistory>>

\* The next node is read and gets the egg; if it is gone, or does not answer, the
\* deployment ends.
ShipTo(t, n) ==
    LET r == creq[t] IN
    /\ r.op = "deploy"
    /\ n \in r.left
    /\ \/ /\ n \in nodes
          /\ Hold(t, [op |-> "markOld", project |-> r.project, left |-> r.left \ {n},
                      node |-> n])
       \/ Done(t)
    /\ Keep(t)
    /\ UNCHANGED <<jobs, projects, nodes, deploys, made, catHistory>>

EndDeploy(t) ==
    /\ creq[t].op = "deploy"
    /\ creq[t].left = {}
    /\ Done(t)
    /\ Keep(t)
    /\ UNCHANGED <<jobs, projects, nodes, deploys, made, catHistory>>

SameDeploy(t, u) ==
    /\ u # t
    /\ creq[u].op = "newDeploy"
    /\ creq[u].node = creq[t].node
    /\ creq[u].project = creq[t].project

\* update(is_deleted=1) of the deployments there were.
MarkOld(t) ==
    LET r == creq[t] IN
    /\ r.op = "markOld"
    /\ deploys' = {IF d.node = r.node /\ d.project = r.project
                   THEN [d EXCEPT !.deleted = TRUE] ELSE d : d \in deploys}
    /\ crossed' = IF \E u \in CatThread : SameDeploy(t, u)
                  THEN crossed \cup {<<r.node, r.project>>} ELSE crossed
    /\ Hold(t, [r EXCEPT !.op = "newDeploy"])
    /\ Keep(t)
    /\ UNCHANGED <<jobs, projects, nodes, made, extra, orphaned>>

\* update_or_create with the time of now: always a new row.
NewDeploy(t) ==
    LET r == creq[t] IN
    /\ r.op = "newDeploy"
    /\ deploys' = deploys \cup {DeployRow(r.node, r.project, casked, t)}
    /\ orphaned' = IF r.node \notin nodes
                       \/ \E u \in CatThread : creq[u] = [op |-> "dropNode", node |-> r.node]
                    THEN orphaned \cup {r.node} ELSE orphaned
    /\ Hold(t, [op |-> "deploy", project |-> r.project, left |-> r.left])
    /\ Keep(t)
    /\ UNCHANGED <<jobs, projects, nodes, made, extra, crossed>>

\* Fault variant: the deployments stay.
NodeRemoveOnly(t, n) ==
    /\ Take(t)
    /\ n \in nodes
    /\ Hold(t, [op |-> "dropNode", node |-> n])
    /\ UNCHANGED <<jobs, projects, nodes, deploys, made, catHistory>>

\* node_remove: first the deployments on the node,
NodeRemove(t, n) ==
    /\ Take(t)
    /\ n \in nodes
    /\ deploys' = {d \in deploys : d.node # n}
    /\ Hold(t, [op |-> "dropNode", node |-> n])
    /\ UNCHANGED <<jobs, projects, nodes, made, catHistory>>

\* then the node.
DropNode(t) ==
    /\ creq[t].op = "dropNode"
    /\ nodes' = nodes \ {creq[t].node}
    /\ Done(t)
    /\ Keep(t)
    /\ UNCHANGED <<jobs, projects, deploys, made, catHistory>>

-----------------------------------------------------------------------------
Serve(t) ==
    \/ TaskCreate(t)
    \/ \E i \in DOMAIN jobs :
          \/ TaskRemove(t, i)
          \/ \E name \in ProjectName, about \in About : ProjectCreate(t, name, about, i)
    \/ SaveTask(t) \/ GetProject(t) \/ SaveProject(t)
    \/ MakeProject(t) \/ Generate(t)
    \/ \E name \in ProjectName : ProjectBuild(t, name) \/ TaskDeploy(t, name)
    \/ \E about \in About : BuildRow(t, about)
    \/ \E n \in CatNode : ShipTo(t, n) \/ NodeRemove(t, n)
    \/ EndDeploy(t) \/ MarkOld(t) \/ NewDeploy(t) \/ DropNode(t)

Next == \E t \in CatThread : Serve(t)

Spec == Init /\ [][Next]_catVars

-----------------------------------------------------------------------------
TypeOK ==
    /\ jobs \in Seq([project : 0 .. Len(projects), deleted : BOOLEAN, deployed : BOOLEAN])
    /\ projects \in Seq([name : ProjectName, about : About, task : 0 .. Len(jobs),
                         deleted : BOOLEAN])
    /\ nodes \subseteq CatNode
    /\ \A d \in deploys : d.node \in CatNode /\ d.project \in DOMAIN projects
    /\ made \subseteq ProjectName
    /\ casked \in 0 .. MaxCat

\* project_build and task_deploy get the project's live row by its name.
OneRowPerProject ==
    \A i, j \in DOMAIN projects :
        (i # j /\ projects[i].name = projects[j].name
            /\ ~ projects[i].deleted /\ ~ projects[j].deleted)
        => \/ projects[i].name \in extra
           \/ \E t \in CatThread : /\ creq[t].op = "mkdir"
                                    /\ projects[creq[t].project].name = projects[i].name

\* node_spider_list gets the node of every deployment, deleted or not.
DeployedNodesThere == \A d \in deploys : d.node \in nodes \cup orphaned

\* What runs on a node for a project is told by one row.
OneDeployEach ==
    \A d, e \in deploys :
        (d # e /\ d.node = e.node /\ d.project = e.project /\ ~ d.deleted /\ ~ e.deleted)
        => <<d.node, d.project>> \in crossed

\* The rows that handlers get are there, and once.  Exceptions: a creation that is
\* refused, or cannot make its directory, leaves the row it made, and once there
\* are two the project can be neither built nor deployed; a node removed in the
\* middle of a deployment leaves a row behind, and the list of the task's spiders
\* fails; two deployments at once leave a live row each.
RowsFoundOnce == OneRowPerProject /\ DeployedNodesThere /\ OneDeployEach
=============================================================================
