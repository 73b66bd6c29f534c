----------------------------- MODULE MCRequests -----------------------------
EXTENDS Requests, TLC
Symmetry ==
    UNION {Permutations(X) : X \in {SyncThread, TaskName, SyncRun, CatNode}}

OnRole(r) == r.op = "role" \/ (r.op \in {"unlink", "link"} /\ r.owner[1] = "role")
OnUser(r) == r # A!None /\ ~ OnRole(r)

RolesUntouched ==
    /\ DOMAIN roles = {1}
    /\ given[A!Role(1)] = {}
    /\ \A t \in UserThread : ~ OnRole(ureq[t])

UsersUntouched ==
    /\ meant = <<[users[1] EXCEPT !.pwd = users[1].profile]>>
    /\ given[A!User(1)] = {}
    /\ \A t \in UserThread : ~ OnUser(ureq[t])

\* Roles and users share no statement: a role's name is never compared with a user's,
\* and the links of each are in a table of their own.  So one choice of the names is
\* enough, and a behaviour is of requests for roles or of requests for users.
MCInit == Init /\ roles[1] = users[1].name
MCSpec == MCInit /\ [][Next /\ (RolesUntouched \/ UsersUntouched)']_vars
=============================================================================
