------------------------------- MODULE Accounts -------------------------------
(***************************************************************************)
(* Users, their roles, and the roles' permissions (user/views.py).         *)
(*                                                                         *)
(* A request that sets the roles of a user, or the permissions of a role,  *)
(* marks the links there are as deleted and makes the new ones one by one; *)
(* one that edits a user, gives him a password or removes him saves the    *)
(* whole row it got.  Every statement commits on its own, and any of them  *)
(* may fail: then what was done before it stays.  Links that are marked as *)
(* deleted are left out: they are only read for the tree of permissions in *)
(* Redis, which nothing uses (server/middleware/auth.py).                  *)
(***************************************************************************)
EXTENDS Naturals, Sequences, FiniteSets

CONSTANTS
    UserThread,     \* threads that handle requests
    UserName,       \* names of users, and of roles
    Right,          \* roles that users have, and permissions that roles have
    Value,          \* contents of a profile, and passwords
    MaxRows,        \* bound on users, and on roles
    MaxUserOps      \* bound on requests

VARIABLES
    users,      \* CrawlUser rows by id
    roles,      \* names of CrawlRole rows by id
    live,       \* live[o]: what owner o, a user or a role, is linked to
    ureq,       \* ureq[t]: the request t handles, between two statements
    uasked,     \* requests so far (bound)
    meant,      \* meant[i]: user i as the requests that wrote him made him (history)
    given,      \* given[o]: the links that the last request asked for (history)
    broken,     \* owners whose links that request has not all made (history)
    behind,     \* threads whose user was written after they got it (history)
    undone,     \* users such a thread has saved (history)
    mixed,      \* owners that two requests have linked at once (history)
    twice,      \* names with two creations at once (history)
    left        \* users that were removed (history)

userHistory == <<meant, given, broken, behind, undone, mixed, twice, left>>
userVars == <<users, roles, live, ureq, uasked, userHistory>>

None == [op |-> "none"]
User(i) == <<"user", i>>
Role(i) == <<"role", i>>
Owner == {User(i) : i \in 1 .. MaxRows} \cup {Role(i) : i \in 1 .. MaxRows}

\* One user, and one role, without links.
Init ==
    /\ users \in {<<[name |-> n, profile |-> v, pwd |-> v, deleted |-> FALSE]>> :
                    n \in UserName, v \in Value}
    /\ roles \in {<<n>> : n \in UserName}
    /\ live = [o \in Owner |-> {}]
    /\ ureq = [t \in UserThread |-> None]
    /\ uasked = 0
    /\ meant = users
    /\ given = live
    /\ broken = {}
    /\ behind = {}
    /\ undone = {}
    /\ mixed = {}
    /\ twice = {}
    /\ left = {}

Take(t) ==
    /\ ureq[t] = None
    /\ uasked < MaxUserOps
    /\ uasked' = uasked + 1

Hold(t, r) == ureq' = [ureq EXCEPT ![t] = r]
Done(t) == Hold(t, None)

\* The threads that hold user i, and are going to save it.
Holding(t, i) == {u \in UserThread \ {t} : ureq[u].op = "save" /\ ureq[u].id = i}

\* The owner whose links t replaces, or is going to.
Linking(t) ==
    CASE ureq[t].op \in {"unlink", "link"}         -> {ureq[t].owner}
      [] ureq[t].op = "save" /\ ureq[t].relink     -> {User(ureq[t].id)}
      [] OTHER                                     -> {}

Creating(t, what, name) ==
    twice' = IF \E u \in UserThread : /\ ureq[u].op = what
                                      /\ ureq[u].name = name
             THEN twice \cup {<<what, name>>} ELSE twice

-----------------------------------------------------------------------------
(* Links.                                                                  *)

StartLinking(t, o) ==
    mixed' = IF \E u \in UserThread \ {t} : o \in Linking(u)
             THEN mixed \cup {o} ELSE mixed

\* Fault variant: the links there are stay.
UnlinkNone(t) ==
    LET r == ureq[t] IN
    /\ r.op = "unlink"
    /\ Hold(t, [op |-> "link", owner |-> r.owner, todo |-> r.links, all |-> r.links])
    /\ UNCHANGED <<users, roles, live, uasked, userHistory>>

\* filter(...).update(is_deleted=1)
Unlink(t) ==
    LET r == ureq[t] IN
    /\ r.op = "unlink"
    /\ live' = [live EXCEPT ![r.owner] = {}]
    /\ Hold(t, [op |-> "link", owner |-> r.owner, todo |-> r.links, all |-> r.links])
    /\ UNCHANGED <<users, roles, uasked, userHistory>>

Link(t, x) ==
    LET r == ureq[t] IN
    /\ r.op = "link"
    /\ x \in r.todo
    /\ live' = [live EXCEPT ![r.owner] = @ \cup {x}]
    /\ Hold(t, [r EXCEPT !.todo = @ \ {x}])
    /\ UNCHANGED <<users, roles, uasked, userHistory>>

Confirm(t) ==
    LET r == ureq[t] IN
    /\ r.op = "link"
    /\ r.todo = {}
    /\ given' = [given EXCEPT ![r.owner] = r.all]
    /\ broken' = broken \ {r.owner}
    /\ Done(t)
    /\ UNCHANGED <<users, roles, live, uasked, meant, behind, undone, mixed, twice, left>>

\* A statement fails: the loop over a list that was not sent, a create, a save, the
\* tree of permissions or Redis.  The request ends there, with a failure for an
\* answer, and what it has written stays.
BreakOff(t) ==
    LET r == ureq[t] IN
    /\ r # None
    /\ IF r.op = "link"
       THEN /\ given' = [given EXCEPT ![r.owner] = r.all]
            /\ broken' = broken \cup {r.owner}
       ELSE UNCHANGED <<given, broken>>
    /\ behind' = behind \ {t}
    /\ Done(t)
    /\ UNCHANGED <<users, roles, live, uasked, meant, undone, mixed, twice, left>>

-----------------------------------------------------------------------------
(* Users.                                                                  *)

\* Fault variant: the name is not looked for.
CreateUserAny(t, name, links) ==
    /\ Take(t)
    /\ Hold(t, [op |-> "user", name |-> name, links |-> links])
    /\ Creating(t, "user", name)
    /\ UNCHANGED <<users, roles, live, meant, given, broken, behind, undone, mixed, left>>

\* "账号名存在" if a user has the name who was not removed.
CreateUser(t, name, links) ==
    /\ Take(t)
    /\ IF \E i \in DOMAIN users : users[i].name = name /\ ~ users[i].deleted
       THEN UNCHANGED <<ureq, twice>>
       ELSE /\ Hold(t, [op |-> "user", name |-> name, links |-> links])
            /\ Creating(t, "user", name)
    /\ UNCHANGED <<users, roles, live, meant, given, broken, behind, undone, mixed, left>>

InsertUser(t, v) ==
    LET r == ureq[t]
        row == [name |-> r.name, profile |-> v, pwd |-> v, deleted |-> FALSE]
    IN /\ r.op = "user"
       /\ Len(users) < MaxRows
       /\ users' = Append(users, row)
       /\ meant' = Append(meant, row)
       /\ Hold(t, [op |-> "link", owner |-> User(Len(users')), todo |-> r.links,
                   all |-> r.links])
       /\ UNCHANGED <<roles, live, uasked, given, broken, behind, undone, mixed, twice, left>>

\* Gets user i, to save him with column col set to v.
Get(t, i, col, v, relink, links) ==
    /\ Take(t)
    /\ Hold(t, [op |-> "save", id |-> i, col |-> col, to |-> v, row |-> users[i],
                relink |-> relink, links |-> links])
    /\ UNCHANGED <<users, roles, live, meant, given, broken, behind, undone, twice, left>>

\* A removed user is not refused.
EditUser(t, i, v, links) == Get(t, i, "profile", v, TRUE, links) /\ StartLinking(t, User(i))
RemoveUser(t, i) == Get(t, i, "deleted", TRUE, TRUE, {}) /\ StartLinking(t, User(i))
ResetPwd(t, i, v) == Get(t, i, "pwd", v, FALSE, {}) /\ UNCHANGED mixed

\* "密码不正确"
ResetProfilePwd(t, i, old, v) == users[i].pwd = old /\ ResetPwd(t, i, v)

\* save(): the whole row, as it was got but for the one column.
SaveUser(t) ==
    LET r == ureq[t] IN
    /\ r.op = "save"
    /\ users' = [users EXCEPT ![r.id] = [r.row EXCEPT ![r.col] = r.to]]
    /\ meant' = [meant EXCEPT ![r.id][r.col] = r.to]
    /\ undone' = IF t \in behind THEN undone \cup {r.id} ELSE undone
    /\ behind' = (behind \ {t}) \cup Holding(t, r.id)
    /\ left' = IF r.col = "deleted" THEN left \cup {r.id} ELSE left
    /\ IF r.relink
       THEN Hold(t, [op |-> "unlink", owner |-> User(r.id), links |-> r.links])
       ELSE Done(t)
    /\ UNCHANGED <<roles, live, uasked, given, broken, mixed, twice>>

\* One UPDATE of the profile's columns.
EditProfile(t, i, v) ==
    /\ Take(t)
    /\ users' = [users EXCEPT ![i].profile = v]
    /\ meant' = [meant EXCEPT ![i].profile = v]
    /\ behind' = behind \cup Holding(t, i)
    /\ UNCHANGED <<roles, live, ureq, given, broken, undone, mixed, twice, left>>

-----------------------------------------------------------------------------
(* Roles.                                                                  *)

\* "角色名存在"
CreateRole(t, name, links) ==
    /\ Take(t)
    /\ IF \E i \in DOMAIN roles : roles[i] = name
       THEN UNCHANGED <<ureq, twice>>
       ELSE /\ Hold(t, [op |-> "role", name |-> name, links |-> links])
            /\ Creating(t, "role", name)
    /\ UNCHANGED <<users, roles, live, meant, given, broken, behind, undone, mixed, left>>

InsertRole(t) ==
    LET r == ureq[t] IN
    /\ r.op = "role"
    /\ Len(roles) < MaxRows
    /\ roles' = Append(roles, r.name)
    /\ Hold(t, [op |-> "link", owner |-> Role(Len(roles')), todo |-> r.links,
                all |-> r.links])
    /\ UNCHANGED <<users, live, uasked, userHistory>>

EditRole(t, i, links) ==
    /\ Take(t)
    /\ Hold(t, [op |-> "unlink", owner |-> Role(i), links |-> links])
    /\ StartLinking(t, Role(i))
    /\ UNCHANGED <<users, roles, live, meant, given, broken, behind, undone, twice, left>>

-----------------------------------------------------------------------------
Serve(t) ==
    \/ \E name \in UserName, links \in SUBSET Right :
          CreateUser(t, name, links) \/ CreateRole(t, name, links)
    \/ \E v \in Value : InsertUser(t, v)
    \/ \E i \in DOMAIN users, v \in Value :
          \/ \E links \in SUBSET Right : EditUser(t, i, v, links)
          \/ \E old \in Value : ResetProfilePwd(t, i, old, v)
          \/ ResetPwd(t, i, v)
          \/ EditProfile(t, i, v)
    \/ \E i \in DOMAIN users : RemoveUser(t, i)
    \/ \E i \in DOMAIN roles, links \in SUBSET Right : EditRole(t, i, links)
    \/ \E x \in Right : Link(t, x)
    \/ SaveUser(t) \/ Unlink(t) \/ Confirm(t) \/ BreakOff(t) \/ InsertRole(t)

Next == \E t \in UserThread : Serve(t)

Spec == Init /\ [][Next]_userVars

-----------------------------------------------------------------------------
TypeOK ==
    /\ users \in Seq([name : UserName, profile : Value, pwd : Value, deleted : BOOLEAN])
    /\ roles \in Seq(UserName)
    /\ live \in [Owner -> SUBSET Right]
    /\ uasked \in 0 .. MaxUserOps
    /\ behind \subseteq {t \in UserThread : ureq[t].op = "save"}

\* login gets the user by the name alone.  Of the users with one name, all but one
\* were removed before; and no two roles have one name: unless two requests made
\* them at once.
OneRowPerName ==
    /\ \A i, j \in DOMAIN users :
          (i # j /\ users[i].name = users[j].name) =>
              {i, j} \cap left # {} \/ <<"user", users[i].name>> \in twice
    /\ \A i, j \in DOMAIN roles :
          (i # j /\ roles[i] = roles[j]) => <<"role", roles[i]>> \in twice

\* t has taken away the links of o, and is making the new ones.
AtLinks(t, o) == ureq[t].op = "link" /\ ureq[t].owner = o

\* All that was asked for, and nothing else: or part of it, if the request broke off.
AsAsked(o) ==
    /\ live[o] \subseteq given[o]
    /\ o \notin broken => live[o] = given[o]

\* The roles of a user, and the permissions of a role, are those that the last
\* request asked for, while none is making them.  One that broke off leaves part
\* of them, and none of those there were before, until the next request.  Exception:
\* two requests at once, whose links then stay together.
RolesAsConfirmed ==
    \A o \in Owner \ mixed :
        (\A t \in UserThread : ~ AtLinks(t, o)) => AsAsked(o)

\* Each column of a user - profile, password, removal - is as the last request that
\* wrote it meant it, unless one that had got the row before saved it after.
UsersAsConfirmed ==
    \A i \in DOMAIN users : i \notin undone => users[i] = meant[i]

AccountsAsConfirmed == RolesAsConfirmed /\ UsersAsConfirmed
=============================================================================
