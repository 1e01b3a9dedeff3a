------------------------------ MODULE Documents -------------------------------
(***************************************************************************)
(* Dashboard documents (dashboards.json) and what other files keep about   *)
(* them: permissions, versions and share links (web/dashboards.py,         *)
(* dashboard_permissions.py, dashboard_versions.py and their endpoints).   *)
(*                                                                         *)
(* Every request runs to its end on the event loop, and loads each file it *)
(* uses.  A file whose save was cut off counts as empty, save for          *)
(* dashboards.json: the list DEFAULT_DASHBOARDS stands for it, the object  *)
(* itself, which the request then changes in place.                        *)
(***************************************************************************)
EXTENDS Integers, Sequences, FiniteSets, SequencesExt

CONSTANTS
    Boards,       \* ids of dashboards; the seeded one is Seed
    Seed,
    Members,      \* usernames
    Admins,       \* those whose role is admin; the role of the others is user
    Widgets,
    Tokens,       \* tokens of share links
    Nobody,       \* no user, no role, no author
    MaxVersions,  \* versions kept per dashboard
    MaxRequests,  \* bound: requests that change something
    MaxLosses     \* bound: saves that are cut off, crashes within a request

ASSUME DocumentAssumption ==
    /\ Seed \in Boards /\ Admins \subseteq Members /\ Nobody \notin Members
    /\ MaxVersions \in Nat \ {0} /\ MaxRequests \in Nat /\ MaxLosses \in Nat

PermissionLevels == [owner |-> 4, editor |-> 3, viewer |-> 2, none |-> 0]
Levels == DOMAIN PermissionLevels
Roles  == {"admin", "user"}
RoleOf(u) == IF u \in Admins THEN "admin" ELSE "user"

VARIABLES
    docText,      \* dashboards.json: "none", "cut" or "whole"
    docFile,      \* the dashboards in it: id -> author and widgets
    docDefault,   \* the dashboards of the object DEFAULT_DASHBOARDS
    docAccess,    \* dashboard_permissions.json: id -> owner, permissions, public
    docVersions,  \* dashboard_versions.json: id -> contents, oldest first
    docShares,    \* dashboard_shares.json: token -> id and whether it is within its time
    docSpent,     \* ids and tokens drawn so far
    docLosses,    \* history: files that were cut off, and "between": a request ended between two saves
    docRequests, docFaults

documentVars == <<docText, docFile, docDefault, docAccess, docVersions, docShares, docSpent,
                  docLosses, docRequests, docFaults>>

Empty    == [id \in {} |-> {}]
Pristine == [id \in {Seed} |-> [by |-> Nobody, widgets |-> {}]]

DocumentInit ==
    /\ docText = "none" /\ docFile = Empty /\ docDefault = Pristine    \* before the first request
    /\ docAccess = Empty /\ docVersions = Empty /\ docShares = Empty
    /\ docSpent = {Seed}
    /\ docLosses = {} /\ docRequests = 0 /\ docFaults = 0

\* f with the value x at id, whether it had one or not; and f without id.
Put(f, id, x)  == [i \in DOMAIN f \cup {id} |-> IF i = id THEN x ELSE f[i]]
Drop(f, id)    == [i \in DOMAIN f \ {id} |-> f[i]]

\* load_dashboards_store, which writes the list when there is no file; the caller still gets the object.
Listed == IF docText = "whole" THEN docFile ELSE docDefault

Requested == docRequests < MaxRequests /\ docRequests' = docRequests + 1
Fault   == docFaults < MaxLosses /\ docFaults' = docFaults + 1

\* A save of one of the three small files: its error is swallowed, and what is left counts as empty.
Save(file, saved, new) ==
    \/ saved = new /\ UNCHANGED <<docFaults, docLosses>>
    \/ saved = Empty /\ Fault /\ docLosses' = docLosses \cup {file}

\* dashboards.json is saved.
SaveListed(new) == docText' = "whole" /\ docFile' = new

\* The save is cut off and the request ends there, by an error or with the process.
ListCut(default) ==
    /\ Fault /\ docLosses' = docLosses \cup {"dashboards"}
    /\ docText' = "cut" /\ docFile' = Empty
    /\ docDefault' \in {default, Pristine}
    /\ UNCHANGED docAccess

ReadOnly == /\ docText' = IF docText = "none" THEN "whole" ELSE docText
            /\ docFile' = IF docText = "none" THEN docDefault ELSE docFile
            /\ UNCHANGED docDefault

\* A list that was loaded from the default object is that object.
InPlace(new) == IF docText = "whole" THEN docDefault ELSE new

Changes(new) == Requested /\ SaveListed(new) /\ docDefault' = InPlace(new)

-----------------------------------------------------------------------------
(* The documents. *)

\* create_dashboard: the list is saved, then the permissions.
CreateDashboard(u, id) ==
    LET new == Put(Listed, id, [by |-> u, widgets |-> {}])
        record == [owner |-> u, entries |-> <<>>, public |-> FALSE]
    IN  /\ id \notin docSpent /\ docSpent' = docSpent \cup {id}
        /\ Requested
        /\ \/ /\ SaveListed(new) /\ docDefault' = InPlace(new)
              /\ Save("permissions", docAccess', Put(docAccess, id, record))
           \/ \* the process dies in between
              /\ SaveListed(new) /\ docDefault' = Pristine
              /\ Fault /\ docLosses' = docLosses \cup {"between"}
              /\ UNCHANGED docAccess
           \/ ListCut(InPlace(new))
        /\ UNCHANGED <<docVersions, docShares>>

\* create_dashboard_from_template: no author, no permissions.
CreateFromTemplate(id) ==
    LET new == Put(Listed, id, [by |-> Nobody, widgets |-> {}])
    IN  /\ id \notin docSpent /\ docSpent' = docSpent \cup {id}
        /\ \/ /\ Changes(new)
              /\ UNCHANGED <<docAccess, docLosses, docFaults>>
           \/ Requested /\ ListCut(InPlace(new))
        /\ UNCHANGED <<docVersions, docShares>>

\* add_widget, delete_widget
ChangeWidgets(id, ws) ==
    LET new == [Listed EXCEPT ![id].widgets = ws]
    IN  /\ id \in DOMAIN Listed
        /\ \/ /\ Changes(new)
              /\ UNCHANGED <<docAccess, docLosses, docFaults>>
           \/ Requested /\ ListCut(InPlace(new))
        /\ UNCHANGED <<docVersions, docShares, docSpent>>

-----------------------------------------------------------------------------
(* Permissions. *)

\* get_user_permission_level
Matches(entry, u) == entry.user = u \/ entry.role = RoleOf(u)

LevelOf(u, id) ==
    IF id \notin DOMAIN docAccess THEN IF u \in Admins THEN "owner" ELSE "none"
    ELSE LET granted == {e.level : e \in {x \in ToSet(docAccess[id].entries) : Matches(x, u)}}
                        \cup {"none"}
             best == CHOOSE l \in granted :
                        \A k \in granted : PermissionLevels[k] <= PermissionLevels[l]
         IN  IF docAccess[id].owner = u \/ u \in Admins THEN "owner"
             ELSE IF docAccess[id].public /\ best = "none" THEN "viewer" ELSE best

\* can_delete_dashboard, can_manage_permissions
Manages(u, id) == PermissionLevels[LevelOf(u, id)] >= PermissionLevels["owner"]

\* A mutant: the permissions stay.
KeepPermissions(id) == docAccess' = docAccess /\ UNCHANGED <<docFaults, docLosses>>

\* cleanup_dashboard_permissions
CleanupPermissions(id) ==
    IF id \in DOMAIN docAccess THEN Save("permissions", docAccess', Drop(docAccess, id))
    ELSE UNCHANGED <<docAccess, docFaults, docLosses>>

\* delete_dashboard: a list without it, so the default object is left alone. Shares and versions stay.
DeleteDashboard(u, id) ==
    /\ Manages(u, id) /\ Requested
    /\ \/ /\ SaveListed(Drop(Listed, id)) /\ CleanupPermissions(id)
          /\ UNCHANGED docDefault
       \/ \* the process dies in between
          /\ SaveListed(Drop(Listed, id)) /\ docDefault' = Pristine
          /\ Fault /\ docLosses' = docLosses \cup {"between"}
          /\ UNCHANGED docAccess
       \/ ListCut(docDefault)
    /\ UNCHANGED <<docVersions, docShares, docSpent>>

\* One of the requests below, which only touch the permissions of a dashboard that has some.
Regulate(u, id, record) ==
    /\ Manages(u, id) /\ id \in DOMAIN docAccess /\ Requested
    /\ Save("permissions", docAccess', Put(docAccess, id, record))
    /\ UNCHANGED <<docText, docFile, docDefault, docVersions, docShares, docSpent>>

\* grant_permission: the first entry with the same user or the same role is changed, and where neither
\* names a role (or a user) the roles (the users) are the same.
Granted(entries, user, role, level) ==
    LET same == {i \in DOMAIN entries : entries[i].user = user \/ entries[i].role = role}
        first == CHOOSE i \in same : \A k \in same : i <= k
    IN  IF same # {} THEN [entries EXCEPT ![first] = [@ EXCEPT !.level = level]]
        ELSE Append(entries, [user |-> user, role |-> role, level |-> level])

GrantPermission(u, id, user, role, level) ==
    /\ <<user, role>> # <<Nobody, Nobody>>
    /\ Regulate(u, id, [docAccess[id] EXCEPT !.entries = Granted(@, user, role, level)])

\* revoke_permission; it fails if there is nothing to revoke.
RevokePermission(u, id, user, role) ==
    LET Stays(e) == ~(user # Nobody /\ e.user = user) /\ ~(role # Nobody /\ e.role = role)
        rest == SelectSeq(docAccess[id].entries, Stays)
    IN  /\ id \in DOMAIN docAccess /\ rest # docAccess[id].entries
        /\ Regulate(u, id, [docAccess[id] EXCEPT !.entries = rest])

SetPublic(u, id, public) ==
    Regulate(u, id, [docAccess[id] EXCEPT !.public = public])

\* transfer_ownership sets the owner, to whomever, of the record it loaded; but grant_permission, which it
\* calls for the old owner, loads the file again.
TransferOwnership(u, id) ==
    Regulate(u, id, [docAccess[id] EXCEPT !.entries = Granted(@, docAccess[id].owner, Nobody, "editor")])

-----------------------------------------------------------------------------
(* Versions and share links. *)

VersionsOf(id) == IF id \in DOMAIN docVersions THEN docVersions[id] ELSE <<>>

\* create_version: the newest MaxVersions are kept.
LastOf(s) == SubSeq(s, IF Len(s) > MaxVersions THEN 2 ELSE 1, Len(s))

CreateVersion(id) ==
    /\ id \in DOMAIN Listed /\ Requested
    /\ Save("versions", docVersions', Put(docVersions, id, LastOf(Append(VersionsOf(id), Listed[id]))))
    /\ ReadOnly /\ UNCHANGED <<docAccess, docShares, docSpent>>

\* restore_dashboard_version: the dashboard in the list is replaced, if it is in the list.
RestoreVersion(id, i) ==
    LET old == docVersions[id][i]
        new == IF id \in DOMAIN Listed THEN [Listed EXCEPT ![id] = old] ELSE Listed
    IN  /\ id \in DOMAIN docVersions /\ i \in DOMAIN docVersions[id]
        /\ \/ /\ Changes(new)
              /\ UNCHANGED <<docAccess, docLosses, docFaults>>
           \/ Requested /\ ListCut(InPlace(new))
        /\ UNCHANGED <<docVersions, docShares, docSpent>>

CreateShare(id, t) ==
    /\ id \in DOMAIN Listed /\ t \notin docSpent /\ docSpent' = docSpent \cup {t} /\ Requested
    /\ Save("shares", docShares', Put(docShares, t, [id |-> id, live |-> TRUE]))
    /\ ReadOnly /\ UNCHANGED <<docAccess, docVersions>>

ShareExpires(t) ==
    /\ t \in DOMAIN docShares /\ docShares[t].live
    /\ docShares' = [docShares EXCEPT ![t] = [@ EXCEPT !.live = FALSE]]
    /\ UNCHANGED <<docText, docFile, docDefault, docAccess, docVersions, docSpent,
                   docLosses, docRequests, docFaults>>

\* get_dashboard_by_share_token counts the access, and saves, before it looks for the dashboard.
ViewShare(t) ==
    /\ t \in DOMAIN docShares /\ docShares[t].live /\ Requested
    /\ Save("shares", docShares', docShares)
    /\ ReadOnly /\ UNCHANGED <<docAccess, docVersions, docSpent>>

RevokeShare(t) ==
    /\ t \in DOMAIN docShares /\ Requested
    /\ Save("shares", docShares', Drop(docShares, t))
    /\ UNCHANGED <<docText, docFile, docDefault, docAccess, docVersions, docSpent>>

\* The process starts anew.
RestartDocuments ==
    /\ docDefault' = Pristine
    /\ UNCHANGED <<docText, docFile, docAccess, docVersions, docShares, docSpent, docLosses, docRequests, docFaults>>

DocumentNext ==
    \/ \E id \in Boards :
         \/ \E u \in Members :
              \/ CreateDashboard(u, id) \/ DeleteDashboard(u, id)
              \/ \E user \in Members \cup {Nobody}, role \in Roles \cup {Nobody} :
                   \/ \E level \in Levels : GrantPermission(u, id, user, role, level)
                   \/ RevokePermission(u, id, user, role)
              \/ \E public \in BOOLEAN : SetPublic(u, id, public)
              \/ TransferOwnership(u, id)
         \/ CreateFromTemplate(id) \/ CreateVersion(id)
         \/ \E ws \in SUBSET Widgets : ChangeWidgets(id, ws)
         \/ \E i \in 1..MaxVersions : RestoreVersion(id, i)
         \/ \E t \in Tokens : CreateShare(id, t)
    \/ \E t \in Tokens : ShareExpires(t) \/ ViewShare(t) \/ RevokeShare(t)
    \/ RestartDocuments

DocumentSpec == DocumentInit /\ [][DocumentNext]_documentVars

-----------------------------------------------------------------------------
\* The two files agree, whatever is created, changed, deleted and restored.  Permissions without a dashboard
\* mean that dashboards.json was cut off or a deletion was not finished; a dashboard of someone's without
\* permissions, that they were cut off or never written, or that the default object, which no deletion
\* reaches, has taken the place of the list.  The owner is the author for another reason besides: a transfer
\* of ownership is answered with success and never takes effect (TransferOwnership).
RecordsFollowDashboards ==
    /\ \A id \in DOMAIN docAccess :
         \/ id \in DOMAIN Listed /\ docAccess[id].owner = Listed[id].by
         \/ docLosses \cap {"dashboards", "between"} # {}
    /\ \A id \in DOMAIN Listed : Listed[id].by # Nobody => id \in DOMAIN docAccess \/ docLosses # {}

===============================================================================
