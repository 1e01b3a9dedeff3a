-------------------------------- MODULE Catalogs --------------------------------
(***************************************************************************)
(* Catalogs and storage mounts (web/warehouses.py, web/mounts.py and their *)
(* endpoints): two files of registrations, and the databases that are      *)
(* attached to the one DuckDB session of the studio.                       *)
(*                                                                         *)
(* Every use of the session first brings it in line with the files.        *)
(* Handlers do so on the event loop, work they hand over does so in        *)
(* threads, and nothing keeps two of them apart.  A file is truncated      *)
(* before it is written, and read as the defaults meanwhile.  Two writers  *)
(* of one file at once are taken to leave what the last of them wrote.     *)
(***************************************************************************)
EXTENDS Integers, FiniteSets, SequencesExt, Functions

CONSTANTS
    Names, Defaults,   \* names of catalogs and mounts; those get_default_catalogs registers
    Offers,            \* [kind, readOnly, enabled] a mount is asked for with
    Loop, Workers,
    SessionExecutes,   \* TRUE if the session has the "execute" a catalog is detached with
    MaxChanges,        \* bound: changes of the files
    MaxSyncs,          \* bound: uses of the session for other ends
    MaxFailures        \* bound: statements that fail

ASSUME CatalogAssumption ==
    /\ Defaults \subseteq Names /\ Loop \notin Workers /\ SessionExecutes \in BOOLEAN
    /\ Offers \subseteq [kind : {"postgres", "s3", "sqlite"}, readOnly : BOOLEAN, enabled : BOOLEAN]
    /\ MaxChanges \in Nat /\ MaxSyncs \in Nat /\ MaxFailures \in Nat

SessionUsers == Workers \cup {Loop}

VARIABLES
    ctFile, ctCut,         \* names in catalogs.json besides "warehouse"; whether it is truncated
    moFile, moCut,         \* storage_mounts.json: a sequence of mounts
    dbAttached,            \* attached databases: what each name serves
    dbSession,             \* _catalogs of the session
    syAt, syCatalogs, syMounts,  \* each caller: where it is, and what it has read or is about to write
    ctChanges, ctSyncs, ctFailures,
    ctCalm,                \* history: "synced" since a synchronisation that nothing interfered with
    ctLost                 \* history: names whose database a disturbed synchronisation detached, while
                           \* the session went on having them

fileVars == <<ctFile, ctCut, moFile, moCut>>
syncVars == <<syAt, syCatalogs, syMounts>>
catalogVars == <<fileVars, dbAttached, dbSession, syncVars, ctChanges, ctSyncs, ctFailures, ctCalm, ctLost>>

\* What a catalog's name serves; a mount's serves the mount.
ACatalog == [id |-> "catalog", kind |-> "catalog", readOnly |-> FALSE]

CatalogsInit ==
    /\ ctFile = Defaults /\ ctCut = FALSE /\ moFile = <<>> /\ moCut = FALSE
    /\ dbAttached = [n \in Defaults |-> ACatalog] /\ dbSession = Defaults
    /\ syAt = [c \in SessionUsers |-> "idle"]
    /\ syCatalogs = [c \in SessionUsers |-> {}] /\ syMounts = [c \in SessionUsers |-> <<>>]
    /\ ctChanges = 0 /\ ctSyncs = 0 /\ ctFailures = 0 /\ ctCalm = "synced" /\ ctLost = {}

LoadedCatalogs == IF ctCut THEN Defaults ELSE ctFile
LoadedMounts == IF moCut THEN <<>> ELSE moFile
NamesOf(mounts) == {m.name : m \in ToSet(mounts)}
ActiveNames(mounts) == {m.name : m \in {x \in ToSet(mounts) : x.enabled}}

Fails == ctFailures < MaxFailures /\ ctFailures' = ctFailures + 1 /\ ctCalm' = "no"
Works == UNCHANGED <<ctFailures, ctCalm>>

-----------------------------------------------------------------------------
(* Changes of the files.  Those of the catalogs are made on the event      *)
(* loop, those of the mounts in threads; each is followed by a             *)
(* synchronisation.                                                        *)

StartChange(c) ==
    /\ syAt[c] = "idle" /\ ctChanges < MaxChanges /\ ctChanges' = ctChanges + 1
    /\ UNCHANGED <<dbAttached, dbSession, ctSyncs, ctFailures, ctLost>>

OpenCatalogs(names) ==
    /\ StartChange(Loop) /\ ctCut' = TRUE /\ ctCalm' = "no"
    /\ syAt' = [syAt EXCEPT ![Loop] = "catalogs"]
    /\ syCatalogs' = [syCatalogs EXCEPT ![Loop] = names]
    /\ UNCHANGED <<ctFile, moFile, moCut, syMounts>>

CreateCatalog(n) == n \notin LoadedCatalogs /\ OpenCatalogs(LoadedCatalogs \cup {n})

DeleteCatalog(n) == n \in LoadedCatalogs /\ OpenCatalogs(LoadedCatalogs \ {n})

WriteCatalogs ==
    /\ syAt[Loop] = "catalogs"
    /\ ctFile' = syCatalogs[Loop] /\ ctCut' = FALSE /\ ctCalm' = "no"
    /\ syAt' = [syAt EXCEPT ![Loop] = "sync"] /\ syCatalogs' = [syCatalogs EXCEPT ![Loop] = {}]
    /\ UNCHANGED <<moFile, moCut, syMounts, dbAttached, dbSession, ctChanges, ctSyncs, ctFailures, ctLost>>

\* A thread has loaded the mounts and changed its copy.
LoadMounts(c, changed) ==
    /\ StartChange(c)
    /\ syMounts' = [syMounts EXCEPT ![c] = changed] /\ syAt' = [syAt EXCEPT ![c] = "open"]
    /\ UNCHANGED <<fileVars, syCatalogs, ctCalm>>

\* A new mount's id is drawn at random; here it is the number of the change that makes it.
MountIds == 0..MaxChanges

Mount(id, n, offer) ==
    [id |-> id, name |-> n, kind |-> offer.kind, readOnly |-> offer.readOnly, enabled |-> offer.enabled]

\* Nothing looks whether the name is taken.
CreateMount(c, n, offer) == LoadMounts(c, Append(LoadedMounts, Mount(ctChanges, n, offer)))

UpdateMount(c, id, n, offer) ==
    \E i \in DOMAIN LoadedMounts :
        /\ LoadedMounts[i].id = id
        /\ LoadMounts(c, [LoadedMounts EXCEPT ![i] = Mount(id, n, offer)])

\* The copy gets a name no mount has.
DuplicateMount(c, n) ==
    /\ n \notin NamesOf(LoadedMounts)
    /\ \E m \in ToSet(LoadedMounts) : LoadMounts(c, Append(LoadedMounts, [m EXCEPT !.id = ctChanges, !.name = n]))

\* In a thread; and on the event loop, where delete_catalog falls back on it.
DeleteMount(c, id) ==
    \E i \in DOMAIN LoadedMounts : LoadedMounts[i].id = id /\ LoadMounts(c, RemoveAt(LoadedMounts, i))

OpenMounts(c) ==
    /\ syAt[c] = "open" /\ syAt' = [syAt EXCEPT ![c] = "mounts"]
    /\ moCut' = TRUE /\ ctCalm' = "no"
    /\ UNCHANGED <<ctFile, ctCut, moFile, syCatalogs, syMounts, dbAttached, dbSession, ctChanges, ctSyncs,
                   ctFailures, ctLost>>

WriteMounts(c) ==
    /\ syAt[c] = "mounts" /\ syAt' = [syAt EXCEPT ![c] = "sync"]
    /\ moFile' = syMounts[c] /\ moCut' = FALSE /\ ctCalm' = "no"
    /\ syMounts' = [syMounts EXCEPT ![c] = <<>>]
    /\ UNCHANGED <<ctFile, ctCut, syCatalogs, dbAttached, dbSession, ctChanges, ctSyncs, ctFailures, ctLost>>

-----------------------------------------------------------------------------
(* sync_catalogs_with_duckrun. *)

\* A query, a listing or an export is about to use the session.
UseSession(c) ==
    /\ syAt[c] = "idle" /\ ctSyncs < MaxSyncs /\ ctSyncs' = ctSyncs + 1
    /\ syAt' = [syAt EXCEPT ![c] = "sync"]
    /\ UNCHANGED <<fileVars, syCatalogs, syMounts, dbAttached, dbSession, ctChanges, ctFailures, ctCalm, ctLost>>

Disturbed(c) == \E other \in SessionUsers \ {c} : syAt[other] \notin {"idle", "sync"}

ReadCatalogs(c) ==
    /\ syAt[c] = "sync" /\ syAt' = [syAt EXCEPT ![c] = "detach"]
    /\ syCatalogs' = [syCatalogs EXCEPT ![c] = LoadedCatalogs]
    /\ ctCalm' = IF Disturbed(c) THEN "no" ELSE "syncing"
    /\ UNCHANGED <<fileVars, syMounts, dbAttached, dbSession, ctChanges, ctSyncs, ctFailures, ctLost>>

\* A name leaves the session before the DETACH, which fails if the database is in use.
DetachRemoved(c) ==
    LET gone == dbSession \ syCatalogs[c]
    IN  /\ syAt[c] = "detach" /\ syAt' = [syAt EXCEPT ![c] = "attach"]
        /\ dbSession' = dbSession \ gone /\ ctLost' = ctLost \ gone
        /\ \/ /\ dbAttached' = IF SessionExecutes THEN Restrict(dbAttached, DOMAIN dbAttached \ gone) ELSE dbAttached
              /\ Works
           \/ SessionExecutes /\ gone # {} /\ UNCHANGED dbAttached /\ Fails
        /\ UNCHANGED <<fileVars, syCatalogs, syMounts, ctChanges, ctSyncs>>

\* The databases when `what` is attached under each of some names.
Attached(names, what) ==
    [n \in DOMAIN dbAttached \cup names |-> IF n \in names THEN what ELSE dbAttached[n]]

\* A name that some database has cannot be attached once more.
AttachMissing(c) ==
    LET free == syCatalogs[c] \ DOMAIN dbAttached
    IN  /\ syAt[c] = "attach" /\ syAt' = [syAt EXCEPT ![c] = "read"]
        /\ dbSession' = dbSession \cup (free \ dbSession)
        /\ dbAttached' = Attached(free \ dbSession, ACatalog)
        /\ UNCHANGED <<fileVars, syCatalogs, syMounts, ctChanges, ctSyncs, ctFailures, ctCalm, ctLost>>

ReadMounts(c) ==
    /\ syAt[c] = "read" /\ syAt' = [syAt EXCEPT ![c] = "clean"]
    /\ syMounts' = [syMounts EXCEPT ![c] = LoadedMounts]
    /\ UNCHANGED <<fileVars, syCatalogs, dbAttached, dbSession, ctChanges, ctSyncs, ctFailures, ctCalm, ctLost>>

\* Mutant: the catalogs are those of the files' defaults.
KeptDefaults(c) == ActiveNames(syMounts[c]) \cup Defaults

\* Databases that stay: the catalogs are read once more.
Kept(c) == ActiveNames(syMounts[c]) \cup LoadedCatalogs

\* Databases that go behind the back of the session, by a step of a disturbed synchronisation.
Lost == IF ctCalm' = "no" THEN (DOMAIN dbAttached \ DOMAIN dbAttached') \cap dbSession ELSE {}

DetachInactive(c) ==
    LET gone == DOMAIN dbAttached \ Kept(c)
    IN  /\ syAt[c] = "clean" /\ syAt' = [syAt EXCEPT ![c] = "mount"]
        /\ \/ dbAttached' = Restrict(dbAttached, DOMAIN dbAttached \ gone) /\ Works
           \/ gone # {} /\ UNCHANGED dbAttached /\ Fails
        /\ UNCHANGED <<fileVars, syCatalogs, syMounts, dbSession, ctChanges, ctSyncs>>
        /\ ctLost' = ctLost \cup Lost

\* A database with the right access stays; any other is detached first.
AttachPostgres(m) ==
    /\ UNCHANGED dbSession
    /\ IF m.name \in DOMAIN dbAttached /\ dbAttached[m.name].readOnly = m.readOnly
       THEN UNCHANGED dbAttached /\ Works
       ELSE \/ dbAttached' = Attached({m.name}, m) /\ Works
            \/ dbAttached' = Restrict(dbAttached, DOMAIN dbAttached \ {m.name}) /\ Fails
            \/ m.name \in DOMAIN dbAttached /\ UNCHANGED dbAttached /\ Fails

\* In the session, or as a database in memory with views of the bucket.
AttachS3(m) ==
    IF m.name \in DOMAIN dbAttached THEN UNCHANGED <<dbAttached, dbSession>> /\ Works
    ELSE /\ dbAttached' = Attached({m.name}, m)
         /\ \/ dbSession' = dbSession \cup {m.name} /\ Works
            \/ UNCHANGED dbSession /\ Fails

\* attach_mount_to_duckdb; for a SQLite file it asks for a name it never defines, and gives up.
AttachMount(c) ==
    /\ syAt[c] = "mount" /\ syMounts[c] # <<>>
    /\ LET m == Head(syMounts[c])
       IN  CASE ~m.enabled \/ m.kind = "sqlite" -> UNCHANGED <<dbAttached, dbSession>> /\ Works
             [] m.kind = "postgres" /\ m.enabled -> AttachPostgres(m)
             [] m.kind = "s3" /\ m.enabled -> AttachS3(m)
    /\ syMounts' = [syMounts EXCEPT ![c] = Tail(@)]
    /\ ctLost' = ctLost \cup Lost
    /\ UNCHANGED <<fileVars, syAt, syCatalogs, ctChanges, ctSyncs>>

EndSync(c) ==
    /\ syAt[c] = "mount" /\ syMounts[c] = <<>> /\ syAt' = [syAt EXCEPT ![c] = "idle"]
    /\ syCatalogs' = [syCatalogs EXCEPT ![c] = {}]
    /\ ctCalm' = IF ctCalm = "syncing" THEN "synced" ELSE ctCalm
    /\ UNCHANGED <<fileVars, syMounts, dbAttached, dbSession, ctChanges, ctSyncs, ctFailures, ctLost>>

CatalogsNext ==
    \/ \E n \in Names : CreateCatalog(n) \/ DeleteCatalog(n)
    \/ WriteCatalogs
    \/ \E c \in Workers, n \in Names :
           \/ \E offer \in Offers :
                  CreateMount(c, n, offer) \/ (\E id \in MountIds : UpdateMount(c, id, n, offer))
           \/ DuplicateMount(c, n)
    \/ \E c \in SessionUsers :
           \/ \E id \in MountIds : DeleteMount(c, id)
           \/ OpenMounts(c) \/ WriteMounts(c)
           \/ UseSession(c) \/ ReadCatalogs(c) \/ DetachRemoved(c) \/ AttachMissing(c) \/ ReadMounts(c)
           \/ DetachInactive(c) \/ AttachMount(c) \/ EndSync(c)

CatalogsSpec == CatalogsInit /\ [][CatalogsNext]_catalogVars

-----------------------------------------------------------------------------
Attachable == {m \in ToSet(moFile) : m.enabled /\ m.kind # "sqlite"}

\* However synchronisations and changes of the files have overlapped and failed before, one that nothing
\* interferes with repairs the session: what is attached are the catalogs and the enabled mounts, except
\* what was lost before, and a Postgres database under a name of its own is as writable as its mount says.
\* SQLite mounts are left out: the code never attaches one, although README.md:298 promises that mounts are
\* attached in every session.
SyncRepairs ==
    ctCalm = "synced" =>
        /\ {m.name : m \in Attachable} \cup ctFile \subseteq DOMAIN dbAttached \cup ctLost
        /\ DOMAIN dbAttached \subseteq ActiveNames(moFile) \cup ctFile
        /\ \A m \in Attachable :
               m.kind = "postgres" /\ (\A other \in ToSet(moFile) : other.name = m.name => other = m)
                   => m.name \in ctLost \/ dbAttached[m.name].readOnly = m.readOnly
================================================================================
