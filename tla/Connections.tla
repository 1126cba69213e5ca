------------------------------ MODULE Connections ------------------------------
(* The stored connections, their groups and the proxies they share             *)
(* (store/connections.ts, store/savedRefs.ts), the passwords in the vault,     *)
(* windows that edit them at the same time under the revisions of              *)
(* store/conflict.ts, and their export and import (services/exportData.ts,     *)
(* services/importData.ts).  Every operation is one transaction.  A password   *)
(* of a connection stands for its SSH and its RDP password; private keys have  *)
(* the shape of proxies and are left out; a row keeps what others depend on.   *)
EXTENDS Naturals

CONSTANTS
    ProfileIds, GroupIds, ProxyIds, Windows,
    MaxWrites,  \* bound: writes of a behaviour
    MaxEdits,   \* bound: those that may be something else than an import
    OldFile,    \* a file of a version that kept the proxy in the connection
    Stored,     \* what an older version of the application has stored
    Root,       \* no group
    None,       \* no proxy, no password
    NoInline,   \* no proxy kept in the connection itself
    NoDraft

VARIABLES
    profiles,   \* rows [group, proxy, pass, inline, rev] by id
    groups,     \* rows [parent, rev] by id
    proxies,    \* rows [pass, old, rev] by id; old: at the address of the inline ones
    vault,      \* the refs with a secret
    available,  \* secureStorageAvailable()
    drafts,     \* what a window edits: the id and the row it was opened on, and
                \* the group (of a group its parent) and the proxy in its form
    file,       \* the file that is exported to and imported from
    split,      \* migrateInlineRefsOnce() has run
    writes,     \* writes so far; they number revisions and refs
    strays      \* history: groups that a form named when they were gone

connectionVars == <<profiles, groups, proxies, vault, available, drafts, file,
                    split, writes, strays>>

Refs == (ProfileIds \cup ProxyIds) \X {"pass", "inline"} \X (0..MaxWrites)
Profiles == [group : GroupIds \cup {Root}, proxy : ProxyIds \cup {None},
             pass : Refs \cup {None}, inline : Refs \cup {None, NoInline},
             rev : 0..MaxWrites]
Groups == [parent : GroupIds \cup {Root}, rev : 0..MaxWrites]
Proxies == [pass : Refs \cup {None}, old : BOOLEAN, rev : 0..MaxWrites]

Rows(f, ids, kind) == DOMAIN f \subseteq ids /\ \A i \in DOMAIN f : f[i] \in kind

(* Rows have their type, and only a ref names a secret.                        *)
ConnectionsTypeOK ==
    /\ Rows(profiles, ProfileIds, Profiles)
    /\ Rows(groups, GroupIds, Groups)
    /\ Rows(proxies, ProxyIds, Proxies)
    /\ vault \subseteq Refs
    /\ available \in BOOLEAN /\ split \in BOOLEAN
    /\ \A w \in Windows : drafts[w] # NoDraft =>
          /\ drafts[w].kind \in {"profile", "newProfile", "group", "newGroup", "proxy"}
          /\ drafts[w].group \in GroupIds \cup {Root}
          /\ drafts[w].proxy \in ProxyIds \cup {None}
    /\ writes \in 0..MaxWrites
    /\ strays \subseteq GroupIds

(* What lies below some rows: buildGroup() descends from one group to the next,*)
(* so it comes to what lies in every set that is closed under going down.  The *)
(* panel descends from the root.                                               *)
Descended(gs, tops) == {S \in SUBSET (DOMAIN gs \cup tops) :
                           /\ tops \subseteq S
                           /\ \A g \in DOMAIN gs : gs[g].parent \in S => g \in S}
Below(gs, tops) == {g \in DOMAIN gs \cup tops : \A S \in Descended(gs, tops) : g \in S}
InPlace(ps, gs, tops) ==
    /\ DOMAIN gs \subseteq Below(gs, tops)
    /\ \A p \in DOMAIN ps : ps[p].group \in Below(gs, tops)

(* Each password of a connection was stored for it, by putSecret() under a new *)
(* id; a proxy may have the one that came with a connection.                   *)
OwnProfile(p, row) ==
    /\ row.pass # None => row.pass[1] = p /\ row.pass[2] = "pass"
    /\ row.inline \notin {None, NoInline} => row.inline[2] = "inline"
OwnProxy(x, row) == row.pass # None => row.pass[1] = x \/ row.pass[2] = "inline"
OwnSecrets(ps, xs) == /\ \A p \in DOMAIN ps : OwnProfile(p, ps[p])
                      /\ \A x \in DOMAIN xs : OwnProxy(x, xs[x])

(* Each set of groups has one whose parents are outside of it.  The tables of  *)
(* machines that were set up from one another agree in this way: a group keeps *)
(* its parent until that is deleted, and then it goes to a group above.        *)
NoLoops(gs, hs) ==
    \A S \in SUBSET (DOMAIN gs \cup DOMAIN hs) : S # {} =>
        \E g \in S : /\ g \in DOMAIN gs => gs[g].parent \notin S
                     /\ g \in DOMAIN hs => hs[g].parent \notin S

(* Rows of an older version come before the first revision of this one, and    *)
(* its connections and groups have their place.  Its files keep the proxies in *)
(* the connections.                                                            *)
Undated(f) == [i \in DOMAIN f |-> [f[i] EXCEPT !.rev = 0]]

ASSUME ConnectionsAssumption ==
    /\ MaxWrites \in Nat
    /\ Root \notin GroupIds
    /\ ProfileIds \cap ProxyIds = {}
    /\ None \notin Refs /\ NoInline \notin Refs
    /\ \A f \in {Stored, OldFile} :
          /\ Rows(f.profiles, ProfileIds, Profiles) /\ f.profiles = Undated(f.profiles)
          /\ Rows(f.groups, GroupIds, Groups) /\ f.groups = Undated(f.groups)
          /\ Rows(f.proxies, ProxyIds, Proxies) /\ f.proxies = Undated(f.proxies)
          /\ InPlace(f.profiles, f.groups, {Root}) /\ OwnSecrets(f.profiles, f.proxies)
    /\ Stored.vault \subseteq Refs
    /\ DOMAIN OldFile = {"profiles", "groups", "proxies", "secrets"}
    /\ OldFile.proxies = <<>> /\ OldFile.secrets \subseteq Refs
    /\ NoLoops(Stored.groups, OldFile.groups)

EmptyFile == [profiles |-> <<>>, groups |-> <<>>, proxies |-> <<>>, secrets |-> {}]

ConnectionsInit ==
    /\ profiles = Stored.profiles /\ groups = Stored.groups
    /\ proxies = Stored.proxies /\ vault = Stored.vault
    /\ available = TRUE /\ split = FALSE /\ writes = 0
    /\ drafts = [w \in Windows |-> NoDraft]
    /\ file \in {EmptyFile, OldFile}
    /\ strays = {}

Writes == writes < MaxWrites /\ writes' = writes + 1
Edits == writes < MaxEdits /\ Writes

(* nextRevision(): larger than any revision before.                            *)
NextRevision == writes + 1

(* randomUUID(): an id that nothing knows of.                                  *)
Edited(kind) == {drafts[w].id : w \in {v \in Windows : drafts[v] # NoDraft /\
                                                       drafts[v].kind = kind}}
Chosen(field) == {drafts[w][field] : w \in {v \in Windows : drafts[v] # NoDraft}}
Linked(ps) == {ps[p].proxy : p \in DOMAIN ps}
NewProfiles == ProfileIds \ (DOMAIN profiles \cup DOMAIN file.profiles
                                             \cup Edited("profile"))
NewGroups == GroupIds \ (DOMAIN groups \cup DOMAIN file.groups \cup Edited("group")
                         \cup strays \cup Chosen("group"))
NewProxies == ProxyIds \ (DOMAIN proxies \cup DOMAIN file.proxies \cup Edited("proxy")
                          \cup Linked(profiles) \cup Linked(file.profiles)
                          \cup Chosen("proxy"))
OneOf(S) == CHOOSE x \in S : TRUE

Written(f, i, row) == [j \in DOMAIN f \cup {i} |-> IF j = i THEN row ELSE f[j]]
Deleted(f, i) == [j \in DOMAIN f \ {i} |-> f[j]]
Over(new, f) == [i \in DOMAIN new \cup DOMAIN f |->
                    IF i \in DOMAIN new THEN new[i] ELSE f[i]]

-------------------------------------------------------------------------------
(* Passwords of a row.                                                         *)

Changes == {"keep", "clear", "set"}

(* putSecretIfAvailable() keeps the ref; without secure storage there is none,  *)
(* and what it replaces is deleted all the same.                               *)
PassAfter(pass, change, fresh) ==
    CASE change = "keep" -> pass
      [] change = "clear" -> None
      [] change = "set" -> IF ~available THEN None
                           ELSE IF pass = None THEN fresh ELSE pass

VaultAfter(pass, change, fresh) ==
    CASE change = "keep" -> vault
      [] change = "clear" -> vault \ {pass}
      [] change = "set" -> IF available THEN vault \cup {PassAfter(pass, change, fresh)}
                           ELSE vault \ {pass}

PassRef(id) == <<id, "pass", writes + 1>>

-------------------------------------------------------------------------------
(* Forms.                                                                      *)

(* What a form offers when it is opened or changed.  It keeps what was chosen, *)
(* and nothing looks again whether that is still there when it is saved.       *)
Places == DOMAIN groups \cup {Root}
Routes == DOMAIN proxies \cup {None}

(* Bound: no draft is opened that cannot be saved any more.                    *)
Open(w, kind, id, row, group, proxy) ==
    /\ drafts[w] = NoDraft /\ writes < MaxEdits
    /\ drafts' = [drafts EXCEPT ![w] = [kind |-> kind, id |-> id, row |-> row,
                                       group |-> group, proxy |-> proxy]]
    /\ UNCHANGED <<profiles, groups, proxies, vault, available, file, split, writes,
                   strays>>

(* The form of a new connection has no group and no proxy, the question for a  *)
(* new group has the parent it was asked at.                                   *)
NewRow == [group |-> Root, proxy |-> None]

OpenDraft(w) ==
    \/ \E p \in DOMAIN profiles :
           Open(w, "profile", p, profiles[p], profiles[p].group, profiles[p].proxy)
    \/ \E g \in DOMAIN groups : Open(w, "group", g, groups[g], groups[g].parent, None)
    \/ \E x \in DOMAIN proxies : Open(w, "proxy", x, proxies[x], Root, None)
    \/ Open(w, "newProfile", None, NewRow, Root, None)
    \/ \E parent \in Places : Open(w, "newGroup", None, NewRow, parent, None)

Editing(w, kind) == drafts[w] # NoDraft /\ drafts[w].kind = kind

(* Bound: one edit changes the group, the proxy or the password.               *)
Untouched(w) == drafts[w].group = drafts[w].row.group /\ drafts[w].proxy = drafts[w].row.proxy
OneChange(w, change) == change = "keep" \/ Untouched(w)

(* The user chooses another group or another proxy in the form of a connection.*)
Choose(w) ==
    /\ Editing(w, "profile") \/ Editing(w, "newProfile")
    /\ Untouched(w)
    /\ \/ \E group \in Places : drafts' = [drafts EXCEPT ![w].group = group]
       \/ \E proxy \in Routes : drafts' = [drafts EXCEPT ![w].proxy = proxy]
    /\ UNCHANGED <<profiles, groups, proxies, vault, available, file, split, writes,
                   strays>>

DiscardDraft(w) ==
    /\ drafts[w] # NoDraft
    /\ drafts' = [drafts EXCEPT ![w] = NoDraft]
    /\ UNCHANGED <<profiles, groups, proxies, vault, available, file, split, writes,
                   strays>>

-------------------------------------------------------------------------------
(* Connections.                                                                *)

(* assertRevision(): otherwise CONFIG_CONFLICT, and the draft stays open.      *)
Agrees(w, f) == drafts[w].id \in DOMAIN f /\ f[drafts[w].id].rev = drafts[w].row.rev

StoreProfile(id, old, group, proxy, change) ==
    /\ profiles' = Written(profiles, id,
           [group |-> group, proxy |-> proxy,
            pass |-> PassAfter(old, change, PassRef(id)),
            inline |-> NoInline, rev |-> NextRevision])
    /\ vault' = VaultAfter(old, change, PassRef(id))
    /\ Edits

(* A group that is gone when it is stored hangs nowhere.                       *)
Strayed(group) == strays \cup ({group} \ Places)

SaveProfile(w, change) ==
    /\ Editing(w, "profile") /\ Agrees(w, profiles) /\ OneChange(w, change)
    /\ StoreProfile(drafts[w].id, profiles[drafts[w].id].pass, drafts[w].group,
                    drafts[w].proxy, change)
    /\ strays' = Strayed(drafts[w].group)
    /\ drafts' = [drafts EXCEPT ![w] = NoDraft]
    /\ UNCHANGED <<groups, proxies, available, file, split>>

CreateProfile(w, change) ==
    /\ Editing(w, "newProfile") /\ NewProfiles # {}
    /\ change # "clear" /\ OneChange(w, change)
    /\ StoreProfile(OneOf(NewProfiles), None, drafts[w].group, drafts[w].proxy, change)
    /\ strays' = Strayed(drafts[w].group)
    /\ drafts' = [drafts EXCEPT ![w] = NoDraft]
    /\ UNCHANGED <<groups, proxies, available, file, split>>

DeleteProfile(p) ==
    /\ vault' = vault \ {profiles[p].pass}
    /\ profiles' = Deleted(profiles, p)
    /\ Edits
    /\ UNCHANGED <<groups, proxies, available, drafts, file, split, strays>>

DuplicateProfile(p) ==
    LET copy == OneOf(NewProfiles)
        pass == IF available /\ profiles[p].pass \in vault THEN PassRef(copy) ELSE None
    IN  /\ NewProfiles # {}
        /\ profiles' = Written(profiles, copy,
               [profiles[p] EXCEPT !.pass = pass, !.rev = NextRevision])
        /\ vault' = vault \cup ({pass} \ {None})
        /\ Edits
        /\ UNCHANGED <<groups, proxies, available, drafts, file, split, strays>>

(* The password typed while connecting; putSecret() throws without storage.    *)
RememberPassword(p) ==
    LET pass == PassAfter(profiles[p].pass, "set", PassRef(p))
    IN  /\ available
        /\ profiles' = [profiles EXCEPT ![p].pass = pass, ![p].rev = NextRevision]
        /\ vault' = vault \cup {pass}
        /\ Edits
        /\ UNCHANGED <<groups, proxies, available, drafts, file, split, strays>>

-------------------------------------------------------------------------------
(* Groups.                                                                     *)

CreateGroup(w) ==
    /\ Editing(w, "newGroup") /\ NewGroups # {}
    /\ groups' = Written(groups, OneOf(NewGroups),
                         [parent |-> drafts[w].group, rev |-> NextRevision])
    /\ strays' = Strayed(drafts[w].group)
    /\ drafts' = [drafts EXCEPT ![w] = NoDraft]
    /\ Edits
    /\ UNCHANGED <<profiles, proxies, vault, available, file, split>>

(* A renamed group is written back under the parent it was opened with.        *)
SaveGroup(w) ==
    /\ Editing(w, "group") /\ Agrees(w, groups)
    /\ groups' = [groups EXCEPT ![drafts[w].id] =
                      [parent |-> drafts[w].row.parent, rev |-> NextRevision]]
    /\ drafts' = [drafts EXCEPT ![w] = NoDraft]
    /\ Edits
    /\ UNCHANGED <<profiles, proxies, vault, available, file, split, strays>>

(* Variant: only the connections are moved up, not the groups.                 *)
DeleteGroupOnly(g) ==
    /\ profiles' = [p \in DOMAIN profiles |->
           IF profiles[p].group # g THEN profiles[p]
           ELSE [profiles[p] EXCEPT !.group = groups[g].parent, !.rev = NextRevision]]
    /\ groups' = Deleted(groups, g)
    /\ Edits
    /\ UNCHANGED <<proxies, vault, available, drafts, file, split, strays>>

(* Variant: what is moved up keeps its revision.                               *)
DeleteGroupSilently(g) ==
    /\ profiles' = [p \in DOMAIN profiles |->
           IF profiles[p].group # g THEN profiles[p]
           ELSE [profiles[p] EXCEPT !.group = groups[g].parent]]
    /\ groups' = [h \in DOMAIN groups \ {g} |->
           IF groups[h].parent # g THEN groups[h]
           ELSE [groups[h] EXCEPT !.parent = groups[g].parent]]
    /\ Edits
    /\ UNCHANGED <<proxies, vault, available, drafts, file, split, strays>>

(* What the group holds moves up to its parent.                                *)
DeleteGroup(g) ==
    /\ profiles' = [p \in DOMAIN profiles |->
           IF profiles[p].group # g THEN profiles[p]
           ELSE [profiles[p] EXCEPT !.group = groups[g].parent, !.rev = NextRevision]]
    /\ groups' = [h \in DOMAIN groups \ {g} |->
           IF groups[h].parent # g THEN groups[h]
           ELSE [parent |-> groups[g].parent, rev |-> NextRevision]]
    /\ Edits
    /\ UNCHANGED <<proxies, vault, available, drafts, file, split, strays>>

-------------------------------------------------------------------------------
(* Proxies.                                                                    *)

StoreProxy(id, old, atOldAddress, change) ==
    /\ proxies' = Written(proxies, id, [pass |-> PassAfter(old, change, PassRef(id)),
                                        old |-> atOldAddress, rev |-> NextRevision])
    /\ vault' = VaultAfter(old, change, PassRef(id))
    /\ Edits

SaveProxy(w, atOldAddress, change) ==
    /\ Editing(w, "proxy") /\ Agrees(w, proxies)
    /\ StoreProxy(drafts[w].id, proxies[drafts[w].id].pass, atOldAddress, change)
    /\ drafts' = [drafts EXCEPT ![w] = NoDraft]
    /\ UNCHANGED <<profiles, groups, available, file, split, strays>>

CreateProxy(atOldAddress, change) ==
    /\ NewProxies # {} /\ change # "clear"
    /\ StoreProxy(OneOf(NewProxies), None, atOldAddress, change)
    /\ UNCHANGED <<profiles, groups, available, drafts, file, split, strays>>

(* Only a proxy that no connection uses is deleted.                            *)
DeleteProxy(x) ==
    /\ \A p \in DOMAIN profiles : profiles[p].proxy # x
    /\ vault' = vault \ {proxies[x].pass}
    /\ proxies' = Deleted(proxies, x)
    /\ Edits
    /\ UNCHANGED <<profiles, groups, available, drafts, file, split, strays>>

-------------------------------------------------------------------------------
(* Proxies kept in the connection become rows of their own.                    *)

(* extractInlineRefs(): a proxy at the same address is used, or one is made of *)
(* the first connection with its password, and the connection keeps its copy.  *)
Extractions(ps, xs, who, rev) ==
    LET bare == {p \in who : ps[p].inline # NoInline /\ ps[p].proxy = None}
        known == {x \in DOMAIN xs : xs[x].old}
        linked(x) == [p \in DOMAIN ps |->
                          IF p \in bare THEN [ps[p] EXCEPT !.proxy = x] ELSE ps[p]]
        fresh == NewProxies \ DOMAIN xs
        made == OneOf(fresh)
    IN  IF bare = {} THEN {[profiles |-> ps, proxies |-> xs]}
        ELSE IF known # {} THEN {[profiles |-> linked(x), proxies |-> xs] : x \in known}
        ELSE IF fresh = {} THEN {}
        ELSE {[profiles |-> linked(made),
               proxies |-> Written(xs, made, [pass |-> ps[p].inline, old |-> TRUE,
                                              rev |-> rev])] : p \in bare}

MigrateInlineRefsOnce ==
    /\ ~split
    /\ split' = TRUE
    /\ \E e \in Extractions(profiles, proxies, DOMAIN profiles, 0) :
           profiles' = e.profiles /\ proxies' = e.proxies
    /\ UNCHANGED <<groups, vault, available, drafts, file, writes, strays>>

-------------------------------------------------------------------------------
(* The file.                                                                   *)

(* referencedRefs()                                                            *)
Referenced(ps, xs) == {ps[p].pass : p \in DOMAIN ps} \cup
                      {ps[p].inline : p \in DOMAIN ps} \cup
                      {xs[x].pass : x \in DOMAIN xs}

(* With the secrets that can be decrypted: a file without any is one that is    *)
(* imported without its passphrase.  The revisions of connections and groups   *)
(* are not used by an import.  Bound: one export, that can still be imported.  *)
ExportData ==
    /\ file \in {EmptyFile, OldFile} /\ writes < MaxWrites
    /\ file' = [profiles |-> Undated(profiles), groups |-> Undated(groups),
                proxies |-> proxies,
                secrets |-> IF available
                            THEN vault \cap Referenced(profiles, proxies) ELSE {}]
    /\ UNCHANGED <<profiles, groups, proxies, vault, available, drafts, split,
                   writes, strays>>

(* On another machine that has the same connections one is saved again, which  *)
(* drops the proxy kept in it; all that keep the same one are.                 *)
SavedElsewhere(ref) ==
    /\ writes < MaxWrites
    /\ file' = [file EXCEPT !.profiles = [p \in DOMAIN file.profiles |->
                    IF file.profiles[p].inline = ref
                    THEN [file.profiles[p] EXCEPT !.inline = NoInline]
                    ELSE file.profiles[p]]]
    /\ file' # file
    /\ UNCHANGED <<profiles, groups, proxies, vault, available, drafts, split,
                   writes, strays>>

Modes == {"skip", "overwrite", "duplicate"}

(* The ids that rows of the file get, and which of the rows are written.       *)
Renaming(mode, ids, fresh) ==
    IF mode # "duplicate" THEN {[i \in ids |-> i]}
    ELSE {m \in [ids -> fresh] : \A i, j \in ids : i # j => m[i] # m[j]}
Taken(mode, ids, f) == IF mode = "skip" THEN ids \ DOMAIN f ELSE ids

(* Rows of the file under their new ids, each changed by Row(id, row).         *)
Imported(mode, rows, f, m, Row(_, _)) ==
    [n \in {m[i] : i \in Taken(mode, DOMAIN rows, f)} |->
        LET i == CHOOSE i \in DOMAIN rows : m[i] = n IN Row(n, rows[i])]

MapId(m, id) == IF id \in DOMAIN m THEN m[id] ELSE id

(* Variant: a copy keeps the ref of what it was copied from.                   *)
TakeRefAsIs(mode, opened, id, field, ref) == ref

(* takeRef(): a copy gets a ref of its own, or none.                           *)
TakeRef(mode, opened, id, field, ref) ==
    IF mode # "duplicate" \/ ref \in {None, NoInline} THEN ref
    ELSE IF ref \in opened /\ available THEN <<id, field, writes + 1>>
    ELSE None

(* The secrets that it puts into the vault for rows with these refs.           *)
Put(mode, opened, refs) ==
    IF ~available THEN {}
    ELSE IF mode = "duplicate" THEN refs \ {None, NoInline} ELSE refs \cap opened

(* What an overwritten connection alone referred to.                           *)
Outdated(ps) ==
    UNION {{profiles[p].pass, profiles[p].inline} \ {ps[p].pass, ps[p].inline} :
               p \in DOMAIN ps \cap DOMAIN profiles}

(* applyImport(), with the passphrase of the file or without.                  *)
ApplyImport(mode, withPassphrase) ==
    LET opened == IF withPassphrase THEN file.secrets ELSE {}
        gms == Renaming(mode, DOMAIN file.groups, NewGroups)
        xms == Renaming(mode, DOMAIN file.proxies, NewProxies)
        pms == Renaming(mode, DOMAIN file.profiles, NewProfiles)
        gm == OneOf(gms)
        xm == OneOf(xms)
        pm == OneOf(pms)
        groupRow(id, r) == [parent |-> MapId(gm, r.parent), rev |-> NextRevision]
        proxyRow(id, r) == [r EXCEPT !.pass = TakeRef(mode, opened, id, "pass", r.pass)]
        profileRow(id, r) ==
            [group |-> MapId(gm, r.group), proxy |-> MapId(xm, r.proxy),
             pass |-> TakeRef(mode, opened, id, "pass", r.pass),
             inline |-> TakeRef(mode, opened, id, "inline", r.inline),
             rev |-> NextRevision]
        gs == Imported(mode, file.groups, groups, gm, groupRow)
        xs == Imported(mode, file.proxies, proxies, xm, proxyRow)
        ps == Imported(mode, file.profiles, profiles, pm, profileRow)
    IN  /\ file # EmptyFile
        /\ withPassphrase => file.secrets # {}
        /\ gms # {} /\ xms # {} /\ pms # {}
        /\ \E e \in Extractions(Over(ps, profiles), Over(xs, proxies), DOMAIN ps,
                               NextRevision) :
               profiles' = e.profiles /\ proxies' = e.proxies
        /\ groups' = Over(gs, groups)
        /\ vault' = (vault \cup Put(mode, opened, Referenced(ps, xs))) \ Outdated(ps)
        /\ Writes
        /\ UNCHANGED <<available, drafts, file, split, strays>>

(* The system's key store comes and goes between starts; counted as a write.   *)
AvailabilityChanges ==
    /\ available' = ~available
    /\ Edits
    /\ UNCHANGED <<profiles, groups, proxies, vault, drafts, file, split, strays>>

-------------------------------------------------------------------------------
EditConnections ==
    \/ \E w \in Windows : OpenDraft(w) \/ Choose(w) \/ DiscardDraft(w)
    \/ \E w \in Windows, change \in Changes : SaveProfile(w, change) \/ CreateProfile(w, change)
    \/ \E w \in Windows : CreateGroup(w) \/ SaveGroup(w)
    \/ \E p \in DOMAIN profiles :
           DeleteProfile(p) \/ DuplicateProfile(p) \/ RememberPassword(p)
    \/ \E g \in DOMAIN groups : DeleteGroup(g)
    \/ \E atOldAddress \in BOOLEAN, change \in Changes :
           \/ \E w \in Windows : SaveProxy(w, atOldAddress, change)
           \/ CreateProxy(atOldAddress, change)
    \/ \E x \in DOMAIN proxies : DeleteProxy(x)

MoveConnections ==
    \/ ExportData
    \/ \E p \in DOMAIN file.profiles : SavedElsewhere(file.profiles[p].inline)
    \/ \E mode \in Modes, withPassphrase \in BOOLEAN : ApplyImport(mode, withPassphrase)

(* Bound: no draft stays open that cannot be saved any more.                   *)
Savable == writes >= MaxEdits => \A w \in Windows : drafts[w] = NoDraft

ConnectionsNext ==
    \/ MigrateInlineRefsOnce
    \/ split /\ (EditConnections \/ MoveConnections \/ AvailabilityChanges) /\ Savable'

ConnectionsSpec == ConnectionsInit /\ [][ConnectionsNext]_connectionVars

-------------------------------------------------------------------------------
(* Properties.                                                                 *)

(* Whatever windows, deletions and imports do to groups, each group and each   *)
(* connection has a place in the panel: none is stored where it is not shown.  *)
(* The exception is the code's: what a form was saved into that named a group  *)
(* another window had deleted in between, and what hangs below it.             *)
TreeComplete == InPlace(profiles, groups, {Root} \cup (strays \ DOMAIN groups))

(* A password that a connection or a proxy refers to before and after a step   *)
(* is not deleted by it: deleting one thing never takes the password of        *)
(* another.  Left aside are the passwords that came with an inline proxy and   *)
(* that its connection, copies of it and the proxies split off all refer to.   *)
Holders(ref) == {p \in DOMAIN profiles : ref \in {profiles[p].pass, profiles[p].inline}}
                \cup {x \in DOMAIN proxies : proxies[x].pass = ref}
Kept == {ref \in vault : ref[2] = "pass" \/ \A a, b \in Holders(ref) : a = b}
SecretsSurvive ==
    [][/\ \A p \in DOMAIN profiles \cap DOMAIN profiles' :
            profiles[p].pass = profiles'[p].pass /\ profiles[p].pass \in Kept
                => profiles[p].pass \in vault'
       /\ \A x \in DOMAIN proxies \cap DOMAIN proxies' :
            proxies[x].pass = proxies'[x].pass /\ proxies[x].pass \in Kept
                => proxies[x].pass \in vault']_connectionVars

(* A window that saves replaces the row its user has seen, however many        *)
(* windows, deletions, moves and imports came in between (CONFIG_CONFLICT).    *)
NoBlindOverwrite ==
    [][\A w \in Windows :
         drafts[w] # NoDraft /\ drafts'[w] = NoDraft /\ writes' # writes =>
           CASE drafts[w].kind = "profile" -> profiles[drafts[w].id] = drafts[w].row
             [] drafts[w].kind = "group" -> groups[drafts[w].id] = drafts[w].row
             [] drafts[w].kind = "proxy" -> proxies[drafts[w].id] = drafts[w].row
             [] OTHER -> TRUE
      ]_connectionVars
==============================================================================
