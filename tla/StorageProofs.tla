----------------------------- MODULE StorageProofs -----------------------------
(* What Connections.tla says of the tree of groups, of windows that save at    *)
(* the same time and of the passwords in the vault, for every number of        *)
(* windows, rows, writes and imports; what Encryption.tla says of the plain    *)
(* text in the database, for every set of hosts, commands and entities; and    *)
(* with EditorProofs.tla what Storage.tla promises.                            *)
EXTENDS Storage, EditorProofs

(* A row of the table that has the revision of a row seen before is that row.  *)
SameRows(f, g) == \A i \in DOMAIN f \cap DOMAIN g : f[i].rev = g[i].rev => f[i] = g[i]
Dated(f) == \A i \in DOMAIN f : f[i].rev <= writes

FileTypeOK ==
    /\ DOMAIN file = {"profiles", "groups", "proxies", "secrets"}
    /\ Rows(file.profiles, ProfileIds, Profiles)
    /\ Rows(file.groups, GroupIds, Groups)
    /\ Rows(file.proxies, ProxyIds, Proxies)
    /\ file.secrets \subseteq Refs

(* No row gets the revision of a draft or of a row in the file once more: the  *)
(* file gives proxies back with the revision they were exported with.          *)
Matches(d, f) == d.id \in DOMAIN f /\ f[d.id].rev = d.row.rev => f[d.id] = d.row
Editors(kind) == {w \in Windows : drafts[w] # NoDraft /\ drafts[w].kind = kind}

ProfileDrafts == \A w \in Editors("profile") :
    /\ drafts[w].id \in ProfileIds /\ drafts[w].row \in Profiles
    /\ drafts[w].row.rev <= writes /\ Matches(drafts[w], profiles)
GroupDrafts == \A w \in Editors("group") :
    /\ drafts[w].id \in GroupIds /\ drafts[w].row \in Groups
    /\ drafts[w].row.rev <= writes /\ Matches(drafts[w], groups)
ProxyDrafts == \A w \in Editors("proxy") :
    /\ drafts[w].id \in ProxyIds /\ drafts[w].row \in Proxies
    /\ drafts[w].row.rev <= writes /\ Matches(drafts[w], proxies)
    /\ Matches(drafts[w], file.proxies)

AllDated == Dated(profiles) /\ Dated(groups) /\ Dated(proxies) /\ Dated(file.proxies)

(* What hangs at the root, at a group, or where a form still named a group     *)
(* when that was gone; and the parents lead nowhere back, neither those in the *)
(* table nor those in the file, so that either may replace the other.          *)
Known(gs) == DOMAIN gs \cup {Root} \cup strays
Placed(ps, gs) == /\ \A g \in DOMAIN gs : gs[g].parent \in Known(gs)
                  /\ \A p \in DOMAIN ps : ps[p].group \in Known(gs)
TreeInv == /\ Placed(profiles, groups) /\ Placed(file.profiles, file.groups)
           /\ NoLoops(groups, file.groups)

(* The migration of the inline proxies changes rows without a new revision,    *)
(* before the first window is open.                                            *)
MigratesAlone == ~split => \A w \in Windows : drafts[w] = NoDraft

FormsTyped == \A w \in Windows : drafts[w] # NoDraft =>
    /\ DOMAIN drafts[w] = {"kind", "id", "row", "group", "proxy"}
    /\ drafts[w].kind \in {"profile", "newProfile", "group", "newGroup", "proxy"}
    /\ drafts[w].group \in GroupIds \cup {Root}
    /\ drafts[w].proxy \in ProxyIds \cup {None}
Typed == ConnectionsTypeOK /\ FileTypeOK /\ DOMAIN drafts = Windows /\ FormsTyped
Seen == /\ ProfileDrafts /\ GroupDrafts /\ ProxyDrafts
        /\ AllDated /\ SameRows(proxies, file.proxies)
ConnInv == Typed /\ Seen /\ MigratesAlone /\ TreeInv

-------------------------------------------------------------------------------
(* Tables: writing, deleting and laying over keep the type of the rows.        *)
LEMMA RowsWritten ==
    ASSUME NEW f, NEW ids, NEW kind, Rows(f, ids, kind),
           NEW i \in ids, NEW row \in kind
    PROVE  Rows(Written(f, i, row), ids, kind)
BY DEF Rows, Written

LEMMA RowsDeleted ==
    ASSUME NEW f, NEW ids, NEW kind, Rows(f, ids, kind), NEW i
    PROVE  Rows(Deleted(f, i), ids, kind)
BY DEF Rows, Deleted

LEMMA RowsOver ==
    ASSUME NEW f, NEW g, NEW ids, NEW kind, Rows(f, ids, kind), Rows(g, ids, kind)
    PROVE  Rows(Over(g, f), ids, kind)
BY DEF Rows, Over

(* Choosing an id of those that are free.                                      *)
LEMMA OneOfIn == ASSUME NEW S, S # {} PROVE OneOf(S) \in S
BY DEF OneOf

(* Revisions are natural numbers, and the next one is larger than all.         *)
LEMMA RevIsNat ==
    ASSUME NEW row, row \in Profiles \/ row \in Groups \/ row \in Proxies
    PROVE  row.rev \in Nat
BY ConnectionsAssumption DEF Profiles, Groups, Proxies

-------------------------------------------------------------------------------
(* The tree.                                                                   *)

(* A table without loops whose groups and connections hang somewhere is shown. *)
LEMMA WholeTree ==
    ASSUME NEW ps, NEW gs, Placed(ps, gs), NEW hs, NoLoops(gs, hs)
    PROVE  InPlace(ps, gs, {Root} \cup (strays \ DOMAIN gs))
<1> DEFINE tops == {Root} \cup (strays \ DOMAIN gs)
<1>1. ASSUME NEW S \in Descended(gs, tops), NEW h \in DOMAIN gs, h \notin S
      PROVE  FALSE
  <2> DEFINE X == DOMAIN gs \ S
  <2>1. X \in SUBSET (DOMAIN gs \cup DOMAIN hs) /\ X # {}
    BY <1>1
  <2>2. PICK g \in X : gs[g].parent \notin X
    BY <2>1 DEF NoLoops
  <2>3. gs[g].parent \in S
    BY <2>2 DEF Descended, Placed, Known
  <2> QED  BY <2>2, <2>3 DEF Descended
<1>2. Known(gs) \subseteq DOMAIN gs \cup tops
  BY DEF Known
<1>3. DOMAIN gs \cup tops \subseteq Below(gs, tops)
  <2>1. \A S \in Descended(gs, tops) : DOMAIN gs \cup tops \subseteq S
    BY <1>1 DEF Descended
  <2> HIDE DEF tops
  <2> QED  BY <2>1 DEF Below
<1> HIDE DEF tops
<1>4. InPlace(ps, gs, tops)
  BY <1>2, <1>3 DEF InPlace, Placed
<1> QED  BY <1>4 DEF tops

(* What the panel shows from the root hangs at the root or at a group.         *)
LEMMA ShownIsPlaced ==
    ASSUME NEW ps, NEW gs, InPlace(ps, gs, {Root}), Root \notin DOMAIN gs
    PROVE  Placed(ps, gs)
<1>1. \A g \in DOMAIN gs : gs[g].parent \in DOMAIN gs \cup {Root}
  <2> DEFINE S == {Root} \cup {g \in DOMAIN gs : gs[g].parent \in DOMAIN gs \cup {Root}}
  <2>1. S \in Descended(gs, {Root})
    BY DEF Descended
  <2>2. DOMAIN gs \subseteq S \cup {Root}
    <3> HIDE DEF S
    <3> QED  BY <2>1 DEF InPlace, Below
  <2> QED  BY <2>2
<1>2. \A p \in DOMAIN ps : ps[p].group \in DOMAIN gs \cup {Root}
  BY DEF InPlace, Below
<1> QED  BY <1>1, <1>2 DEF Placed, Known

(* Rows that keep their parents, or have the ones of the other table, make no  *)
(* loop ...                                                                    *)
From(f, gs, hs) ==
    \A g \in DOMAIN f : \/ g \in DOMAIN gs /\ f[g].parent = gs[g].parent
                        \/ g \in DOMAIN hs /\ f[g].parent = hs[g].parent

LEMMA SameParents ==
    ASSUME NEW gs, NEW hs, NoLoops(gs, hs),
           NEW gs2, From(gs2, gs, hs), NEW hs2, From(hs2, gs, hs)
    PROVE  NoLoops(gs2, hs2)
<1>1. ASSUME NEW S \in SUBSET (DOMAIN gs2 \cup DOMAIN hs2), S # {}
      PROVE  \E g \in S : /\ g \in DOMAIN gs2 => gs2[g].parent \notin S
                          /\ g \in DOMAIN hs2 => hs2[g].parent \notin S
  <2>1. S \in SUBSET (DOMAIN gs \cup DOMAIN hs)
    BY DEF From
  <2>2. PICK g \in S : /\ g \in DOMAIN gs => gs[g].parent \notin S
                       /\ g \in DOMAIN hs => hs[g].parent \notin S
    BY <1>1, <2>1 DEF NoLoops
  <2> QED  BY <2>2 DEF From
<1> QED  BY <1>1 DEF NoLoops

(* ... nor does a new group that nothing hangs at, ...                         *)
LEMMA GroupAdded ==
    ASSUME NEW gs, NEW hs, NoLoops(gs, hs),
           NEW g, g \notin DOMAIN gs \cup DOMAIN hs,
           \A h \in DOMAIN gs : gs[h].parent # g, \A h \in DOMAIN hs : hs[h].parent # g,
           NEW row, row.parent # g
    PROVE  NoLoops(Written(gs, g, row), hs)
<1> DEFINE gs2 == Written(gs, g, row)
<1>1. /\ DOMAIN gs2 = DOMAIN gs \cup {g} /\ gs2[g] = row
      /\ \A h \in DOMAIN gs : gs2[h] = gs[h]
  BY DEF Written
<1>2. ASSUME NEW S \in SUBSET (DOMAIN gs2 \cup DOMAIN hs), S # {}
      PROVE  \E h \in S : /\ h \in DOMAIN gs2 => gs2[h].parent \notin S
                          /\ h \in DOMAIN hs => hs[h].parent \notin S
  <2>1. CASE S = {g}
    BY <1>1, <2>1
  <2>2. CASE S # {g}
    <3>1. S \ {g} \in SUBSET (DOMAIN gs \cup DOMAIN hs) /\ S \ {g} # {}
      BY <1>1, <1>2, <2>2
    <3>2. PICK h \in S \ {g} : /\ h \in DOMAIN gs => gs[h].parent \notin S \ {g}
                               /\ h \in DOMAIN hs => hs[h].parent \notin S \ {g}
      BY <3>1 DEF NoLoops
    <3> QED  BY <1>1, <3>2
  <2> QED  BY <2>1, <2>2
<1> HIDE DEF gs2
<1>3. NoLoops(gs2, hs)
  BY <1>2 DEF NoLoops
<1> QED  BY <1>3 DEF gs2

(* ... a group that is deleted and whose children move up to its parent, ...   *)
MovedUp(gs, g, gs2) ==
    /\ DOMAIN gs2 = DOMAIN gs \ {g}
    /\ \A h \in DOMAIN gs2 : \/ gs[h].parent = g /\ gs2[h].parent = gs[g].parent
                             \/ gs[h].parent # g /\ gs2[h].parent = gs[h].parent

LEMMA ChildrenMoveUp ==
    ASSUME NEW gs, NEW hs, NoLoops(gs, hs), NEW g \in DOMAIN gs,
           NEW gs2, MovedUp(gs, g, gs2)
    PROVE  NoLoops(gs2, hs)
<1> USE DEF MovedUp
<1>1. ASSUME NEW S \in SUBSET (DOMAIN gs2 \cup DOMAIN hs), S # {}
      PROVE  \E h \in S : /\ h \in DOMAIN gs2 => gs2[h].parent \notin S
                          /\ h \in DOMAIN hs => hs[h].parent \notin S
  <2>1. CASE g \in S \/ gs[g].parent \notin S
    <3>1. S \in SUBSET (DOMAIN gs \cup DOMAIN hs)
      OBVIOUS
    <3>2. PICK h \in S : /\ h \in DOMAIN gs => gs[h].parent \notin S
                         /\ h \in DOMAIN hs => hs[h].parent \notin S
      BY <1>1, <3>1 DEF NoLoops
    <3> QED  BY <2>1, <3>2
  <2>2. CASE g \notin S /\ gs[g].parent \in S
    <3>1. S \cup {g} \in SUBSET (DOMAIN gs \cup DOMAIN hs) /\ S \cup {g} # {}
      OBVIOUS
    <3>2. PICK h \in S \cup {g} : /\ h \in DOMAIN gs => gs[h].parent \notin S \cup {g}
                                  /\ h \in DOMAIN hs => hs[h].parent \notin S \cup {g}
      BY <3>1 DEF NoLoops
    <3> QED  BY <2>2, <3>2
  <2> QED  BY <2>1, <2>2
<1> QED  BY <1>1 DEF NoLoops

(* ... and copies of the other table with new ids.                             *)
LEMMA GroupsCopied ==
    ASSUME NEW gs, NEW hs, NoLoops(gs, hs),
           NEW m, DOMAIN m = DOMAIN hs,
           \A i \in DOMAIN hs : m[i] \notin DOMAIN gs \cup DOMAIN hs,
           \A i, j \in DOMAIN hs : m[i] = m[j] => i = j,
           \A i \in DOMAIN hs : /\ \A h \in DOMAIN gs : gs[h].parent # m[i]
                                /\ \A h \in DOMAIN hs : hs[h].parent # m[i],
           NEW gs2, DOMAIN gs2 = DOMAIN gs \cup {m[i] : i \in DOMAIN hs},
           \A h \in DOMAIN gs : gs2[h] = gs[h],
           \A i \in DOMAIN hs : gs2[m[i]].parent = MapId(m, hs[i].parent)
    PROVE  NoLoops(gs2, hs)
<1>1. ASSUME NEW S \in SUBSET (DOMAIN gs2 \cup DOMAIN hs), S # {}
      PROVE  \E h \in S : /\ h \in DOMAIN gs2 => gs2[h].parent \notin S
                          /\ h \in DOMAIN hs => hs[h].parent \notin S
  <2> DEFINE old == S \cap (DOMAIN gs \cup DOMAIN hs)
  <2>1. CASE old # {}
    <3>1. PICK h \in old : /\ h \in DOMAIN gs => gs[h].parent \notin old
                           /\ h \in DOMAIN hs => hs[h].parent \notin old
      BY <2>1 DEF NoLoops
    <3>2. S \subseteq old \cup {m[i] : i \in DOMAIN hs}
      OBVIOUS
    <3>3. h \in DOMAIN gs2 => h \in DOMAIN gs
      BY <3>1
    <3>4. /\ h \in DOMAIN gs => gs[h].parent \notin S
          /\ h \in DOMAIN hs => hs[h].parent \notin S
      BY <3>1, <3>2
    <3> QED  BY <3>1, <3>3, <3>4
  <2>2. CASE old = {}
    <3> DEFINE of == {i \in DOMAIN hs : m[i] \in S}
    <3>1. of \in SUBSET (DOMAIN gs \cup DOMAIN hs) /\ of # {}
      BY <1>1, <2>2
    <3>2. PICK i \in of : hs[i].parent \notin of
      BY <3>1 DEF NoLoops
    <3>3. MapId(m, hs[i].parent) \notin S
      <4>1. CASE hs[i].parent \in DOMAIN hs
        BY <3>2, <4>1 DEF MapId
      <4>2. CASE hs[i].parent \notin DOMAIN hs
        <5>1. S \subseteq {m[j] : j \in DOMAIN hs}
          BY <2>2
        <5>2. MapId(m, hs[i].parent) = hs[i].parent
          BY <4>2 DEF MapId
        <5> QED  BY <5>1, <5>2
      <4> QED  BY <4>1, <4>2
    <3>4. m[i] \in S /\ gs2[m[i]].parent \notin S /\ m[i] \notin DOMAIN hs
      BY <3>2, <3>3
    <3> QED  BY <3>4
  <2> QED  BY <2>1, <2>2
<1> QED  BY <1>1 DEF NoLoops

-------------------------------------------------------------------------------
(* What windows have seen.  Drafts are closed, rows get a new revision.        *)
OnlyClosed == \A w \in Windows : drafts'[w] \in {drafts[w], NoDraft}
Renewed(f, g) == \A i \in DOMAIN g :
    \/ i \in DOMAIN f /\ g[i] = f[i]
    \/ g[i].rev = writes + 1 /\ writes' = writes + 1

LEMMA ProfilesRenewed ==
    ASSUME Typed, ProfileDrafts, Dated(profiles), OnlyClosed,
           writes' \in {writes, writes + 1}, Renewed(profiles, profiles')
    PROVE  ProfileDrafts' /\ Dated(profiles)'
<1>1. writes \in Nat
  BY ConnectionsAssumption DEF Typed, ConnectionsTypeOK
<1>2. Dated(profiles)'
  <2>1. \A p \in DOMAIN profiles : profiles[p].rev \in Nat
    BY RevIsNat DEF Typed, ConnectionsTypeOK, Rows
  <2> QED  BY <1>1, <2>1 DEF Dated, Renewed
<1>3. ASSUME NEW w \in Editors("profile")'
      PROVE  /\ drafts'[w].id \in ProfileIds /\ drafts'[w].row \in Profiles
             /\ drafts'[w].row.rev <= writes' /\ Matches(drafts'[w], profiles')
  <2>1. w \in Editors("profile") /\ drafts'[w] = drafts[w]
    BY <1>3 DEF Editors, OnlyClosed
  <2>2. drafts[w].row.rev \in Nat
    BY <2>1, RevIsNat DEF ProfileDrafts
  <2> QED  BY <1>1, <2>1, <2>2 DEF ProfileDrafts, Matches, Renewed
<1> QED  BY <1>2, <1>3 DEF ProfileDrafts

LEMMA GroupsRenewed ==
    ASSUME Typed, GroupDrafts, Dated(groups), OnlyClosed,
           writes' \in {writes, writes + 1}, Renewed(groups, groups')
    PROVE  GroupDrafts' /\ Dated(groups)'
<1>1. writes \in Nat
  BY ConnectionsAssumption DEF Typed, ConnectionsTypeOK
<1>2. Dated(groups)'
  <2>1. \A g \in DOMAIN groups : groups[g].rev \in Nat
    BY RevIsNat DEF Typed, ConnectionsTypeOK, Rows
  <2> QED  BY <1>1, <2>1 DEF Dated, Renewed
<1>3. ASSUME NEW w \in Editors("group")'
      PROVE  /\ drafts'[w].id \in GroupIds /\ drafts'[w].row \in Groups
             /\ drafts'[w].row.rev <= writes' /\ Matches(drafts'[w], groups')
  <2>1. w \in Editors("group") /\ drafts'[w] = drafts[w]
    BY <1>3 DEF Editors, OnlyClosed
  <2>2. drafts[w].row.rev \in Nat
    BY <2>1, RevIsNat DEF GroupDrafts
  <2> QED  BY <1>1, <2>1, <2>2 DEF GroupDrafts, Matches, Renewed
<1> QED  BY <1>2, <1>3 DEF GroupDrafts

(* A proxy may also come back from the file, or be one that nothing knows of.  *)
RenewedOrKnown == \A x \in DOMAIN proxies' :
    \/ x \in DOMAIN proxies /\ proxies'[x] = proxies[x]
    \/ proxies'[x].rev = writes + 1 /\ writes' = writes + 1
    \/ x \in DOMAIN file.proxies /\ proxies'[x] = file.proxies[x]
    \/ x \in NewProxies /\ proxies'[x].rev \in 0..writes

LEMMA ProxiesRenewed ==
    ASSUME Typed, ProxyDrafts, Dated(proxies), Dated(file.proxies),
           SameRows(proxies, file.proxies), OnlyClosed,
           writes' \in {writes, writes + 1}, RenewedOrKnown,
           file'.proxies = file.proxies
    PROVE  ProxyDrafts' /\ Dated(proxies)' /\ Dated(file.proxies)'
           /\ SameRows(proxies, file.proxies)'
<1>1. writes \in Nat
  BY ConnectionsAssumption DEF Typed, ConnectionsTypeOK
<1>2. /\ \A x \in DOMAIN proxies : proxies[x].rev \in Nat
      /\ \A x \in DOMAIN file.proxies : file.proxies[x].rev \in Nat
  BY RevIsNat DEF Typed, ConnectionsTypeOK, FileTypeOK, Rows
<1>3. Dated(proxies)' /\ Dated(file.proxies)'
  <2>1. ASSUME NEW x \in DOMAIN proxies' PROVE proxies'[x].rev <= writes'
    BY <1>1, <1>2 DEF RenewedOrKnown, Dated
  <2>2. \A x \in DOMAIN file'.proxies : file'.proxies[x].rev <= writes'
    BY <1>1, <1>2 DEF Dated
  <2> QED  BY <2>1, <2>2 DEF Dated
<1>4. SameRows(proxies, file.proxies)'
  <2>1. ASSUME NEW x \in DOMAIN proxies' \cap DOMAIN file'.proxies,
               proxies'[x].rev = file'.proxies[x].rev
        PROVE  proxies'[x] = file'.proxies[x]
    BY <1>1, <1>2, <2>1 DEF RenewedOrKnown, NewProxies, SameRows, Dated
  <2> QED  BY <2>1 DEF SameRows
<1>5. ASSUME NEW w \in Editors("proxy")'
      PROVE  /\ drafts'[w].id \in ProxyIds /\ drafts'[w].row \in Proxies
             /\ drafts'[w].row.rev <= writes' /\ Matches(drafts'[w], proxies')
             /\ Matches(drafts'[w], file'.proxies)
  <2>1. w \in Editors("proxy") /\ drafts'[w] = drafts[w]
    BY <1>5 DEF Editors, OnlyClosed
  <2>2. drafts[w].row.rev \in Nat
    BY <2>1, RevIsNat DEF ProxyDrafts
  <2>3. drafts[w].id \notin NewProxies
    BY <2>1 DEF Editors, NewProxies, Edited
  <2>4. Matches(drafts[w], proxies')
    BY <1>1, <2>1, <2>2, <2>3 DEF ProxyDrafts, Matches, RenewedOrKnown
  <2> QED  BY <1>1, <2>1, <2>2, <2>4 DEF ProxyDrafts
<1> QED  BY <1>3, <1>4, <1>5 DEF ProxyDrafts

(* A step that closes drafts and renews rows keeps what windows rely on.       *)
LEMMA RenewedIsSeen ==
    ASSUME ConnInv, split, split', OnlyClosed, writes' \in {writes, writes + 1},
           Renewed(profiles, profiles'), Renewed(groups, groups'), RenewedOrKnown,
           file'.proxies = file.proxies
    PROVE  Seen' /\ MigratesAlone'
<1>1. ProfileDrafts' /\ Dated(profiles)'
  BY ProfilesRenewed DEF ConnInv, Seen, AllDated
<1>2. GroupDrafts' /\ Dated(groups)'
  BY GroupsRenewed DEF ConnInv, Seen, AllDated
<1>3. /\ ProxyDrafts' /\ Dated(proxies)' /\ Dated(file.proxies)'
      /\ SameRows(proxies, file.proxies)'
  BY ProxiesRenewed DEF ConnInv, Seen, AllDated
<1> QED  BY <1>1, <1>2, <1>3 DEF Seen, AllDated, MigratesAlone

LEMMA SameIsRenewed == ASSUME NEW f PROVE Renewed(f, f)
BY DEF Renewed

LEMMA WrittenIsRenewed ==
    ASSUME NEW f, NEW i, NEW row, row.rev = writes + 1, writes' = writes + 1
    PROVE  Renewed(f, Written(f, i, row))
BY DEF Renewed, Written

LEMMA DeletedIsRenewed == ASSUME NEW f, NEW i PROVE Renewed(f, Deleted(f, i))
BY DEF Renewed, Deleted

LEMMA RenewedProxies == ASSUME Renewed(proxies, proxies') PROVE RenewedOrKnown
BY DEF Renewed, RenewedOrKnown

(* The ref and the vault after a change of a password.                         *)
LEMMA PassType ==
    ASSUME Typed, writes < MaxWrites, NEW id \in ProfileIds \cup ProxyIds,
           NEW pass \in Refs \cup {None}, NEW change \in Changes
    PROVE  /\ PassRef(id) \in Refs
           /\ PassAfter(pass, change, PassRef(id)) \in Refs \cup {None}
           /\ VaultAfter(pass, change, PassRef(id)) \subseteq Refs
<1>1. PassRef(id) \in Refs
  BY ConnectionsAssumption DEF Typed, ConnectionsTypeOK, PassRef, Refs
<1>2. PassAfter(pass, change, PassRef(id)) \in Refs \cup {None}
  BY <1>1 DEF PassAfter, Changes
<1>3. ASSUME available, change = "set"
      PROVE  PassAfter(pass, change, PassRef(id)) \in Refs
  BY <1>1, <1>3 DEF PassAfter
<1>4. vault \subseteq Refs
  BY DEF Typed, ConnectionsTypeOK
<1>5. VaultAfter(pass, change, PassRef(id)) \subseteq Refs
  BY <1>3, <1>4 DEF VaultAfter, Changes
<1> QED  BY <1>1, <1>2, <1>5

LEMMA NextRevisionType ==
    ASSUME Typed, Writes
    PROVE  /\ writes \in Nat /\ writes < MaxWrites
           /\ NextRevision \in 0..MaxWrites /\ writes' \in 0..MaxWrites
           /\ writes' = writes + 1 /\ NextRevision = writes + 1
BY ConnectionsAssumption DEF Typed, ConnectionsTypeOK, Writes, NextRevision

-------------------------------------------------------------------------------
LEMMA ConnInit == ConnectionsInit => ConnInv
<1> SUFFICES ASSUME ConnectionsInit PROVE ConnInv
  OBVIOUS
<1> USE ConnectionsAssumption DEF ConnectionsInit
<1>1. ConnectionsTypeOK
  <2>1. /\ Rows(profiles, ProfileIds, Profiles) /\ Rows(groups, GroupIds, Groups)
        /\ Rows(proxies, ProxyIds, Proxies) /\ vault \subseteq Refs
    OBVIOUS
  <2>2. writes \in 0..MaxWrites
    OBVIOUS
  <2> QED  BY <2>1, <2>2 DEF ConnectionsTypeOK
<1>2. FileTypeOK
  <2>1. CASE file = EmptyFile
    BY <2>1 DEF EmptyFile, FileTypeOK, Rows
  <2>2. CASE file = OldFile
    BY <2>2 DEF FileTypeOK
  <2> QED  BY <2>1, <2>2
<1>3. \A f : f = Undated(f) => \A i \in DOMAIN f : f[i] = [f[i] EXCEPT !.rev = 0]
  BY DEF Undated
<1>4. \A i \in DOMAIN profiles : profiles[i].rev = 0
  <2>1. ASSUME NEW i \in DOMAIN profiles PROVE profiles[i].rev = 0
    <3>1. profiles[i] = [profiles[i] EXCEPT !.rev = 0] /\ profiles[i] \in Profiles
      BY <1>1, <1>3 DEF ConnectionsTypeOK, Rows
    <3> QED  BY <3>1 DEF Profiles
  <2> QED  BY <2>1
<1>5. \A i \in DOMAIN groups : groups[i].rev = 0
  <2>1. ASSUME NEW i \in DOMAIN groups PROVE groups[i].rev = 0
    <3>1. groups[i] = [groups[i] EXCEPT !.rev = 0] /\ groups[i] \in Groups
      BY <1>1, <1>3 DEF ConnectionsTypeOK, Rows
    <3> QED  BY <3>1 DEF Groups
  <2> QED  BY <2>1
<1>6. \A i \in DOMAIN proxies : proxies[i].rev = 0
  <2>1. ASSUME NEW i \in DOMAIN proxies PROVE proxies[i].rev = 0
    <3>1. proxies[i] = [proxies[i] EXCEPT !.rev = 0] /\ proxies[i] \in Proxies
      BY <1>1, <1>3 DEF ConnectionsTypeOK, Rows
    <3> QED  BY <3>1 DEF Proxies
  <2> QED  BY <2>1
<1>7. DOMAIN file.proxies = {}
  BY DEF EmptyFile
<1>8. Seen
  <2>1. Editors("profile") = {} /\ Editors("group") = {} /\ Editors("proxy") = {}
    BY DEF Editors
  <2> QED  BY <1>4, <1>5, <1>6, <1>7, <2>1 DEF Seen, AllDated, Dated, SameRows,
              ProfileDrafts, GroupDrafts, ProxyDrafts
<1>9. \A f : Rows(f, GroupIds, Groups) => Root \notin DOMAIN f
  BY DEF Rows
<1>10. Placed(profiles, groups)
  BY <1>9, ShownIsPlaced
<1>11. Placed(file.profiles, file.groups)
  <2>1. CASE file = EmptyFile
    BY <2>1 DEF EmptyFile, Placed
  <2>2. CASE file = OldFile
    BY <1>9, <2>2, ShownIsPlaced
  <2> QED  BY <2>1, <2>2
<1>12. NoLoops(groups, file.groups)
  <2>1. From(groups, Stored.groups, OldFile.groups)
    BY DEF From
  <2>2. From(file.groups, Stored.groups, OldFile.groups)
    BY DEF From, EmptyFile
  <2> QED  BY <2>1, <2>2, SameParents
<1>13. MigratesAlone
  BY DEF MigratesAlone
<1>14. FormsTyped
  BY DEF FormsTyped
<1> QED  BY <1>1, <1>2, <1>8, <1>10, <1>11, <1>12, <1>13, <1>14 DEF ConnInv, Typed, TreeInv

(* Connections that hang where others did, or where a form wanted them.        *)
LEMMA StaysInPlace ==
    ASSUME ConnInv, UNCHANGED <<groups, file>>, strays \subseteq strays',
           \A p \in DOMAIN profiles' : profiles'[p].group \in Known(groups)'
    PROVE  TreeInv'
<1>1. /\ \A g \in DOMAIN groups : groups[g].parent \in Known(groups)'
      /\ \A g \in DOMAIN file.groups : file.groups[g].parent \in Known(file.groups)'
      /\ \A p \in DOMAIN file.profiles : file.profiles[p].group \in Known(file.groups)'
  BY DEF ConnInv, TreeInv, Placed, Known
<1>2. Placed(profiles, groups)' /\ Placed(file.profiles, file.groups)'
  BY <1>1 DEF Placed
<1>3. NoLoops(groups', file'.groups)
  BY DEF ConnInv, TreeInv
<1> QED  BY <1>2, <1>3 DEF TreeInv

LEMMA PlacesOfProfiles ==
    ASSUME ConnInv, NEW p \in DOMAIN profiles
    PROVE  profiles[p].group \in Known(groups)
BY DEF ConnInv, TreeInv, Placed

(* Forms that are closed leave the others as they are.                         *)
LEMMA FormsClosed == ASSUME Typed, OnlyClosed PROVE FormsTyped'
BY DEF Typed, OnlyClosed, FormsTyped

(* Opening, changing and discarding a draft.                                   *)
LEMMA DraftsKeep ==
    ASSUME ConnInv, split, NEW w \in Windows, OpenDraft(w) \/ Choose(w) \/ DiscardDraft(w)
    PROVE  ConnInv'
<1>1. /\ UNCHANGED <<profiles, groups, proxies, vault, available, file, split, writes, strays>>
      /\ DOMAIN drafts = Windows /\ FormsTyped
  BY DEF OpenDraft, Open, Choose, DiscardDraft, ConnInv, Typed, ConnectionsTypeOK, FormsTyped
<1>2. ASSUME DOMAIN drafts' = Windows, FormsTyped', ProfileDrafts', GroupDrafts', ProxyDrafts'
      PROVE  ConnInv'
  <2>1. Typed' /\ MigratesAlone'
    BY <1>1, <1>2 DEF ConnInv, Typed, ConnectionsTypeOK, FileTypeOK, FormsTyped, MigratesAlone
  <2>2. AllDated' /\ SameRows(proxies, file.proxies)'
    BY <1>1 DEF ConnInv, Seen, AllDated, Dated, SameRows
  <2>3. TreeInv'
    BY <1>1 DEF ConnInv, TreeInv, Placed, Known
  <2> QED  BY <1>2, <2>1, <2>2, <2>3 DEF ConnInv, Seen
<1>3. ASSUME NEW kind, NEW id, NEW row, NEW group, NEW proxy,
             Open(w, kind, id, row, group, proxy),
             kind \in {"profile", "newProfile", "group", "newGroup", "proxy"},
             group \in GroupIds \cup {Root}, proxy \in ProxyIds \cup {None},
             kind = "profile" => id \in DOMAIN profiles /\ row = profiles[id],
             kind = "group" => id \in DOMAIN groups /\ row = groups[id],
             kind = "proxy" => id \in DOMAIN proxies /\ row = proxies[id]
      PROVE  ConnInv'
  <2> DEFINE d == [kind |-> kind, id |-> id, row |-> row, group |-> group, proxy |-> proxy]
  <2>1. drafts' = [drafts EXCEPT ![w] = d]
    BY <1>3 DEF Open
  <2>2. /\ d.kind = kind /\ d.id = id /\ d.row = row /\ d.group = group /\ d.proxy = proxy
        /\ DOMAIN d = {"kind", "id", "row", "group", "proxy"}
    OBVIOUS
  <2>3. /\ \A v \in Windows : drafts'[v] = IF v = w THEN d ELSE drafts[v]
        /\ \A k : \A v \in Editors(k)' : v # w => v \in Editors(k)
        /\ \A k : w \in Editors(k)' => k = kind
        /\ DOMAIN drafts' = Windows
    BY <1>1, <2>1 DEF Editors
  <2> HIDE DEF d
  <2>4. FormsTyped'
    BY <1>1, <1>3, <2>2, <2>3 DEF FormsTyped
  <2>5. ProfileDrafts'
    <3>1. ASSUME NEW v \in Editors("profile")'
          PROVE  /\ drafts'[v].id \in ProfileIds /\ drafts'[v].row \in Profiles
                 /\ drafts'[v].row.rev <= writes /\ Matches(drafts'[v], profiles)
      <4>1. CASE v # w
        BY <2>3, <3>1, <4>1 DEF ConnInv, Seen, ProfileDrafts, Editors
      <4>2. CASE v = w
        BY <1>3, <2>2, <2>3, <3>1, <4>2 DEF ConnInv, Seen, AllDated, Dated, Editors, Matches,
                                      Typed, ConnectionsTypeOK, Rows
      <4> QED  BY <4>1, <4>2
    <3> QED  BY <1>1, <3>1 DEF ProfileDrafts
  <2>6. GroupDrafts'
    <3>1. ASSUME NEW v \in Editors("group")'
          PROVE  /\ drafts'[v].id \in GroupIds /\ drafts'[v].row \in Groups
                 /\ drafts'[v].row.rev <= writes /\ Matches(drafts'[v], groups)
      <4>1. CASE v # w
        BY <2>3, <3>1, <4>1 DEF ConnInv, Seen, GroupDrafts, Editors
      <4>2. CASE v = w
        BY <1>3, <2>2, <2>3, <3>1, <4>2 DEF ConnInv, Seen, AllDated, Dated, Editors, Matches,
                                      Typed, ConnectionsTypeOK, Rows
      <4> QED  BY <4>1, <4>2
    <3> QED  BY <1>1, <3>1 DEF GroupDrafts
  <2>7. ProxyDrafts'
    <3>1. ASSUME NEW v \in Editors("proxy")'
          PROVE  /\ drafts'[v].id \in ProxyIds /\ drafts'[v].row \in Proxies
                 /\ drafts'[v].row.rev <= writes /\ Matches(drafts'[v], proxies)
                 /\ Matches(drafts'[v], file.proxies)
      <4>1. CASE v # w
        BY <2>3, <3>1, <4>1 DEF ConnInv, Seen, ProxyDrafts, Editors
      <4>2. CASE v = w
        BY <1>3, <2>2, <2>3, <3>1, <4>2 DEF ConnInv, Seen, AllDated, Dated, SameRows, Editors,
                                      Matches, Typed, ConnectionsTypeOK, Rows
      <4> QED  BY <4>1, <4>2
    <3> QED  BY <1>1, <3>1 DEF ProxyDrafts
  <2> QED  BY <1>2, <2>3, <2>4, <2>5, <2>6, <2>7
<1>4. CASE OpenDraft(w)
  <2>1. /\ \A p \in DOMAIN profiles : /\ profiles[p].group \in GroupIds \cup {Root}
                                      /\ profiles[p].proxy \in ProxyIds \cup {None}
        /\ \A g \in DOMAIN groups : g \in GroupIds /\ groups[g].parent \in GroupIds \cup {Root}
    BY DEF ConnInv, Typed, ConnectionsTypeOK, Rows, Profiles, Groups
  <2>2. CASE \E p \in DOMAIN profiles :
                 Open(w, "profile", p, profiles[p], profiles[p].group, profiles[p].proxy)
    BY <1>3, <2>1, <2>2
  <2>3. CASE \E g \in DOMAIN groups :
                 Open(w, "group", g, groups[g], groups[g].parent, None)
    BY <1>3, <2>1, <2>3
  <2>4. CASE \E x \in DOMAIN proxies : Open(w, "proxy", x, proxies[x], Root, None)
    BY <1>3, <2>4
  <2>5. CASE Open(w, "newProfile", None, NewRow, Root, None)
    BY <1>3, <2>5
  <2>6. CASE \E parent \in Places : Open(w, "newGroup", None, NewRow, parent, None)
    BY <1>3, <2>1, <2>6 DEF Places
  <2> QED  BY <1>4, <2>2, <2>3, <2>4, <2>5, <2>6 DEF OpenDraft
<1>5. CASE Choose(w)
  <2>1. drafts[w] # NoDraft
    BY <1>5 DEF Choose, Editing
  <2>2. ASSUME NEW d, drafts' = [drafts EXCEPT ![w] = d],
               DOMAIN d = DOMAIN drafts[w],
               d.kind = drafts[w].kind, d.id = drafts[w].id, d.row = drafts[w].row,
               d.group \in GroupIds \cup {Root}, d.proxy \in ProxyIds \cup {None}
        PROVE  ConnInv'
    <3>1. /\ \A v \in Windows : /\ drafts'[v] = IF v = w THEN d ELSE drafts[v]
                                /\ drafts[v] = NoDraft => drafts'[v] = NoDraft
          /\ DOMAIN drafts' = Windows
      BY <1>1, <2>1, <2>2
    <3>2. \A v \in Windows : drafts[v] # NoDraft =>
             /\ drafts'[v].kind = drafts[v].kind /\ drafts'[v].id = drafts[v].id
             /\ drafts'[v].row = drafts[v].row
      BY <2>2, <3>1
    <3>3. FormsTyped'
      BY <1>1, <2>1, <2>2, <3>1 DEF FormsTyped
    <3>4. \A k : Editors(k)' \subseteq Editors(k)
      BY <3>1, <3>2 DEF Editors
    <3>5. ProfileDrafts' /\ GroupDrafts' /\ ProxyDrafts'
      BY <1>1, <3>2, <3>4 DEF ConnInv, Seen, ProfileDrafts, GroupDrafts, ProxyDrafts,
                              Editors, Matches
    <3> QED  BY <1>2, <3>1, <3>3, <3>5
  <2>3. /\ DOMAIN drafts[w] = {"kind", "id", "row", "group", "proxy"}
        /\ drafts[w].group \in GroupIds \cup {Root} /\ drafts[w].proxy \in ProxyIds \cup {None}
    BY <1>1, <2>1 DEF FormsTyped
  <2>4. ASSUME NEW group \in Places, drafts' = [drafts EXCEPT ![w].group = group]
        PROVE  ConnInv'
    <3>1. group \in GroupIds \cup {Root}
      BY DEF Places, ConnInv, Typed, ConnectionsTypeOK, Rows
    <3> DEFINE d == [drafts[w] EXCEPT !.group = group]
    <3>2. /\ DOMAIN d = DOMAIN drafts[w] /\ d.kind = drafts[w].kind /\ d.id = drafts[w].id
          /\ d.row = drafts[w].row /\ d.group = group /\ d.proxy = drafts[w].proxy
      BY <2>3
    <3>3. drafts' = [drafts EXCEPT ![w] = d]
      BY <1>1, <2>4
    <3> HIDE DEF d
    <3> QED  BY <2>2, <2>3, <3>1, <3>2, <3>3
  <2>5. ASSUME NEW proxy \in Routes, drafts' = [drafts EXCEPT ![w].proxy = proxy]
        PROVE  ConnInv'
    <3>1. proxy \in ProxyIds \cup {None}
      BY DEF Routes, ConnInv, Typed, ConnectionsTypeOK, Rows
    <3> DEFINE d == [drafts[w] EXCEPT !.proxy = proxy]
    <3>2. /\ DOMAIN d = DOMAIN drafts[w] /\ d.kind = drafts[w].kind /\ d.id = drafts[w].id
          /\ d.row = drafts[w].row /\ d.group = drafts[w].group /\ d.proxy = proxy
      BY <2>3
    <3>3. drafts' = [drafts EXCEPT ![w] = d]
      BY <1>1, <2>5
    <3> HIDE DEF d
    <3> QED  BY <2>2, <2>3, <3>1, <3>2, <3>3
  <2> QED  BY <1>5, <2>4, <2>5 DEF Choose
<1>6. CASE DiscardDraft(w)
  <2>1. OnlyClosed /\ DOMAIN drafts' = Windows
    BY <1>1, <1>6 DEF DiscardDraft, OnlyClosed
  <2>2. FormsTyped'
    BY <2>1, FormsClosed DEF ConnInv
  <2>3. Seen'
    BY <1>1, <2>1, SameIsRenewed, RenewedProxies, RenewedIsSeen
  <2> QED  BY <1>2, <2>1, <2>2, <2>3 DEF Seen
<1> QED  BY <1>4, <1>5, <1>6

(* Closing one draft, or none.                                                 *)
LEMMA CloseDraft ==
    ASSUME Typed, NEW w \in Windows,
           drafts' = drafts \/ drafts' = [drafts EXCEPT ![w] = NoDraft]
    PROVE  OnlyClosed /\ DOMAIN drafts' = Windows /\ FormsTyped'
<1>1. OnlyClosed /\ DOMAIN drafts' = Windows
  BY DEF Typed, OnlyClosed
<1> QED  BY <1>1, FormsClosed

(* What an edit of the connections alone leaves to show.                       *)
LEMMA ProfilesEdited ==
    ASSUME ConnInv, split, Edits, UNCHANGED <<groups, proxies, file, split>>,
           available' \in BOOLEAN,
           drafts' = drafts \/ \E w \in Windows : drafts' = [drafts EXCEPT ![w] = NoDraft],
           Rows(profiles', ProfileIds, Profiles), Renewed(profiles, profiles'),
           vault' \subseteq Refs, strays \subseteq strays', strays' \subseteq GroupIds,
           \A p \in DOMAIN profiles' : profiles'[p].group \in Known(groups)'
    PROVE  ConnInv'
<1>1. writes' = writes + 1 /\ writes' \in 0..MaxWrites
  BY NextRevisionType DEF Edits, ConnInv
<1>2. OnlyClosed /\ DOMAIN drafts' = Windows
  <2>1. ASSUME NEW w \in Windows, drafts' = [drafts EXCEPT ![w] = NoDraft]
        PROVE  OnlyClosed /\ DOMAIN drafts' = Windows
    BY <2>1, CloseDraft DEF ConnInv
  <2>2. CASE drafts' = drafts
    BY <2>2 DEF ConnInv, Typed, OnlyClosed
  <2> QED  BY <2>1, <2>2
<1>3. FormsTyped'
  BY <1>2, FormsClosed DEF ConnInv
<1>4. Typed'
  BY <1>1, <1>2, <1>3 DEF ConnInv, Typed, ConnectionsTypeOK, FileTypeOK, FormsTyped
<1>5. Seen' /\ MigratesAlone'
  BY <1>1, <1>2, SameIsRenewed, RenewedProxies, RenewedIsSeen
<1>6. TreeInv'
  BY StaysInPlace
<1> QED  BY <1>4, <1>5, <1>6 DEF ConnInv

(* Storing a row at the place that its form names, be it there or gone.        *)
LEMMA PlaceOfForm ==
    ASSUME ConnInv, NEW group \in GroupIds \cup {Root}, strays' = Strayed(group)
    PROVE  /\ strays \subseteq strays' /\ strays' \subseteq GroupIds
           /\ group \in DOMAIN groups \cup {Root} \cup strays'
BY DEF ConnInv, Typed, ConnectionsTypeOK, Strayed, Places

LEMMA StoreProfileKeeps ==
    ASSUME ConnInv, split, NEW id \in ProfileIds, NEW old \in Refs \cup {None},
           NEW group \in GroupIds \cup {Root}, NEW proxy \in ProxyIds \cup {None},
           NEW change \in Changes, StoreProfile(id, old, group, proxy, change),
           UNCHANGED groups, strays' = Strayed(group)
    PROVE  /\ Edits
           /\ Rows(profiles', ProfileIds, Profiles) /\ Renewed(profiles, profiles')
           /\ vault' \subseteq Refs
           /\ strays \subseteq strays' /\ strays' \subseteq GroupIds
           /\ \A p \in DOMAIN profiles' : profiles'[p].group \in Known(groups)'
<1> DEFINE row == [group |-> group, proxy |-> proxy,
                   pass |-> PassAfter(old, change, PassRef(id)),
                   inline |-> NoInline, rev |-> NextRevision]
<1>1. /\ Edits /\ Writes /\ profiles' = Written(profiles, id, row)
      /\ vault' = VaultAfter(old, change, PassRef(id))
  BY DEF StoreProfile, Edits
<1>2. /\ NextRevision \in 0..MaxWrites /\ writes' = writes + 1
      /\ NextRevision = writes + 1 /\ writes < MaxWrites
  BY <1>1, NextRevisionType DEF ConnInv
<1>3. PassAfter(old, change, PassRef(id)) \in Refs \cup {None} /\ vault' \subseteq Refs
  BY <1>1, <1>2, PassType DEF ConnInv
<1>4. /\ strays \subseteq strays' /\ strays' \subseteq GroupIds
      /\ group \in DOMAIN groups \cup {Root} \cup strays'
  BY PlaceOfForm
<1>5. row \in Profiles
  BY <1>2, <1>3 DEF Profiles
<1>6. Rows(profiles', ProfileIds, Profiles)
  BY <1>1, <1>5, RowsWritten DEF ConnInv, Typed, ConnectionsTypeOK
<1>7. Renewed(profiles, profiles')
  BY <1>1, <1>2, WrittenIsRenewed
<1>8. \A p \in DOMAIN profiles' : profiles'[p].group \in Known(groups)'
  <2>1. \A p \in DOMAIN profiles : profiles[p].group \in DOMAIN groups \cup {Root} \cup strays
    BY PlacesOfProfiles DEF Known
  <2> QED  BY <1>1, <1>4, <2>1 DEF Written, Known
<1> QED  BY <1>1, <1>3, <1>4, <1>6, <1>7, <1>8

LEMMA ProfilesKeep ==
    ASSUME ConnInv, split,
           \/ \E w \in Windows, change \in Changes :
                 SaveProfile(w, change) \/ CreateProfile(w, change)
           \/ \E p \in DOMAIN profiles :
                 DeleteProfile(p) \/ DuplicateProfile(p) \/ RememberPassword(p)
    PROVE  ConnInv'
<1>1. /\ Rows(profiles, ProfileIds, Profiles) /\ vault \subseteq Refs
      /\ available \in BOOLEAN /\ strays \subseteq GroupIds
  BY DEF ConnInv, Typed, ConnectionsTypeOK
<1>2. ASSUME NEW w \in Windows, NEW change \in Changes,
             SaveProfile(w, change) \/ CreateProfile(w, change)
      PROVE  ConnInv'
  <2>1. /\ drafts[w].group \in GroupIds \cup {Root} /\ drafts[w].proxy \in ProxyIds \cup {None}
        /\ UNCHANGED <<groups, proxies, available, file, split>>
        /\ drafts' = [drafts EXCEPT ![w] = NoDraft] /\ strays' = Strayed(drafts[w].group)
    BY <1>2 DEF SaveProfile, CreateProfile, Editing, ConnInv, Typed, FormsTyped
  <2>2. ASSUME NEW id \in ProfileIds, NEW old \in Refs \cup {None},
               StoreProfile(id, old, drafts[w].group, drafts[w].proxy, change)
        PROVE  ConnInv'
    BY <1>1, <2>1, <2>2, StoreProfileKeeps, ProfilesEdited
  <2>3. CASE SaveProfile(w, change)
    <3>1. drafts[w].id \in DOMAIN profiles
      BY <2>3 DEF SaveProfile, Agrees
    <3>2. drafts[w].id \in ProfileIds /\ profiles[drafts[w].id].pass \in Refs \cup {None}
      BY <1>1, <3>1 DEF Rows, Profiles
    <3> QED  BY <2>2, <2>3, <3>2 DEF SaveProfile
  <2>4. CASE CreateProfile(w, change)
    <3>1. OneOf(NewProfiles) \in ProfileIds
      BY <2>4, OneOfIn DEF CreateProfile, NewProfiles
    <3> QED  BY <2>2, <2>4, <3>1 DEF CreateProfile
  <2> QED  BY <1>2, <2>3, <2>4
<1>3. UNCHANGED <<groups, strays>> => Known(groups)' = Known(groups)
  BY DEF Known
<1>4. ASSUME NEW p \in DOMAIN profiles, DeleteProfile(p) PROVE ConnInv'
  <2>1. Rows(profiles', ProfileIds, Profiles) /\ Renewed(profiles, profiles')
    BY <1>1, <1>4, RowsDeleted, DeletedIsRenewed DEF DeleteProfile
  <2>2. \A q \in DOMAIN profiles' : profiles'[q].group \in Known(groups)'
    BY <1>3, <1>4, PlacesOfProfiles DEF DeleteProfile, Deleted
  <2> QED  BY <1>1, <1>4, <2>1, <2>2, ProfilesEdited DEF DeleteProfile
<1>5. ASSUME NEW p \in DOMAIN profiles, DuplicateProfile(p) PROVE ConnInv'
  <2> DEFINE copy == OneOf(NewProfiles)
             pass == IF available /\ profiles[p].pass \in vault THEN PassRef(copy) ELSE None
             row == [profiles[p] EXCEPT !.pass = pass, !.rev = NextRevision]
  <2>1. /\ Edits /\ Writes /\ profiles' = Written(profiles, copy, row)
        /\ vault' = vault \cup ({pass} \ {None})
        /\ UNCHANGED <<groups, proxies, available, drafts, file, split, strays>>
    BY <1>5 DEF DuplicateProfile, Edits
  <2>2. /\ NextRevision \in 0..MaxWrites /\ writes' = writes + 1
        /\ NextRevision = writes + 1 /\ writes < MaxWrites
    BY <2>1, NextRevisionType DEF ConnInv
  <2>3. copy \in ProfileIds
    BY <1>5, OneOfIn DEF DuplicateProfile, NewProfiles
  <2>4. pass \in Refs \cup {None}
    BY <2>2, <2>3, PassType DEF ConnInv, Changes
  <2>5. profiles[p] \in Profiles
    BY <1>1 DEF Rows
  <2>6. row \in Profiles /\ row.rev = writes + 1 /\ row.group = profiles[p].group
    BY <2>2, <2>4, <2>5 DEF Profiles
  <2>7. Rows(profiles', ProfileIds, Profiles) /\ Renewed(profiles, profiles')
    BY <1>1, <2>1, <2>2, <2>3, <2>6, RowsWritten, WrittenIsRenewed
  <2>8. \A q \in DOMAIN profiles' : profiles'[q].group \in Known(groups)'
    BY <1>3, <2>1, <2>6, PlacesOfProfiles DEF Written
  <2>9. vault' \subseteq Refs
    BY <1>1, <2>1, <2>4
  <2> QED  BY <1>1, <2>1, <2>7, <2>8, <2>9, ProfilesEdited
<1>6. ASSUME NEW p \in DOMAIN profiles, RememberPassword(p) PROVE ConnInv'
  <2> DEFINE pass == PassAfter(profiles[p].pass, "set", PassRef(p))
  <2>1. /\ available /\ Edits /\ Writes /\ vault' = vault \cup {pass}
        /\ profiles' = [profiles EXCEPT ![p].pass = pass, ![p].rev = NextRevision]
        /\ UNCHANGED <<groups, proxies, available, drafts, file, split, strays>>
    BY <1>6 DEF RememberPassword, Edits
  <2>2. /\ NextRevision \in 0..MaxWrites /\ writes' = writes + 1
        /\ NextRevision = writes + 1 /\ writes < MaxWrites
    BY <2>1, NextRevisionType DEF ConnInv
  <2>3. p \in ProfileIds /\ profiles[p] \in Profiles
    BY <1>1 DEF Rows
  <2>4. profiles[p].pass \in Refs \cup {None}
    BY <2>3 DEF Profiles
  <2>5. PassRef(p) \in Refs
    BY <2>2, <2>3, PassType DEF ConnInv, Changes
  <2>6. pass \in Refs
    BY <2>1, <2>4, <2>5 DEF PassAfter
  <2>7. /\ Rows(profiles', ProfileIds, Profiles)
        /\ \A q \in DOMAIN profiles' : /\ q \in DOMAIN profiles
                                       /\ profiles'[q].group = profiles[q].group
                                       /\ q # p => profiles'[q] = profiles[q]
        /\ profiles'[p].rev = writes + 1
    BY <1>1, <2>1, <2>2, <2>3, <2>6 DEF Rows, Profiles
  <2>8. Renewed(profiles, profiles')
    BY <2>2, <2>7 DEF Renewed
  <2>9. \A q \in DOMAIN profiles' : profiles'[q].group \in Known(groups)'
    BY <1>3, <2>1, <2>7, PlacesOfProfiles
  <2> QED  BY <1>1, <2>1, <2>6, <2>7, <2>8, <2>9, ProfilesEdited
<1> QED  BY <1>2, <1>4, <1>5, <1>6

(* Groups: a new one, a renamed one, and one whose content moves up.           *)
LEMMA GroupsKeep ==
    ASSUME ConnInv, split,
           \/ \E w \in Windows : CreateGroup(w) \/ SaveGroup(w)
           \/ \E g \in DOMAIN groups : DeleteGroup(g)
    PROVE  ConnInv'
<1>1. /\ Rows(groups, GroupIds, Groups) /\ Rows(profiles, ProfileIds, Profiles)
      /\ DOMAIN drafts = Windows /\ strays \subseteq GroupIds /\ Root \notin GroupIds
      /\ Placed(profiles, groups) /\ Placed(file.profiles, file.groups)
      /\ NoLoops(groups, file.groups)
  BY ConnectionsAssumption DEF ConnInv, Typed, ConnectionsTypeOK, TreeInv
<1>2. ASSUME Edits, Writes, UNCHANGED <<proxies, vault, available, file, split>>, OnlyClosed,
             DOMAIN drafts' = Windows, strays \subseteq strays', strays' \subseteq GroupIds,
             Rows(groups', GroupIds, Groups), Rows(profiles', ProfileIds, Profiles),
             Renewed(groups, groups'), Renewed(profiles, profiles'),
             Placed(profiles, groups)', NoLoops(groups', file.groups)
      PROVE  ConnInv'
  <2>1. writes' = writes + 1 /\ writes' \in 0..MaxWrites
    BY <1>2, NextRevisionType DEF ConnInv
  <2>2. FormsTyped'
    BY <1>2, FormsClosed DEF ConnInv
  <2>3. Typed'
    BY <1>2, <2>1, <2>2 DEF ConnInv, Typed, ConnectionsTypeOK, FileTypeOK, FormsTyped
  <2>4. Seen' /\ MigratesAlone'
    BY <1>2, <2>1, SameIsRenewed, RenewedProxies, RenewedIsSeen
  <2>5. Placed(file.profiles, file.groups)'
    BY <1>1, <1>2 DEF Placed, Known
  <2>6. TreeInv'
    BY <1>2, <2>5 DEF TreeInv
  <2> QED  BY <2>3, <2>4, <2>6 DEF ConnInv
<1>3. UNCHANGED drafts => OnlyClosed
  BY DEF OnlyClosed
<1>4. ASSUME NEW w \in Windows, SaveGroup(w) PROVE ConnInv'
  <2> DEFINE g == drafts[w].id
             row == [parent |-> drafts[w].row.parent, rev |-> NextRevision]
  <2>1. /\ Edits /\ Writes /\ groups' = [groups EXCEPT ![g] = row] /\ g \in DOMAIN groups
        /\ drafts' = [drafts EXCEPT ![w] = NoDraft]
        /\ UNCHANGED <<profiles, proxies, vault, available, file, split, strays>>
    BY <1>4 DEF SaveGroup, Edits, Agrees
  <2>2. /\ NextRevision \in 0..MaxWrites /\ writes' = writes + 1
        /\ NextRevision = writes + 1
    BY <2>1, NextRevisionType DEF ConnInv
  <2>3. drafts[w].row = groups[g]
    <3>1. w \in Editors("group")
      BY <1>4 DEF SaveGroup, Editing, Editors
    <3> QED  BY <1>4, <3>1 DEF SaveGroup, Agrees, ConnInv, Seen, GroupDrafts, Matches
  <2>4. row \in Groups
    BY <1>1, <2>1, <2>2, <2>3 DEF Rows, Groups
  <2>5. /\ DOMAIN groups' = DOMAIN groups
        /\ \A h \in DOMAIN groups : groups'[h].parent = groups[h].parent
        /\ Rows(groups', GroupIds, Groups) /\ Renewed(groups, groups')
    BY <1>1, <2>1, <2>2, <2>3, <2>4 DEF Rows, Renewed
  <2>6. NoLoops(groups', file.groups)
    <3>1. From(groups', groups, file.groups) /\ From(file.groups, groups, file.groups)
      BY <2>5 DEF From
    <3> QED  BY <1>1, <3>1, SameParents
  <2>7. Placed(profiles, groups)'
    BY <1>1, <2>1, <2>5 DEF Placed, Known
  <2>8. Renewed(profiles, profiles')
    BY <2>1, SameIsRenewed
  <2> QED  BY <1>1, <1>2, <2>1, <2>5, <2>6, <2>7, <2>8, CloseDraft DEF ConnInv
<1>5. ASSUME NEW w \in Windows, CreateGroup(w) PROVE ConnInv'
  <2> DEFINE g == OneOf(NewGroups)
             row == [parent |-> drafts[w].group, rev |-> NextRevision]
  <2>1. /\ Edits /\ Writes /\ groups' = Written(groups, g, row) /\ NewGroups # {}
        /\ drafts[w] # NoDraft /\ drafts' = [drafts EXCEPT ![w] = NoDraft]
        /\ strays' = Strayed(drafts[w].group)
        /\ UNCHANGED <<profiles, proxies, vault, available, file, split>>
    BY <1>5 DEF CreateGroup, Edits, Editing
  <2>2. /\ NextRevision \in 0..MaxWrites /\ writes' = writes + 1
        /\ NextRevision = writes + 1
    BY <2>1, NextRevisionType DEF ConnInv
  <2>3. /\ g \in GroupIds /\ g \notin DOMAIN groups /\ g \notin DOMAIN file.groups
        /\ g \notin strays /\ g # Root /\ drafts[w].group # g
    <3>1. g \in NewGroups
      BY <2>1, OneOfIn
    <3> QED  BY <1>1, <2>1, <3>1 DEF NewGroups, Chosen
  <2>4. drafts[w].group \in GroupIds \cup {Root} /\ row.parent = drafts[w].group
    BY <2>1 DEF ConnInv, Typed, FormsTyped
  <2>5. row \in Groups /\ row.rev = writes + 1
    BY <2>2, <2>4 DEF Groups
  <2>6. Rows(groups', GroupIds, Groups) /\ Renewed(groups, groups')
    BY <1>1, <2>1, <2>2, <2>3, <2>5, RowsWritten, WrittenIsRenewed
  <2>7. /\ strays \subseteq strays' /\ strays' \subseteq GroupIds
        /\ row.parent \in DOMAIN groups \cup {Root} \cup strays'
    BY <2>1, <2>4, PlaceOfForm
  <2> HIDE DEF g, row
  <2>8. Placed(profiles, groups)'
    <3>1. /\ DOMAIN groups' = DOMAIN groups \cup {g} /\ groups'[g] = row
          /\ \A h \in DOMAIN groups : groups'[h] = groups[h]
      BY <2>1, <2>3 DEF Written
    <3> QED  BY <1>1, <2>1, <2>7, <3>1 DEF Placed, Known
  <2>9. NoLoops(groups', file.groups)
    <3>1. /\ \A h \in DOMAIN groups : groups[h].parent # g
          /\ \A h \in DOMAIN file.groups : file.groups[h].parent # g
      BY <1>1, <2>3 DEF Placed, Known
    <3>2. row.parent # g
      BY <2>3, <2>4
    <3> QED  BY <1>1, <2>1, <2>3, <3>1, <3>2, GroupAdded
  <2>10. Renewed(profiles, profiles')
    BY <2>1, SameIsRenewed
  <2> QED  BY <1>1, <1>2, <2>1, <2>6, <2>7, <2>8, <2>9, <2>10, CloseDraft DEF ConnInv
<1>6. ASSUME NEW g \in DOMAIN groups, DeleteGroup(g) PROVE ConnInv'
  <2> DEFINE moved(p) == [profiles[p] EXCEPT !.group = groups[g].parent,
                                             !.rev = NextRevision]
             lifted == [parent |-> groups[g].parent, rev |-> NextRevision]
  <2>1. /\ Edits /\ Writes
        /\ profiles' = [p \in DOMAIN profiles |->
               IF profiles[p].group # g THEN profiles[p] ELSE moved(p)]
        /\ groups' = [h \in DOMAIN groups \ {g} |->
               IF groups[h].parent # g THEN groups[h] ELSE lifted]
        /\ UNCHANGED <<proxies, vault, available, drafts, file, split, strays>>
    BY <1>6 DEF DeleteGroup, Edits
  <2>2. /\ NextRevision \in 0..MaxWrites /\ writes' = writes + 1
        /\ NextRevision = writes + 1
    BY <2>1, NextRevisionType DEF ConnInv
  <2>3. groups[g].parent \in GroupIds \cup {Root}
    BY <1>1 DEF Rows, Groups
  <2>4. lifted \in Groups /\ lifted.rev = writes + 1
    BY <2>2, <2>3 DEF Groups
  <2>5. \A p \in DOMAIN profiles : /\ profiles[p] \in Profiles /\ moved(p) \in Profiles
                                   /\ moved(p).rev = writes + 1
                                   /\ moved(p).group = groups[g].parent
    BY <1>1, <2>2, <2>3 DEF Rows, Profiles
  <2>6. Rows(groups', GroupIds, Groups) /\ Renewed(groups, groups')
    BY <1>1, <2>1, <2>2, <2>4 DEF Rows, Renewed
  <2>7. Rows(profiles', ProfileIds, Profiles) /\ Renewed(profiles, profiles')
    BY <1>1, <2>1, <2>2, <2>5 DEF Rows, Renewed
  <2>8. /\ DOMAIN groups' = DOMAIN groups \ {g} /\ DOMAIN profiles' = DOMAIN profiles
        /\ \A h \in DOMAIN groups' :
              groups'[h].parent = IF groups[h].parent = g THEN groups[g].parent
                                  ELSE groups[h].parent
        /\ \A p \in DOMAIN profiles :
              profiles'[p].group = IF profiles[p].group = g THEN groups[g].parent
                                   ELSE profiles[p].group
    BY <2>1, <2>5
  <2>9. NoLoops(groups', file.groups)
    <3>1. MovedUp(groups, g, groups')
      BY <2>8 DEF MovedUp
    <3> QED  BY <1>1, <3>1, ChildrenMoveUp
  <2>10. groups[g].parent # g
    <3>1. {g} \in SUBSET (DOMAIN groups \cup DOMAIN file.groups)
      OBVIOUS
    <3> QED  BY <1>1, <3>1 DEF NoLoops
  <2>11. Placed(profiles, groups)'
    <3>1. /\ \A h \in DOMAIN groups : groups[h].parent \in DOMAIN groups \cup {Root} \cup strays
          /\ \A p \in DOMAIN profiles :
                profiles[p].group \in DOMAIN groups \cup {Root} \cup strays
      BY <1>1 DEF Placed, Known
    <3>2. groups[g].parent \in DOMAIN groups' \cup {Root} \cup strays
      BY <2>8, <2>10, <3>1
    <3>3. ASSUME NEW h \in DOMAIN groups'
          PROVE  groups'[h].parent \in DOMAIN groups' \cup {Root} \cup strays
      BY <2>8, <3>1, <3>2, <3>3
    <3>4. ASSUME NEW p \in DOMAIN profiles'
          PROVE  profiles'[p].group \in DOMAIN groups' \cup {Root} \cup strays
      BY <2>8, <3>1, <3>2, <3>4
    <3> QED  BY <2>1, <3>3, <3>4 DEF Placed, Known
  <2> QED  BY <1>1, <1>2, <1>3, <2>1, <2>6, <2>7, <2>9, <2>11
<1> QED  BY <1>4, <1>5, <1>6

(* Proxies: only their own table, the vault and a draft change.                *)
LEMMA ProxiesKeep ==
    ASSUME ConnInv, split,
           \/ \E atOldAddress \in BOOLEAN, change \in Changes :
                 \/ \E w \in Windows : SaveProxy(w, atOldAddress, change)
                 \/ CreateProxy(atOldAddress, change)
           \/ \E x \in DOMAIN proxies : DeleteProxy(x)
    PROVE  ConnInv'
<1>1. /\ Rows(proxies, ProxyIds, Proxies) /\ vault \subseteq Refs
      /\ DOMAIN drafts = Windows
  BY DEF ConnInv, Typed, ConnectionsTypeOK
<1>2. ASSUME Writes, UNCHANGED <<profiles, groups, available, file, split, strays>>,
             OnlyClosed, DOMAIN drafts' = Windows,
             Rows(proxies', ProxyIds, Proxies), Renewed(proxies, proxies'),
             vault' \subseteq Refs
      PROVE  ConnInv'
  <2>1. writes' = writes + 1 /\ writes' \in 0..MaxWrites
    BY <1>2, NextRevisionType DEF ConnInv
  <2>2. FormsTyped'
    BY <1>2, FormsClosed DEF ConnInv
  <2>3. Typed'
    BY <1>2, <2>1, <2>2 DEF ConnInv, Typed, ConnectionsTypeOK, FileTypeOK, FormsTyped
  <2>4. Seen' /\ MigratesAlone'
    BY <1>2, <2>1, SameIsRenewed, RenewedProxies, RenewedIsSeen
  <2>5. TreeInv'
    BY <1>2, StaysInPlace, PlacesOfProfiles DEF Known
  <2> QED  BY <2>3, <2>4, <2>5 DEF ConnInv
<1>3. UNCHANGED drafts => OnlyClosed
  BY DEF OnlyClosed
<1>4. ASSUME NEW id \in ProxyIds, NEW old \in Refs \cup {None},
             NEW atOldAddress \in BOOLEAN, NEW change \in Changes,
             StoreProxy(id, old, atOldAddress, change)
      PROVE  /\ Writes /\ vault' \subseteq Refs
             /\ Rows(proxies', ProxyIds, Proxies) /\ Renewed(proxies, proxies')
  <2> DEFINE row == [pass |-> PassAfter(old, change, PassRef(id)),
                     old |-> atOldAddress, rev |-> NextRevision]
  <2>1. /\ Writes /\ proxies' = Written(proxies, id, row)
        /\ vault' = VaultAfter(old, change, PassRef(id))
    BY <1>4 DEF StoreProxy, Edits
  <2>2. /\ NextRevision \in 0..MaxWrites /\ writes' = writes + 1
        /\ NextRevision = writes + 1 /\ writes < MaxWrites
    BY <2>1, NextRevisionType DEF ConnInv
  <2>3. /\ PassAfter(old, change, PassRef(id)) \in Refs \cup {None}
        /\ vault' \subseteq Refs
    BY <2>1, <2>2, PassType DEF ConnInv
  <2>4. row \in Proxies
    BY <2>2, <2>3 DEF Proxies
  <2> QED  BY <1>1, <2>1, <2>2, <2>3, <2>4, RowsWritten, WrittenIsRenewed
<1>5. ASSUME NEW atOldAddress \in BOOLEAN, NEW change \in Changes,
             NEW w \in Windows, SaveProxy(w, atOldAddress, change)
      PROVE  ConnInv'
  <2>1. drafts[w].id \in ProxyIds /\ proxies[drafts[w].id].pass \in Refs \cup {None}
    BY <1>1, <1>5 DEF SaveProxy, Agrees, Rows, Proxies
  <2> QED  BY <1>2, <1>4, <1>5, <2>1, CloseDraft DEF SaveProxy, ConnInv
<1>6. ASSUME NEW atOldAddress \in BOOLEAN, NEW change \in Changes,
             CreateProxy(atOldAddress, change)
      PROVE  ConnInv'
  <2>1. OneOf(NewProxies) \in ProxyIds
    BY <1>6, OneOfIn DEF CreateProxy, NewProxies
  <2> QED  BY <1>1, <1>2, <1>3, <1>4, <1>6, <2>1 DEF CreateProxy
<1>7. ASSUME NEW x \in DOMAIN proxies, DeleteProxy(x) PROVE ConnInv'
  <2>1. Rows(proxies', ProxyIds, Proxies) /\ Renewed(proxies, proxies')
    BY <1>1, <1>7, RowsDeleted, DeletedIsRenewed DEF DeleteProxy
  <2> QED  BY <1>1, <1>2, <1>3, <1>7, <2>1 DEF DeleteProxy, Edits
<1> QED  BY <1>5, <1>6, <1>7

-------------------------------------------------------------------------------
(* Splitting off inline proxies links the connections it is asked to, keeps    *)
(* everything else of them and makes at most one proxy with a new id.          *)
LEMMA Extracted ==
    ASSUME NEW ps, Rows(ps, ProfileIds, Profiles), NEW xs, Rows(xs, ProxyIds, Proxies),
           NEW who \in SUBSET DOMAIN ps, NEW rev \in 0..MaxWrites,
           NEW e \in Extractions(ps, xs, who, rev)
    PROVE  /\ Rows(e.profiles, ProfileIds, Profiles) /\ Rows(e.proxies, ProxyIds, Proxies)
           /\ DOMAIN e.profiles = DOMAIN ps
           /\ \A p \in DOMAIN ps : /\ e.profiles[p].group = ps[p].group
                                   /\ e.profiles[p].rev = ps[p].rev
                                   /\ p \notin who => e.profiles[p] = ps[p]
           /\ \A x \in DOMAIN e.proxies :
                 \/ x \in DOMAIN xs /\ e.proxies[x] = xs[x]
                 \/ x \in NewProxies \ DOMAIN xs /\ e.proxies[x].rev = rev
<1> DEFINE bare == {p \in who : ps[p].inline # NoInline /\ ps[p].proxy = None}
           known == {x \in DOMAIN xs : xs[x].old}
           linked(x) == [p \in DOMAIN ps |->
                             IF p \in bare THEN [ps[p] EXCEPT !.proxy = x] ELSE ps[p]]
           fresh == NewProxies \ DOMAIN xs
           made == OneOf(fresh)
           row(p) == [pass |-> ps[p].inline, old |-> TRUE, rev |-> rev]
<1>1. ASSUME NEW x \in ProxyIds
      PROVE  /\ Rows(linked(x), ProfileIds, Profiles) /\ DOMAIN linked(x) = DOMAIN ps
             /\ \A p \in DOMAIN ps : /\ linked(x)[p].group = ps[p].group
                                     /\ linked(x)[p].rev = ps[p].rev
                                     /\ p \notin who => linked(x)[p] = ps[p]
  <2>1. \A p \in DOMAIN ps : p \in ProfileIds /\ ps[p] \in Profiles
    BY DEF Rows
  <2>2. \A p \in DOMAIN ps : /\ [ps[p] EXCEPT !.proxy = x] \in Profiles
                             /\ [ps[p] EXCEPT !.proxy = x].group = ps[p].group
                             /\ [ps[p] EXCEPT !.proxy = x].rev = ps[p].rev
    BY <2>1 DEF Profiles
  <2> QED  BY <2>1, <2>2 DEF Rows
<1>2. CASE bare = {}
  <2>1. e = [profiles |-> ps, proxies |-> xs]
    BY <1>2 DEF Extractions
  <2> QED  BY <2>1
<1>3. CASE bare # {} /\ known # {}
  <2>1. PICK x \in known : e = [profiles |-> linked(x), proxies |-> xs]
    BY <1>3 DEF Extractions
  <2>2. x \in ProxyIds
    BY DEF Rows
  <2>3. e.profiles = linked(x) /\ e.proxies = xs
    BY <2>1
  <2> HIDE DEF linked, known
  <2> QED  BY <1>1, <2>2, <2>3
<1>4. CASE bare # {} /\ known = {}
  <2>1. fresh # {} /\ \E p \in bare : e = [profiles |-> linked(made),
                                           proxies |-> Written(xs, made, row(p))]
    BY <1>4 DEF Extractions
  <2>2. PICK p \in bare : e = [profiles |-> linked(made),
                               proxies |-> Written(xs, made, row(p))]
    BY <2>1
  <2>3. made \in NewProxies \ DOMAIN xs /\ made \in ProxyIds
    BY <2>1, OneOfIn DEF NewProxies
  <2>4. e.profiles = linked(made) /\ e.proxies = Written(xs, made, row(p))
    BY <2>2
  <2>5. ps[p] \in Profiles /\ ps[p].inline # NoInline
    BY DEF Rows
  <2>6. row(p) \in Proxies /\ row(p).rev = rev
    BY <2>5 DEF Profiles, Proxies
  <2>7. Rows(e.proxies, ProxyIds, Proxies)
    BY <2>3, <2>4, <2>6, RowsWritten
  <2>8. \A x \in DOMAIN e.proxies :
            \/ x \in DOMAIN xs /\ e.proxies[x] = xs[x]
            \/ x \in NewProxies \ DOMAIN xs /\ e.proxies[x].rev = rev
    BY <2>3, <2>4, <2>6 DEF Written
  <2> HIDE DEF linked, made
  <2> QED  BY <1>1, <2>3, <2>4, <2>7, <2>8
<1> QED  BY <1>2, <1>3, <1>4

LEMMA MigrateKeeps ==
    ASSUME ConnInv, MigrateInlineRefsOnce
    PROVE  ConnInv'
<1>1. PICK e \in Extractions(profiles, proxies, DOMAIN profiles, 0) :
          profiles' = e.profiles /\ proxies' = e.proxies
  BY DEF MigrateInlineRefsOnce
<1>2. /\ ~split /\ split'
      /\ UNCHANGED <<groups, vault, available, drafts, file, writes, strays>>
      /\ \A w \in Windows : drafts[w] = NoDraft
      /\ Rows(profiles, ProfileIds, Profiles) /\ Rows(proxies, ProxyIds, Proxies)
      /\ 0 \in 0..MaxWrites /\ writes \in Nat
      /\ DOMAIN profiles \in SUBSET DOMAIN profiles
  BY ConnectionsAssumption DEF MigrateInlineRefsOnce, ConnInv, MigratesAlone, Typed,
                               ConnectionsTypeOK
<1>3. /\ Rows(profiles', ProfileIds, Profiles) /\ Rows(proxies', ProxyIds, Proxies)
      /\ DOMAIN profiles' = DOMAIN profiles
      /\ \A p \in DOMAIN profiles : /\ profiles'[p].group = profiles[p].group
                                    /\ profiles'[p].rev = profiles[p].rev
      /\ \A x \in DOMAIN proxies' :
            \/ x \in DOMAIN proxies /\ proxies'[x] = proxies[x]
            \/ x \in NewProxies \ DOMAIN proxies /\ proxies'[x].rev = 0
  <2>1. /\ Rows(e.profiles, ProfileIds, Profiles) /\ Rows(e.proxies, ProxyIds, Proxies)
        /\ DOMAIN e.profiles = DOMAIN profiles
        /\ \A p \in DOMAIN profiles : /\ e.profiles[p].group = profiles[p].group
                                      /\ e.profiles[p].rev = profiles[p].rev
        /\ \A x \in DOMAIN e.proxies :
              \/ x \in DOMAIN proxies /\ e.proxies[x] = proxies[x]
              \/ x \in NewProxies \ DOMAIN proxies /\ e.proxies[x].rev = 0
    <3>1. /\ Rows(profiles, ProfileIds, Profiles) /\ Rows(proxies, ProxyIds, Proxies)
          /\ 0 \in 0..MaxWrites /\ DOMAIN profiles \in SUBSET DOMAIN profiles
      BY <1>2
    <3>2. e \in Extractions(profiles, proxies, DOMAIN profiles, 0)
      BY <1>1
    <3> QED  BY ONLY <3>1, <3>2, Extracted, SMTT(30)
  <2> QED  BY <1>1, <2>1
<1>4. Typed' /\ MigratesAlone'
  BY <1>2, <1>3 DEF ConnInv, Typed, ConnectionsTypeOK, FileTypeOK, MigratesAlone, FormsTyped
<1>5. TreeInv'
  BY <1>2, <1>3, StaysInPlace, PlacesOfProfiles DEF Known
<1>6. ProfileDrafts' /\ GroupDrafts' /\ ProxyDrafts'
  BY <1>2 DEF ProfileDrafts, GroupDrafts, ProxyDrafts, Editors
<1>7. AllDated'
  BY <1>2, <1>3 DEF ConnInv, Seen, AllDated, Dated
<1>8. SameRows(proxies, file.proxies)'
  BY <1>2, <1>3 DEF ConnInv, Seen, SameRows, NewProxies
<1> QED  BY <1>4, <1>5, <1>6, <1>7, <1>8 DEF ConnInv, Seen

-------------------------------------------------------------------------------
(* A file of the current rows, and one that was saved on another machine.      *)
LEMMA FilesKeep ==
    ASSUME ConnInv, split,
           ExportData \/ \E p \in DOMAIN file.profiles : SavedElsewhere(file.profiles[p].inline)
    PROVE  ConnInv'
<1>1. UNCHANGED <<profiles, groups, proxies, vault, available, drafts, split, writes, strays>>
  BY DEF ExportData, SavedElsewhere
<1>2. /\ ConnectionsTypeOK' /\ DOMAIN drafts' = Windows /\ FormsTyped'
      /\ MigratesAlone' /\ ProfileDrafts' /\ GroupDrafts'
      /\ Dated(profiles)' /\ Dated(groups)' /\ Dated(proxies)'
  BY <1>1 DEF ConnInv, Typed, ConnectionsTypeOK, FormsTyped, MigratesAlone, Seen,
              ProfileDrafts, GroupDrafts, AllDated, Dated, Editors, Matches
<1>3. ASSUME Placed(file'.profiles, file'.groups), NoLoops(groups, file'.groups)
      PROVE  TreeInv'
  BY <1>1, <1>3 DEF ConnInv, TreeInv, Placed, Known
<1>4. CASE ExportData
  <2> DEFINE secrets == IF available THEN vault \cap Referenced(profiles, proxies) ELSE {}
  <2>1. file' = [profiles |-> Undated(profiles), groups |-> Undated(groups),
                 proxies |-> proxies, secrets |-> secrets]
    BY <1>4 DEF ExportData
  <2>2. /\ file'.profiles = Undated(profiles) /\ file'.groups = Undated(groups)
        /\ file'.proxies = proxies /\ file'.secrets = secrets
        /\ DOMAIN file' = {"profiles", "groups", "proxies", "secrets"}
    BY <2>1
  <2>3. /\ Rows(profiles, ProfileIds, Profiles) /\ Rows(groups, GroupIds, Groups)
        /\ Rows(proxies, ProxyIds, Proxies) /\ vault \subseteq Refs /\ 0 \in 0..MaxWrites
    BY ConnectionsAssumption DEF ConnInv, Typed, ConnectionsTypeOK
  <2>4. /\ \A p \in DOMAIN profiles : /\ [profiles[p] EXCEPT !.rev = 0] \in Profiles
                                      /\ [profiles[p] EXCEPT !.rev = 0].group
                                             = profiles[p].group
    BY <2>3 DEF Rows, Profiles
  <2>5. /\ \A g \in DOMAIN groups : /\ [groups[g] EXCEPT !.rev = 0] \in Groups
                                    /\ [groups[g] EXCEPT !.rev = 0].parent
                                           = groups[g].parent
    BY <2>3 DEF Rows, Groups
  <2>6. FileTypeOK'
    BY <2>2, <2>3, <2>4, <2>5 DEF FileTypeOK, Undated, Rows
  <2>7. TreeInv'
    <3>1. /\ DOMAIN file'.profiles = DOMAIN profiles /\ DOMAIN file'.groups = DOMAIN groups
          /\ \A p \in DOMAIN profiles : file'.profiles[p].group = profiles[p].group
          /\ \A g \in DOMAIN groups : file'.groups[g].parent = groups[g].parent
      BY <2>2, <2>4, <2>5 DEF Undated
    <3>2. Placed(profiles, groups) /\ NoLoops(groups, file.groups)
      BY DEF ConnInv, TreeInv
    <3>3. Placed(file'.profiles, file'.groups)
      BY <3>1, <3>2 DEF Placed, Known
    <3>4. From(groups, groups, file.groups) /\ From(file'.groups, groups, file.groups)
      BY <3>1 DEF From
    <3>5. NoLoops(groups, file'.groups)
      BY <3>2, <3>4, SameParents
    <3> QED  BY <1>3, <3>3, <3>5
  <2>8. Dated(file.proxies)' /\ SameRows(proxies, file.proxies)'
    BY <1>1, <2>2 DEF ConnInv, Seen, AllDated, Dated, SameRows
  <2>9. ProxyDrafts'
    BY <1>1, <2>2 DEF ConnInv, Seen, ProxyDrafts, Editors, Matches
  <2> QED  BY <1>2, <2>6, <2>7, <2>8, <2>9 DEF ConnInv, Typed, Seen, AllDated
<1>5. ASSUME NEW ref, SavedElsewhere(ref) PROVE ConnInv'
  <2> DEFINE dropped(p) == IF file.profiles[p].inline = ref
                           THEN [file.profiles[p] EXCEPT !.inline = NoInline]
                           ELSE file.profiles[p]
  <2>1. /\ file' = [file EXCEPT !.profiles = [p \in DOMAIN file.profiles |-> dropped(p)]]
        /\ FileTypeOK
    BY <1>5 DEF SavedElsewhere, ConnInv, Typed
  <2>2. /\ file'.profiles = [p \in DOMAIN file.profiles |-> dropped(p)]
        /\ file'.groups = file.groups /\ file'.proxies = file.proxies
        /\ file'.secrets = file.secrets
        /\ DOMAIN file' = {"profiles", "groups", "proxies", "secrets"}
    BY <2>1 DEF FileTypeOK
  <2>3. \A p \in DOMAIN file.profiles :
            dropped(p) \in Profiles /\ dropped(p).group = file.profiles[p].group
    <3>1. \A p \in DOMAIN file.profiles : file.profiles[p] \in Profiles
      BY <2>1 DEF FileTypeOK, Rows
    <3> QED  BY <3>1 DEF Profiles
  <2>4. FileTypeOK'
    BY <2>1, <2>2, <2>3 DEF FileTypeOK, Rows
  <2>5. TreeInv'
    <3>1. Placed(file'.profiles, file'.groups)
      BY <2>2, <2>3 DEF ConnInv, TreeInv, Placed, Known
    <3> QED  BY <1>3, <2>2, <3>1 DEF ConnInv, TreeInv
  <2>6. Dated(file.proxies)' /\ SameRows(proxies, file.proxies)'
    BY <1>1, <2>2 DEF ConnInv, Seen, AllDated, Dated, SameRows
  <2>7. ProxyDrafts'
    BY <1>1, <2>2 DEF ConnInv, Seen, ProxyDrafts, Editors, Matches
  <2> QED  BY <1>2, <2>4, <2>5, <2>6, <2>7 DEF ConnInv, Typed, Seen, AllDated
<1> QED  BY <1>4, <1>5

-------------------------------------------------------------------------------
(* The ids that an import gives.                                               *)
LEMMA Renamed ==
    ASSUME NEW mode \in Modes, NEW ids, NEW fresh, NEW m \in Renaming(mode, ids, fresh)
    PROVE  /\ DOMAIN m = ids
           /\ \A i, j \in ids : m[i] = m[j] => i = j
           /\ mode # "duplicate" => \A i \in ids : m[i] = i
           /\ mode = "duplicate" => \A i \in ids : m[i] \in fresh
BY DEF Renaming, Modes

(* The row of the file that an id stands for.                                  *)
LEMMA RowOf ==
    ASSUME NEW m, NEW ids, \A i, j \in ids : m[i] = m[j] => i = j, NEW i \in ids
    PROVE  (CHOOSE j \in ids : m[j] = m[i]) = i
OBVIOUS

LEMMA TakenIn == ASSUME NEW mode, NEW ids, NEW f PROVE Taken(mode, ids, f) \subseteq ids
BY DEF Taken

(* Refs of imported rows are refs.                                             *)
LEMMA TakeRefType ==
    ASSUME Typed, writes < MaxWrites, NEW mode, NEW opened,
           NEW id \in ProfileIds \cup ProxyIds, NEW field \in {"pass", "inline"},
           NEW none, NEW ref \in Refs \cup {None, none}
    PROVE  TakeRef(mode, opened, id, field, ref) \in Refs \cup {None, none}
<1>1. <<id, field, writes + 1>> \in Refs
  BY ConnectionsAssumption DEF Typed, ConnectionsTypeOK, Refs
<1> QED  BY <1>1 DEF TakeRef

(* What is imported into the groups.                                           *)
LEMMA GroupsImported ==
    ASSUME ConnInv, Writes, NEW mode \in Modes,
           NEW gm \in Renaming(mode, DOMAIN file.groups, NewGroups),
           NEW gs, gs = [n \in {gm[i] : i \in Taken(mode, DOMAIN file.groups, groups)} |->
               [parent |-> MapId(gm, file.groups[CHOOSE i \in DOMAIN file.groups : gm[i] = n].parent),
                rev |-> NextRevision]]
    PROVE  /\ Rows(Over(gs, groups), GroupIds, Groups) /\ Renewed(groups, Over(gs, groups))
           /\ \A r \in Known(file.groups) : MapId(gm, r) \in Known(Over(gs, groups))
           /\ \A g \in DOMAIN Over(gs, groups) :
                 Over(gs, groups)[g].parent \in Known(Over(gs, groups))
           /\ NoLoops(Over(gs, groups), file.groups)
<1> DEFINE taken == Taken(mode, DOMAIN file.groups, groups)
           gs2 == Over(gs, groups)
<1>1. /\ NextRevision \in 0..MaxWrites /\ writes' = writes + 1 /\ NextRevision = writes + 1
      /\ Rows(groups, GroupIds, Groups) /\ Rows(file.groups, GroupIds, Groups)
      /\ Root \notin GroupIds /\ NoLoops(groups, file.groups)
      /\ \A g \in DOMAIN groups : groups[g].parent \in DOMAIN groups \cup {Root} \cup strays
      /\ \A g \in DOMAIN file.groups :
            file.groups[g].parent \in DOMAIN file.groups \cup {Root} \cup strays
  BY NextRevisionType, ConnectionsAssumption
     DEF ConnInv, Typed, ConnectionsTypeOK, FileTypeOK, TreeInv, Placed, Known
<1>2. /\ DOMAIN gm = DOMAIN file.groups
      /\ \A i, j \in DOMAIN file.groups : gm[i] = gm[j] => i = j
      /\ mode # "duplicate" => \A i \in DOMAIN file.groups : gm[i] = i
      /\ mode = "duplicate" => \A i \in DOMAIN file.groups : gm[i] \in NewGroups
  BY Renamed
<1>3. taken \subseteq DOMAIN file.groups
  BY TakenIn
<1>4. \A h : h \in DOMAIN gs <=> \E i \in taken : gm[i] = h
  OBVIOUS
<1>5. ASSUME NEW i \in taken
      PROVE  gs[gm[i]] = [parent |-> MapId(gm, file.groups[i].parent), rev |-> NextRevision]
  <2>1. (CHOOSE j \in DOMAIN file.groups : gm[j] = gm[i]) = i
    BY <1>2, <1>3, RowOf
  <2> QED  BY <2>1
<1>6. \A i \in DOMAIN file.groups : gm[i] \in GroupIds
  BY <1>1, <1>2 DEF NewGroups, Rows
<1>7. \A i \in DOMAIN file.groups : MapId(gm, file.groups[i].parent) \in GroupIds \cup {Root}
  BY <1>1, <1>2, <1>6 DEF MapId, Rows, Groups
<1>8. Rows(gs, GroupIds, Groups)
  <2>1. \A i \in taken : gm[i] \in GroupIds /\ gs[gm[i]] \in Groups
    BY <1>1, <1>3, <1>5, <1>6, <1>7 DEF Groups
  <2> QED  BY <1>4, <2>1, ZenonT(60) DEF Rows
<1>9. Rows(gs2, GroupIds, Groups)
  BY <1>1, <1>8, RowsOver
<1>10. \A n \in DOMAIN gs : gs[n].rev = writes + 1
  BY <1>1, <1>4, <1>5
<1>11. Renewed(groups, gs2)
  BY <1>1, <1>10 DEF Renewed, Over
<1>12. \A h : h \in DOMAIN gs2 <=>
                h \in DOMAIN groups \/ \E i \in DOMAIN file.groups : gm[i] = h
  <2>1. \A i \in DOMAIN file.groups : i \in taken \/ (gm[i] = i /\ i \in DOMAIN groups)
    BY <1>2 DEF Taken
  <2>2. DOMAIN gs2 = DOMAIN gs \cup DOMAIN groups
    BY DEF Over
  <2> QED  BY <1>3, <1>4, <2>1, <2>2
<1>13. \A r \in Known(file.groups) : MapId(gm, r) \in Known(gs2)
  BY <1>2, <1>12 DEF MapId, Known
<1>14. \A g \in DOMAIN file.groups : (mode = "overwrite" \/ gm[g] \notin DOMAIN groups) =>
           gs2[gm[g]].parent = MapId(gm, file.groups[g].parent)
  <2>1. ASSUME NEW g \in DOMAIN file.groups, mode = "overwrite" \/ gm[g] \notin DOMAIN groups
        PROVE  gs2[gm[g]].parent = MapId(gm, file.groups[g].parent)
    <3>1. g \in taken
      BY <1>2, <2>1 DEF Taken
    <3>2. gs2[gm[g]] = gs[gm[g]]
      BY <1>4, <3>1 DEF Over
    <3>3. gs[gm[g]] = [parent |-> MapId(gm, file.groups[g].parent), rev |-> NextRevision]
      BY <1>5, <3>1
    <3> QED  BY <3>2, <3>3
  <2> QED  BY <2>1
<1>15. \A h \in DOMAIN groups : gs2[h] = groups[h] \/
           (mode = "overwrite" /\ \E g \in DOMAIN file.groups : gm[g] = h)
  <2>1. ASSUME NEW h \in DOMAIN groups, gs2[h] # groups[h]
        PROVE  mode = "overwrite" /\ \E g \in DOMAIN file.groups : gm[g] = h
    <3>1. h \in DOMAIN gs
      BY <2>1 DEF Over
    <3>2. PICK i \in taken : h = gm[i]
      BY <1>4, <3>1
    <3>3. mode # "duplicate"
      BY <1>2, <1>3, <2>1, <3>2 DEF NewGroups
    <3>4. mode # "skip"
      BY <1>2, <1>3, <2>1, <3>2, <3>3 DEF Taken
    <3> QED  BY <1>3, <3>2, <3>3, <3>4 DEF Modes
  <2> QED  BY <2>1
<1>16. ASSUME NEW h \in DOMAIN gs2
       PROVE  \/ h \in DOMAIN groups /\ gs2[h] = groups[h]
              \/ \E i \in DOMAIN file.groups :
                    h = gm[i] /\ gs2[h].parent = MapId(gm, file.groups[i].parent)
  <2>1. CASE h \in DOMAIN groups /\ gs2[h] = groups[h]
    BY <2>1
  <2>2. CASE h \in DOMAIN groups /\ gs2[h] # groups[h]
    BY <1>14, <1>15, <2>2
  <2>3. CASE h \notin DOMAIN groups
    <3>1. PICK i \in DOMAIN file.groups : gm[i] = h
      BY <1>12, <2>3
    <3>2. gs2[gm[i]].parent = MapId(gm, file.groups[i].parent)
      BY <1>14, <2>3, <3>1
    <3> QED  BY <3>1, <3>2
  <2> QED  BY <2>1, <2>2, <2>3
<1>17. ASSUME NEW h \in DOMAIN gs2 PROVE gs2[h].parent \in Known(gs2)
  <2>1. DOMAIN groups \subseteq DOMAIN gs2
    BY <1>12
  <2>2. \A i \in DOMAIN file.groups : file.groups[i].parent \in Known(file.groups)
    BY <1>1 DEF Known
  <2>3. CASE h \in DOMAIN groups /\ gs2[h] = groups[h]
    BY <1>1, <2>1, <2>3 DEF Known
  <2>4. ASSUME NEW i \in DOMAIN file.groups, gs2[h].parent = MapId(gm, file.groups[i].parent)
        PROVE  gs2[h].parent \in Known(gs2)
    BY <1>13, <2>2, <2>4
  <2> QED  BY <1>16, <2>3, <2>4
<1>18. NoLoops(gs2, file.groups)
  <2>1. CASE mode # "duplicate"
    <3>1. \A i \in DOMAIN file.groups : MapId(gm, file.groups[i].parent) = file.groups[i].parent
      BY <1>2, <2>1 DEF MapId
    <3>2. From(gs2, groups, file.groups) /\ From(file.groups, groups, file.groups)
      <4> HIDE DEF gs2
      <4> QED  BY <1>2, <1>16, <2>1, <3>1 DEF From
    <3> HIDE DEF gs2
    <3> QED  BY <1>1, <3>2, SameParents
  <2>2. CASE mode = "duplicate"
    <3>1. \A i \in DOMAIN file.groups :
              /\ gm[i] \notin DOMAIN groups \cup DOMAIN file.groups
              /\ gm[i] \notin strays /\ gm[i] # Root
      BY <1>1, <1>2, <2>2 DEF NewGroups
    <3>2. \A i \in DOMAIN file.groups : /\ \A h \in DOMAIN groups : groups[h].parent # gm[i]
                                        /\ \A h \in DOMAIN file.groups :
                                              file.groups[h].parent # gm[i]
      BY <1>1, <3>1
    <3>3. DOMAIN gs2 = DOMAIN groups \cup {gm[i] : i \in DOMAIN file.groups}
      <4> HIDE DEF gs2
      <4> QED  BY <1>12
    <3>4. \A h \in DOMAIN groups : gs2[h] = groups[h]
      BY <1>15, <2>2
    <3>5. \A i \in DOMAIN file.groups : gs2[gm[i]].parent = MapId(gm, file.groups[i].parent)
      BY <1>14, <3>1
    <3> HIDE DEF gs2
    <3> QED  BY <1>1, <1>2, <3>1, <3>2, <3>3, <3>4, <3>5, GroupsCopied
  <2> QED  BY <2>1, <2>2
<1> QED  BY <1>9, <1>11, <1>13, <1>17, <1>18

(* What is imported into the proxies, before inline ones are split off.        *)
LEMMA ProxiesImported ==
    ASSUME ConnInv, Writes, NEW mode \in Modes, NEW opened \in SUBSET Refs,
           NEW xm \in Renaming(mode, DOMAIN file.proxies, NewProxies),
           NEW xs, xs = [n \in {xm[i] : i \in Taken(mode, DOMAIN file.proxies, proxies)} |->
               [file.proxies[CHOOSE i \in DOMAIN file.proxies : xm[i] = n] EXCEPT
                    !.pass = TakeRef(mode, opened, n, "pass",
                        file.proxies[CHOOSE i \in DOMAIN file.proxies : xm[i] = n].pass)]]
    PROVE  /\ Rows(xs, ProxyIds, Proxies) /\ Rows(Over(xs, proxies), ProxyIds, Proxies)
           /\ \A x \in DOMAIN Over(xs, proxies) :
                 \/ x \in DOMAIN proxies /\ Over(xs, proxies)[x] = proxies[x]
                 \/ x \in DOMAIN file.proxies /\ Over(xs, proxies)[x] = file.proxies[x]
                 \/ x \in NewProxies /\ Over(xs, proxies)[x].rev \in 0..writes
<1> DEFINE taken == Taken(mode, DOMAIN file.proxies, proxies)
           row(i) == [file.proxies[i] EXCEPT
                          !.pass = TakeRef(mode, opened, xm[i], "pass", file.proxies[i].pass)]
<1>1. /\ writes \in Nat /\ writes < MaxWrites
      /\ Rows(proxies, ProxyIds, Proxies) /\ Rows(file.proxies, ProxyIds, Proxies)
      /\ Dated(file.proxies) /\ Typed
  BY NextRevisionType DEF ConnInv, Typed, ConnectionsTypeOK, FileTypeOK, Seen, AllDated
<1>2. /\ \A i, j \in DOMAIN file.proxies : xm[i] = xm[j] => i = j
      /\ mode # "duplicate" => \A i \in DOMAIN file.proxies : xm[i] = i
      /\ mode = "duplicate" => \A i \in DOMAIN file.proxies : xm[i] \in NewProxies
  BY Renamed
<1>3. taken \subseteq DOMAIN file.proxies
  BY TakenIn
<1>4. \A h : h \in DOMAIN xs <=> \E i \in taken : xm[i] = h
  OBVIOUS
<1>5. ASSUME NEW i \in taken PROVE xs[xm[i]] = row(i)
  <2>1. (CHOOSE j \in DOMAIN file.proxies : xm[j] = xm[i]) = i
    BY <1>2, <1>3, RowOf
  <2> QED  BY <2>1
<1>6. \A i \in taken : xm[i] \in ProxyIds /\ file.proxies[i] \in Proxies
  BY <1>1, <1>2, <1>3 DEF NewProxies, Rows
<1>7. ASSUME NEW i \in taken
      PROVE  row(i) \in Proxies /\ row(i).rev = file.proxies[i].rev
  <2>1. file.proxies[i].pass \in Refs \cup {None}
    BY <1>6 DEF Proxies
  <2>2. TakeRef(mode, opened, xm[i], "pass", file.proxies[i].pass) \in Refs \cup {None, None}
    BY <1>1, <1>6, <2>1, TakeRefType
  <2> QED  BY <1>6, <2>2 DEF Proxies
<1>8. Rows(xs, ProxyIds, Proxies)
  <2>1. \A i \in taken : xm[i] \in ProxyIds /\ xs[xm[i]] \in Proxies
    BY <1>5, <1>6, <1>7, ZenonT(60)
  <2> QED  BY <1>4, <2>1 DEF Rows
<1>9. Rows(Over(xs, proxies), ProxyIds, Proxies)
  BY <1>1, <1>8, RowsOver
<1>10. ASSUME NEW i \in taken
       PROVE  \/ xm[i] \in DOMAIN file.proxies /\ xs[xm[i]] = file.proxies[xm[i]]
              \/ xm[i] \in NewProxies /\ xs[xm[i]].rev \in 0..writes
  <2>1. CASE mode = "duplicate"
    <3>1. file.proxies[i].rev \in 0..writes
      BY <1>1, <1>3, <1>6, RevIsNat DEF Dated
    <3> QED  BY <1>2, <1>3, <1>5, <1>7, <2>1, <3>1
  <2>2. CASE mode # "duplicate"
    <3>1. xm[i] = i /\ TakeRef(mode, opened, xm[i], "pass", file.proxies[i].pass)
                           = file.proxies[i].pass
      BY <1>2, <1>3, <2>2 DEF TakeRef
    <3>2. row(i) = file.proxies[i]
      BY <1>6, <3>1 DEF Proxies
    <3>3. i \in DOMAIN file.proxies /\ xs[xm[i]] = file.proxies[i]
      BY <1>3, <1>5, <3>2
    <3> QED  BY ONLY <3>1, <3>3
  <2> QED  BY <2>1, <2>2
<1>11. ASSUME NEW x \in DOMAIN Over(xs, proxies)
       PROVE  \/ x \in DOMAIN proxies /\ Over(xs, proxies)[x] = proxies[x]
              \/ x \in DOMAIN file.proxies /\ Over(xs, proxies)[x] = file.proxies[x]
              \/ x \in NewProxies /\ Over(xs, proxies)[x].rev \in 0..writes
  <2>1. CASE x \in DOMAIN xs
    <3>1. PICK i \in taken : xm[i] = x
      BY <1>4, <2>1
    <3>2. Over(xs, proxies)[x] = xs[x]
      BY <2>1 DEF Over
    <3> QED  BY <1>10, <3>1, <3>2
  <2>2. CASE x \notin DOMAIN xs
    BY <2>2 DEF Over
  <2> QED  BY <2>1, <2>2
<1> QED  BY <1>8, <1>9, <1>11

(* What is imported into the connections, before inline proxies are split off. *)
ImportedProfiles(mode, opened, gm, xm, pm) ==
    LET profileRow(id, r) ==
            [group |-> MapId(gm, r.group), proxy |-> MapId(xm, r.proxy),
             pass |-> TakeRef(mode, opened, id, "pass", r.pass),
             inline |-> TakeRef(mode, opened, id, "inline", r.inline),
             rev |-> NextRevision]
    IN  Imported(mode, file.profiles, profiles, pm, profileRow)

LEMMA ProfilesImported ==
    ASSUME ConnInv, Writes, NEW mode \in Modes, NEW opened \in SUBSET Refs,
           NEW pm \in Renaming(mode, DOMAIN file.profiles, NewProfiles),
           NEW xm \in Renaming(mode, DOMAIN file.proxies, NewProxies), NEW gm,
           \A r \in Known(file.groups) : MapId(gm, r) \in GroupIds \cup {Root},
           NEW ps, ps = ImportedProfiles(mode, opened, gm, xm, pm)
    PROVE  /\ Rows(ps, ProfileIds, Profiles) /\ Rows(Over(ps, profiles), ProfileIds, Profiles)
           /\ \A p \in DOMAIN ps :
                 /\ ps[p].rev = writes + 1
                 /\ \E r \in Known(file.groups) : ps[p].group = MapId(gm, r)
<1> DEFINE taken == Taken(mode, DOMAIN file.profiles, profiles)
           row(i) == [group |-> MapId(gm, file.profiles[i].group),
                      proxy |-> MapId(xm, file.profiles[i].proxy),
                      pass |-> TakeRef(mode, opened, pm[i], "pass", file.profiles[i].pass),
                      inline |-> TakeRef(mode, opened, pm[i], "inline", file.profiles[i].inline),
                      rev |-> NextRevision]
<1>1. /\ NextRevision \in 0..MaxWrites /\ NextRevision = writes + 1 /\ writes < MaxWrites
      /\ Rows(profiles, ProfileIds, Profiles) /\ Rows(file.profiles, ProfileIds, Profiles)
      /\ Rows(file.proxies, ProxyIds, Proxies) /\ Typed
  BY NextRevisionType DEF ConnInv, Typed, ConnectionsTypeOK, FileTypeOK
<1>2. /\ \A i, j \in DOMAIN file.profiles : pm[i] = pm[j] => i = j
      /\ mode # "duplicate" => \A i \in DOMAIN file.profiles : pm[i] = i
      /\ mode = "duplicate" => \A i \in DOMAIN file.profiles : pm[i] \in NewProfiles
  BY Renamed
<1>3. taken \subseteq DOMAIN file.profiles
  BY TakenIn
<1>4. \A h : h \in DOMAIN ps <=> \E i \in taken : pm[i] = h
  BY DEF ImportedProfiles, Imported
<1>5. ASSUME NEW i \in taken PROVE ps[pm[i]] = row(i)
  <2>1. (CHOOSE j \in DOMAIN file.profiles : pm[j] = pm[i]) = i
    BY <1>2, <1>3, RowOf
  <2> QED  BY <2>1 DEF ImportedProfiles, Imported
<1>6. \A i \in taken : pm[i] \in ProfileIds /\ file.profiles[i] \in Profiles
  BY <1>1, <1>2, <1>3 DEF NewProfiles, Rows
<1>7. \A i \in taken : file.profiles[i].group \in Known(file.groups)
  BY <1>3 DEF ConnInv, TreeInv, Placed
<1>8. \A r \in ProxyIds \cup {None} : MapId(xm, r) \in ProxyIds \cup {None}
  <2>1. /\ DOMAIN xm = DOMAIN file.proxies
        /\ mode # "duplicate" => \A i \in DOMAIN file.proxies : xm[i] = i
        /\ mode = "duplicate" => \A i \in DOMAIN file.proxies : xm[i] \in NewProxies
    BY Renamed
  <2>2. \A i \in DOMAIN file.proxies : xm[i] \in ProxyIds
    BY <1>1, <2>1 DEF NewProxies, Rows
  <2> QED  BY <2>1, <2>2 DEF MapId
<1>9. ASSUME NEW i \in taken
      PROVE  row(i) \in Profiles /\ row(i).rev = writes + 1
             /\ row(i).group = MapId(gm, file.profiles[i].group)
  <2>1. /\ file.profiles[i].pass \in Refs \cup {None, None}
        /\ file.profiles[i].inline \in Refs \cup {None, NoInline}
        /\ file.profiles[i].proxy \in ProxyIds \cup {None}
    BY <1>6 DEF Profiles
  <2>2. TakeRef(mode, opened, pm[i], "pass", file.profiles[i].pass) \in Refs \cup {None, None}
    BY <1>1, <1>6, <2>1, TakeRefType
  <2>3. TakeRef(mode, opened, pm[i], "inline", file.profiles[i].inline)
            \in Refs \cup {None, NoInline}
    BY <1>1, <1>6, <2>1, TakeRefType
  <2>4. /\ MapId(gm, file.profiles[i].group) \in GroupIds \cup {Root}
        /\ MapId(xm, file.profiles[i].proxy) \in ProxyIds \cup {None}
    BY <1>7, <1>8, <2>1
  <2> QED  BY <1>1, <2>2, <2>3, <2>4 DEF Profiles
<1>10. ASSUME NEW p \in DOMAIN ps
       PROVE  /\ p \in ProfileIds /\ ps[p] \in Profiles /\ ps[p].rev = writes + 1
              /\ \E r \in Known(file.groups) : ps[p].group = MapId(gm, r)
  <2>1. PICK i \in taken : pm[i] = p
    BY <1>4
  <2>2. p \in ProfileIds /\ ps[p] = row(i)
    BY <1>5, <1>6, <2>1
  <2>3. row(i) \in Profiles /\ row(i).rev = writes + 1
        /\ row(i).group = MapId(gm, file.profiles[i].group)
    BY <1>9
  <2>4. file.profiles[i].group \in Known(file.groups)
    BY <1>7
  <2> HIDE DEF row, taken
  <2> QED  BY <2>2, <2>3, <2>4
<1>11. Rows(ps, ProfileIds, Profiles)
  BY <1>10 DEF Rows
<1>12. Rows(Over(ps, profiles), ProfileIds, Profiles)
  BY <1>1, <1>11, RowsOver
<1> QED  BY <1>10, <1>11, <1>12

(* The whole import.                                                           *)
LEMMA ImportKeeps ==
    ASSUME ConnInv, split, NEW mode \in Modes, NEW withPassphrase \in BOOLEAN,
           ApplyImport(mode, withPassphrase)
    PROVE  ConnInv'
<1> DEFINE opened == IF withPassphrase THEN file.secrets ELSE {}
           gm == OneOf(Renaming(mode, DOMAIN file.groups, NewGroups))
           xm == OneOf(Renaming(mode, DOMAIN file.proxies, NewProxies))
           pm == OneOf(Renaming(mode, DOMAIN file.profiles, NewProfiles))
           groupRow(id, r) == [parent |-> MapId(gm, r.parent), rev |-> NextRevision]
           proxyRow(id, r) == [r EXCEPT !.pass = TakeRef(mode, opened, id, "pass", r.pass)]
           profileRow(id, r) ==
               [group |-> MapId(gm, r.group), proxy |-> MapId(xm, r.proxy),
                pass |-> TakeRef(mode, opened, id, "pass", r.pass),
                inline |-> TakeRef(mode, opened, id, "inline", r.inline),
                rev |-> NextRevision]
           gs == Imported(mode, file.groups, groups, gm, groupRow)
           xs == Imported(mode, file.proxies, proxies, xm, proxyRow)
           ps == Imported(mode, file.profiles, profiles, pm, profileRow)
<1>1. /\ gm \in Renaming(mode, DOMAIN file.groups, NewGroups)
      /\ xm \in Renaming(mode, DOMAIN file.proxies, NewProxies)
      /\ pm \in Renaming(mode, DOMAIN file.profiles, NewProfiles)
  BY OneOfIn DEF ApplyImport
<1>2. /\ Writes /\ groups' = Over(gs, groups)
      /\ vault' = (vault \cup Put(mode, opened, Referenced(ps, xs))) \ Outdated(ps)
      /\ UNCHANGED <<available, drafts, file, split, strays>>
      /\ \E e \in Extractions(Over(ps, profiles), Over(xs, proxies), DOMAIN ps, NextRevision) :
             profiles' = e.profiles /\ proxies' = e.proxies
  BY DEF ApplyImport
<1>3. opened \in SUBSET Refs
  BY DEF ConnInv, Typed, FileTypeOK
<1>4. /\ gs = [n \in {gm[i] : i \in Taken(mode, DOMAIN file.groups, groups)} |->
                  groupRow(n, file.groups[CHOOSE i \in DOMAIN file.groups : gm[i] = n])]
      /\ xs = [n \in {xm[i] : i \in Taken(mode, DOMAIN file.proxies, proxies)} |->
                  proxyRow(n, file.proxies[CHOOSE i \in DOMAIN file.proxies : xm[i] = n])]
      /\ ps = ImportedProfiles(mode, opened, gm, xm, pm)
  BY DEF Imported, ImportedProfiles
<1> HIDE DEF gs, xs, ps, gm, xm, pm, opened
<1>5. /\ Rows(groups', GroupIds, Groups) /\ Renewed(groups, groups')
      /\ \A r \in Known(file.groups) : MapId(gm, r) \in Known(groups)'
      /\ \A g \in DOMAIN groups' : groups'[g].parent \in Known(groups)'
      /\ NoLoops(groups', file.groups) /\ DOMAIN groups \subseteq DOMAIN groups'
  <2>1. Known(groups)' = Known(Over(gs, groups)) /\ DOMAIN groups \subseteq DOMAIN groups'
    BY <1>2 DEF Known, Over
  <2> QED  BY <1>1, <1>2, <1>4, <2>1, GroupsImported
<1>6. /\ Rows(xs, ProxyIds, Proxies) /\ Rows(Over(xs, proxies), ProxyIds, Proxies)
      /\ \A x \in DOMAIN Over(xs, proxies) :
            \/ x \in DOMAIN proxies /\ Over(xs, proxies)[x] = proxies[x]
            \/ x \in DOMAIN file.proxies /\ Over(xs, proxies)[x] = file.proxies[x]
            \/ x \in NewProxies /\ Over(xs, proxies)[x].rev \in 0..writes
  BY <1>1, <1>2, <1>3, <1>4, ProxiesImported
<1>7. \A r \in Known(file.groups) : MapId(gm, r) \in GroupIds \cup {Root}
  BY <1>2, <1>5 DEF Rows, Known, ConnInv, Typed, ConnectionsTypeOK
<1>8. /\ Rows(ps, ProfileIds, Profiles) /\ Rows(Over(ps, profiles), ProfileIds, Profiles)
      /\ \A p \in DOMAIN ps :
            /\ ps[p].rev = writes + 1
            /\ \E r \in Known(file.groups) : ps[p].group = MapId(gm, r)
  BY <1>1, <1>2, <1>3, <1>4, <1>7, ProfilesImported
<1>9. PICK e \in Extractions(Over(ps, profiles), Over(xs, proxies), DOMAIN ps, NextRevision) :
          profiles' = e.profiles /\ proxies' = e.proxies
  BY <1>2
<1>10. /\ NextRevision \in 0..MaxWrites /\ writes' \in 0..MaxWrites
       /\ NextRevision = writes + 1 /\ writes' = writes + 1
  BY <1>2, NextRevisionType DEF ConnInv
<1>11. DOMAIN ps \in SUBSET DOMAIN Over(ps, profiles)
  BY DEF Over
<1>12. /\ Rows(e.profiles, ProfileIds, Profiles) /\ Rows(e.proxies, ProxyIds, Proxies)
       /\ DOMAIN e.profiles = DOMAIN Over(ps, profiles)
       /\ \A p \in DOMAIN Over(ps, profiles) :
             /\ e.profiles[p].group = Over(ps, profiles)[p].group
             /\ e.profiles[p].rev = Over(ps, profiles)[p].rev
             /\ p \notin DOMAIN ps => e.profiles[p] = Over(ps, profiles)[p]
       /\ \A x \in DOMAIN e.proxies :
             \/ x \in DOMAIN Over(xs, proxies) /\ e.proxies[x] = Over(xs, proxies)[x]
             \/ x \in NewProxies \ DOMAIN Over(xs, proxies) /\ e.proxies[x].rev = NextRevision
  <2> DEFINE ps2 == Over(ps, profiles)
             xs2 == Over(xs, proxies)
             who == DOMAIN ps
             rev == NextRevision
  <2>1. /\ Rows(ps2, ProfileIds, Profiles) /\ Rows(xs2, ProxyIds, Proxies)
        /\ rev \in 0..MaxWrites /\ who \in SUBSET DOMAIN ps2
        /\ e \in Extractions(ps2, xs2, who, rev)
    BY <1>6, <1>8, <1>9, <1>10, <1>11
  <2> HIDE DEF ps2, xs2, who, rev
  <2>2. /\ Rows(e.profiles, ProfileIds, Profiles) /\ Rows(e.proxies, ProxyIds, Proxies)
        /\ DOMAIN e.profiles = DOMAIN ps2
        /\ \A p \in DOMAIN ps2 : /\ e.profiles[p].group = ps2[p].group
                                 /\ e.profiles[p].rev = ps2[p].rev
                                 /\ p \notin who => e.profiles[p] = ps2[p]
        /\ \A x \in DOMAIN e.proxies :
              \/ x \in DOMAIN xs2 /\ e.proxies[x] = xs2[x]
              \/ x \in NewProxies \ DOMAIN xs2 /\ e.proxies[x].rev = rev
    BY ONLY <2>1, Extracted
  <2> QED  BY ONLY <2>2 DEF ps2, xs2, who, rev
<1>13. ASSUME NEW p \in DOMAIN profiles'
       PROVE  /\ \/ p \in DOMAIN profiles /\ profiles'[p] = profiles[p]
                 \/ profiles'[p].rev = writes + 1
              /\ profiles'[p].group \in Known(groups)'
  <2>1. CASE p \in DOMAIN ps
    <3>1. Over(ps, profiles)[p] = ps[p] /\ p \in DOMAIN Over(ps, profiles)
      BY <2>1 DEF Over
    <3> QED  BY <1>5, <1>8, <1>9, <1>12, <2>1, <3>1
  <2>2. CASE p \notin DOMAIN ps
    <3>1. p \in DOMAIN Over(ps, profiles)
      BY <1>9, <1>12
    <3>2. p \in DOMAIN profiles /\ Over(ps, profiles)[p] = profiles[p]
      BY <2>2, <3>1 DEF Over
    <3>3. profiles'[p] = profiles[p]
      BY <1>9, <1>12, <2>2, <3>1, <3>2
    <3>4. profiles[p].group \in Known(groups)'
      BY <1>2, <1>5, <3>2, PlacesOfProfiles DEF Known
    <3> QED  BY <3>2, <3>3, <3>4
  <2> QED  BY <2>1, <2>2
<1>14. Renewed(profiles, profiles')
  BY <1>10, <1>13 DEF Renewed
<1>15. RenewedOrKnown
  <2>1. ASSUME NEW x \in DOMAIN proxies'
        PROVE  \/ x \in DOMAIN proxies /\ proxies'[x] = proxies[x]
               \/ proxies'[x].rev = writes + 1 /\ writes' = writes + 1
               \/ x \in DOMAIN file.proxies /\ proxies'[x] = file.proxies[x]
               \/ x \in NewProxies /\ proxies'[x].rev \in 0..writes
    BY <1>6, <1>9, <1>10, <1>12
  <2> QED  BY <2>1 DEF RenewedOrKnown
<1>16. vault' \subseteq Refs
  <2>1. Put(mode, opened, Referenced(ps, xs)) \subseteq Refs
    <3>1. Referenced(ps, xs) \subseteq Refs \cup {None, NoInline}
      <4>1. \A p \in DOMAIN ps : /\ ps[p].pass \in Refs \cup {None}
                                 /\ ps[p].inline \in Refs \cup {None, NoInline}
        BY <1>8 DEF Rows, Profiles
      <4>2. \A x \in DOMAIN xs : xs[x].pass \in Refs \cup {None}
        BY <1>6 DEF Rows, Proxies
      <4> QED  BY <4>1, <4>2 DEF Referenced
    <3> QED  BY <1>3, <3>1 DEF Put
  <2> QED  BY <1>2, <2>1 DEF ConnInv, Typed, ConnectionsTypeOK
<1>17. Typed'
  BY <1>2, <1>5, <1>9, <1>10, <1>12, <1>16 DEF ConnInv, Typed, ConnectionsTypeOK, FileTypeOK,
                                               FormsTyped
<1>18. Seen' /\ MigratesAlone'
  <2>1. OnlyClosed
    BY <1>2 DEF OnlyClosed
  <2> QED  BY <1>2, <1>5, <1>10, <1>14, <1>15, <2>1, RenewedIsSeen
<1>19. TreeInv'
  <2>1. Placed(profiles, groups)'
    BY <1>5, <1>13 DEF Placed
  <2>2. Placed(file.profiles, file.groups)'
    BY <1>2 DEF ConnInv, TreeInv, Placed, Known
  <2> QED  BY <1>2, <1>5, <2>1, <2>2 DEF TreeInv
<1> QED  BY <1>17, <1>18, <1>19 DEF ConnInv

(* The key store comes or goes.                                                *)
LEMMA AvailabilityKeeps ==
    ASSUME ConnInv, split, AvailabilityChanges
    PROVE  ConnInv'
<1>1. /\ Rows(profiles, ProfileIds, Profiles) /\ vault \subseteq Refs
      /\ UNCHANGED <<profiles, groups, proxies, vault, drafts, file, split, strays>>
      /\ Edits /\ available' \in BOOLEAN /\ strays \subseteq GroupIds
  BY DEF AvailabilityChanges, ConnInv, Typed, ConnectionsTypeOK
<1>2. \A p \in DOMAIN profiles' : profiles'[p].group \in Known(groups)'
  BY <1>1, PlacesOfProfiles DEF Known
<1> QED  BY <1>1, <1>2, SameIsRenewed, ProfilesEdited

LEMMA ConnStep == ConnInv /\ [ConnectionsNext]_connectionVars => ConnInv'
<1> SUFFICES ASSUME ConnInv, [ConnectionsNext]_connectionVars PROVE ConnInv'
  OBVIOUS
<1>1. CASE MigrateInlineRefsOnce
  BY <1>1, MigrateKeeps
<1>2. CASE split /\ EditConnections
  BY <1>2, DraftsKeep, ProfilesKeep, GroupsKeep, ProxiesKeep DEF EditConnections
<1>3. CASE split /\ MoveConnections
  BY <1>3, FilesKeep, ImportKeeps DEF MoveConnections
<1>4. CASE split /\ AvailabilityChanges
  BY <1>4, AvailabilityKeeps
<1>5. CASE UNCHANGED connectionVars
  BY <1>5 DEF connectionVars, ConnInv, Typed, ConnectionsTypeOK, FileTypeOK, Seen,
              ProfileDrafts, GroupDrafts, ProxyDrafts, AllDated, Dated, SameRows, Matches,
              Editors, MigratesAlone, FormsTyped, TreeInv, Placed, Known
<1> QED  BY <1>1, <1>2, <1>3, <1>4, <1>5 DEF ConnectionsNext

(* The strengthened invariant: besides the tables, the revisions that windows  *)
(* and the file remember, where everything hangs in the table and in the file, *)
(* and that the parents of both together lead nowhere back.                    *)
THEOREM ConnectionsInvariance == ConnectionsSpec => []ConnInv
BY ConnInit, ConnStep, PTL DEF ConnectionsSpec

(* Rows of the connections, groups and proxies, and the refs of the vault, are *)
(* well typed.                                                                 *)
THEOREM ConnectionsTypeCorrect == ConnectionsSpec => []ConnectionsTypeOK
<1>1. ConnInv => ConnectionsTypeOK  BY DEF ConnInv, Typed
<1> QED  BY <1>1, ConnectionsInvariance, PTL

(* Whatever windows, deletions and imports do to groups, each group and each   *)
(* connection has a place in the panel: deleteGroup() moves what a group holds *)
(* up to its parent, and an import brings a whole tree.  Only what a form was  *)
(* saved into that named a group which was gone, and what hangs below it, is   *)
(* not shown (saveProfile() and saveGroup() do not look).                      *)
THEOREM TreeCompleteHolds == ConnectionsSpec => []TreeComplete
<1>1. ConnInv => TreeComplete
  BY WholeTree DEF ConnInv, TreeInv, TreeComplete
<1> QED  BY <1>1, ConnectionsInvariance, PTL

(* Closing a draft with a write is a save, and its row was the one in the table.*)
LEMMA SavesWhatWasSeen ==
    ASSUME ConnInv, [ConnectionsNext]_connectionVars, NEW w \in Windows,
           drafts[w] # NoDraft, drafts'[w] = NoDraft, writes' # writes
    PROVE  CASE drafts[w].kind = "profile" -> profiles[drafts[w].id] = drafts[w].row
             [] drafts[w].kind = "group" -> groups[drafts[w].id] = drafts[w].row
             [] drafts[w].kind = "proxy" -> proxies[drafts[w].id] = drafts[w].row
             [] OTHER -> TRUE
<1> DEFINE ClosedAs(v, kind) == Editing(v, kind) /\ drafts' = [drafts EXCEPT ![v] = NoDraft]
           Saved(v, kind, f) == ClosedAs(v, kind) /\ Agrees(v, f)
<1>1. \E v \in Windows : \/ Saved(v, "profile", profiles)
                         \/ Saved(v, "group", groups)
                         \/ Saved(v, "proxy", proxies)
                         \/ ClosedAs(v, "newProfile") \/ ClosedAs(v, "newGroup")
  <2>1. ConnectionsNext
    BY DEF connectionVars
  <2>2. ~UNCHANGED drafts /\ ~UNCHANGED writes
    OBVIOUS
  <2>3. EditConnections
    BY <2>1, <2>2 DEF ConnectionsNext, MigrateInlineRefsOnce, MoveConnections, ExportData,
                      SavedElsewhere, ApplyImport, AvailabilityChanges
  <2> QED  BY <2>2, <2>3 DEF EditConnections, OpenDraft, Open, Choose, DiscardDraft, SaveGroup,
              SaveProfile, CreateProfile, DeleteProfile, DuplicateProfile,
              RememberPassword, CreateGroup, DeleteGroup, SaveProxy, CreateProxy,
              DeleteProxy
<1>2. PICK v \in Windows : \/ Saved(v, "profile", profiles)
                           \/ Saved(v, "group", groups)
                           \/ Saved(v, "proxy", proxies)
                           \/ ClosedAs(v, "newProfile") \/ ClosedAs(v, "newGroup")
  BY <1>1
<1>3. v = w
  BY <1>2 DEF ConnInv, Typed
<1>4. CASE Saved(w, "profile", profiles)
  <2>1. profiles[drafts[w].id] = drafts[w].row /\ drafts[w].kind = "profile"
    BY <1>4 DEF Editing, Agrees, ConnInv, Seen, ProfileDrafts, Editors, Matches
  <2> QED  BY <2>1
<1>5. CASE Saved(w, "group", groups)
  <2>1. groups[drafts[w].id] = drafts[w].row /\ drafts[w].kind = "group"
    BY <1>5 DEF Editing, Agrees, ConnInv, Seen, GroupDrafts, Editors, Matches
  <2> QED  BY <2>1
<1>6. CASE Saved(w, "proxy", proxies)
  <2>1. proxies[drafts[w].id] = drafts[w].row /\ drafts[w].kind = "proxy"
    BY <1>6 DEF Editing, Agrees, ConnInv, Seen, ProxyDrafts, Editors, Matches
  <2> QED  BY <2>1
<1>7. CASE ClosedAs(w, "newProfile") \/ ClosedAs(w, "newGroup")
  <2>1. drafts[w].kind \in {"newProfile", "newGroup"}
    BY <1>7 DEF Editing
  <2> QED  BY <2>1
<1> QED  BY <1>2, <1>3, <1>4, <1>5, <1>6, <1>7

(* What assertRevision() is for: a window that saves replaces the row its user *)
(* has seen.  The revisions suffice although an import gives proxies back with *)
(* the revision they had when they were exported.                              *)
THEOREM NoBlindOverwriteHolds == ConnectionsSpec => NoBlindOverwrite
<1>1. ConnInv /\ [ConnectionsNext]_connectionVars =>
        [\A w \in Windows :
           drafts[w] # NoDraft /\ drafts'[w] = NoDraft /\ writes' # writes =>
             CASE drafts[w].kind = "profile" -> profiles[drafts[w].id] = drafts[w].row
               [] drafts[w].kind = "group" -> groups[drafts[w].id] = drafts[w].row
               [] drafts[w].kind = "proxy" -> proxies[drafts[w].id] = drafts[w].row
               [] OTHER -> TRUE
        ]_connectionVars
  BY SavesWhatWasSeen
<1> QED  BY <1>1, ConnectionsInvariance, PTL DEF ConnectionsSpec, NoBlindOverwrite

-------------------------------------------------------------------------------
(* Whose password is whose, in the tables and in the file.                     *)
Secrets == OwnSecrets(profiles, proxies) /\ OwnSecrets(file.profiles, file.proxies)

LEMMA SecretsInit == ConnectionsInit => Secrets
<1> SUFFICES ASSUME ConnectionsInit PROVE Secrets
  OBVIOUS
<1>1. OwnSecrets(EmptyFile.profiles, EmptyFile.proxies)
  BY DEF OwnSecrets, EmptyFile
<1> QED  BY <1>1, ConnectionsAssumption DEF ConnectionsInit, Secrets

(* A row that is written with its own password, or that goes.                  *)
LEMMA OwnWritten ==
    ASSUME NEW ps, NEW xs, OwnSecrets(ps, xs), NEW i, NEW row
    PROVE  /\ OwnProfile(i, row) => OwnSecrets(Written(ps, i, row), xs)
           /\ OwnProxy(i, row) => OwnSecrets(ps, Written(xs, i, row))
           /\ OwnSecrets(Deleted(ps, i), xs) /\ OwnSecrets(ps, Deleted(xs, i))
BY DEF OwnSecrets, Written, Deleted

(* Changing a password gives the row the one it had or a new one of its own.   *)
LEMMA OwnPass ==
    ASSUME NEW id, NEW pass, NEW change \in Changes
    PROVE  /\ PassRef(id)[1] = id /\ PassRef(id)[2] = "pass"
           /\ PassAfter(pass, change, PassRef(id)) \in {pass, PassRef(id), None}
BY DEF PassRef, PassAfter, Changes

LEMMA SecretsOfProfiles ==
    ASSUME ConnInv, Secrets,
           \/ \E w \in Windows, change \in Changes :
                 SaveProfile(w, change) \/ CreateProfile(w, change)
           \/ \E p \in DOMAIN profiles :
                 DeleteProfile(p) \/ DuplicateProfile(p) \/ RememberPassword(p)
    PROVE  Secrets'
<1>1. \A p \in DOMAIN profiles : profiles[p] \in Profiles /\ OwnProfile(p, profiles[p])
  BY DEF ConnInv, Typed, ConnectionsTypeOK, Rows, Secrets, OwnSecrets
<1>2. ASSUME NEW id, NEW old, NEW group, NEW proxy, NEW change \in Changes,
             StoreProfile(id, old, group, proxy, change), UNCHANGED <<proxies, file>>,
             old # None => old[1] = id /\ old[2] = "pass"
      PROVE  Secrets'
  <2> DEFINE row == [group |-> group, proxy |-> proxy,
                     pass |-> PassAfter(old, change, PassRef(id)),
                     inline |-> NoInline, rev |-> NextRevision]
  <2>1. profiles' = Written(profiles, id, row)
    BY <1>2 DEF StoreProfile
  <2>2. OwnProfile(id, row)
    BY <1>2, OwnPass DEF OwnProfile
  <2> HIDE DEF row
  <2> QED  BY <1>2, <2>1, <2>2, OwnWritten DEF Secrets
<1>3. ASSUME NEW w \in Windows, NEW change \in Changes, SaveProfile(w, change)
      PROVE  Secrets'
  <2>1. drafts[w].id \in DOMAIN profiles
    BY <1>3 DEF SaveProfile, Agrees
  <2> QED  BY <1>1, <1>2, <1>3, <2>1 DEF SaveProfile, OwnProfile
<1>4. ASSUME NEW w \in Windows, NEW change \in Changes, CreateProfile(w, change)
      PROVE  Secrets'
  BY <1>2, <1>4 DEF CreateProfile
<1>5. ASSUME NEW p \in DOMAIN profiles, DeleteProfile(p) PROVE Secrets'
  BY <1>5, OwnWritten DEF DeleteProfile, Secrets
<1>6. ASSUME NEW p \in DOMAIN profiles, DuplicateProfile(p) PROVE Secrets'
  <2> DEFINE copy == OneOf(NewProfiles)
             pass == IF available /\ profiles[p].pass \in vault THEN PassRef(copy) ELSE None
             row == [profiles[p] EXCEPT !.pass = pass, !.rev = NextRevision]
  <2>1. profiles' = Written(profiles, copy, row) /\ UNCHANGED <<proxies, file>>
    BY <1>6 DEF DuplicateProfile
  <2>2. row.pass = pass /\ row.inline = profiles[p].inline
    BY <1>1 DEF Profiles
  <2>3. OwnProfile(copy, row)
    BY <1>1, <2>2 DEF OwnProfile, PassRef
  <2> HIDE DEF row, copy
  <2> QED  BY <2>1, <2>3, OwnWritten DEF Secrets
<1>7. ASSUME NEW p \in DOMAIN profiles, RememberPassword(p) PROVE Secrets'
  <2> DEFINE pass == PassAfter(profiles[p].pass, "set", PassRef(p))
             row == [profiles[p] EXCEPT !.pass = pass, !.rev = NextRevision]
  <2>1. /\ profiles' = [profiles EXCEPT ![p].pass = pass, ![p].rev = NextRevision]
        /\ UNCHANGED <<proxies, file>>
    BY <1>7 DEF RememberPassword
  <2>2. /\ DOMAIN profiles' = DOMAIN profiles
        /\ \A q \in DOMAIN profiles : profiles'[q] = IF q = p THEN row ELSE profiles[q]
    BY <2>1
  <2>3. row.pass = pass /\ row.inline = profiles[p].inline
    BY <1>1 DEF Profiles
  <2>4. pass \in {profiles[p].pass, PassRef(p), None}
    BY OwnPass DEF Changes
  <2>5. OwnProfile(p, row)
    BY <1>1, <2>3, <2>4, OwnPass DEF OwnProfile, Changes
  <2> HIDE DEF row
  <2> QED  BY <1>1, <2>1, <2>2, <2>5 DEF Secrets, OwnSecrets
<1> QED  BY <1>3, <1>4, <1>5, <1>6, <1>7

LEMMA SecretsOfGroups ==
    ASSUME ConnInv, Secrets, NEW g \in DOMAIN groups, DeleteGroup(g)
    PROVE  Secrets'
<1> DEFINE moved(p) == [profiles[p] EXCEPT !.group = groups[g].parent, !.rev = NextRevision]
<1>1. /\ profiles' = [p \in DOMAIN profiles |-> IF profiles[p].group # g THEN profiles[p]
                                                ELSE moved(p)]
      /\ UNCHANGED <<proxies, file>>
  BY DEF DeleteGroup
<1>2. \A p \in DOMAIN profiles : profiles[p] \in Profiles /\ OwnProfile(p, profiles[p])
  BY DEF ConnInv, Typed, ConnectionsTypeOK, Rows, Secrets, OwnSecrets
<1>3. \A p \in DOMAIN profiles :
          moved(p).pass = profiles[p].pass /\ moved(p).inline = profiles[p].inline
  BY <1>2 DEF Profiles
<1>4. \A p \in DOMAIN profiles : OwnProfile(p, moved(p))
  BY <1>2, <1>3 DEF OwnProfile
<1> HIDE DEF moved
<1> QED  BY <1>1, <1>2, <1>4 DEF Secrets, OwnSecrets

LEMMA SecretsOfProxies ==
    ASSUME ConnInv, Secrets,
           \/ \E atOldAddress \in BOOLEAN, change \in Changes :
                 \/ \E w \in Windows : SaveProxy(w, atOldAddress, change)
                 \/ CreateProxy(atOldAddress, change)
           \/ \E x \in DOMAIN proxies : DeleteProxy(x)
    PROVE  Secrets'
<1>1. \A x \in DOMAIN proxies : OwnProxy(x, proxies[x])
  BY DEF Secrets, OwnSecrets
<1>2. ASSUME NEW id, NEW old, NEW atOldAddress, NEW change \in Changes,
             StoreProxy(id, old, atOldAddress, change), UNCHANGED <<profiles, file>>,
             old # None => old[1] = id \/ old[2] = "inline"
      PROVE  Secrets'
  <2> DEFINE row == [pass |-> PassAfter(old, change, PassRef(id)),
                     old |-> atOldAddress, rev |-> NextRevision]
  <2>1. proxies' = Written(proxies, id, row)
    BY <1>2 DEF StoreProxy
  <2>2. OwnProxy(id, row)
    BY <1>2, OwnPass DEF OwnProxy
  <2> HIDE DEF row
  <2> QED  BY <1>2, <2>1, <2>2, OwnWritten DEF Secrets
<1>3. ASSUME NEW atOldAddress, NEW change \in Changes, NEW w \in Windows,
             SaveProxy(w, atOldAddress, change)
      PROVE  Secrets'
  <2>1. drafts[w].id \in DOMAIN proxies
    BY <1>3 DEF SaveProxy, Agrees
  <2> QED  BY <1>1, <1>2, <1>3, <2>1 DEF SaveProxy, OwnProxy
<1>4. ASSUME NEW atOldAddress, NEW change \in Changes, CreateProxy(atOldAddress, change)
      PROVE  Secrets'
  BY <1>2, <1>4 DEF CreateProxy
<1>5. ASSUME NEW x \in DOMAIN proxies, DeleteProxy(x) PROVE Secrets'
  BY <1>5, OwnWritten DEF DeleteProxy, Secrets
<1> QED  BY <1>3, <1>4, <1>5

(* A proxy that is split off has the password that came with the connection.   *)
LEMMA ExtractedOwn ==
    ASSUME NEW ps, Rows(ps, ProfileIds, Profiles), NEW xs, OwnSecrets(ps, xs),
           NEW who \in SUBSET DOMAIN ps, NEW rev, NEW e \in Extractions(ps, xs, who, rev)
    PROVE  /\ OwnSecrets(e.profiles, e.proxies)
           /\ DOMAIN e.profiles = DOMAIN ps
           /\ \A p \in DOMAIN ps : e.profiles[p].pass = ps[p].pass
<1> DEFINE bare == {p \in who : ps[p].inline # NoInline /\ ps[p].proxy = None}
           known == {x \in DOMAIN xs : xs[x].old}
           linked(x) == [p \in DOMAIN ps |->
                             IF p \in bare THEN [ps[p] EXCEPT !.proxy = x] ELSE ps[p]]
           fresh == NewProxies \ DOMAIN xs
           made == OneOf(fresh)
           row(p) == [pass |-> ps[p].inline, old |-> TRUE, rev |-> rev]
<1>1. ASSUME NEW x
      PROVE  /\ OwnSecrets(linked(x), xs) /\ DOMAIN linked(x) = DOMAIN ps
             /\ \A p \in DOMAIN ps : linked(x)[p].pass = ps[p].pass
  <2>1. \A p \in DOMAIN ps : /\ [ps[p] EXCEPT !.proxy = x].pass = ps[p].pass
                             /\ [ps[p] EXCEPT !.proxy = x].inline = ps[p].inline
    BY DEF Rows, Profiles
  <2>2. \A p \in DOMAIN ps : linked(x)[p].pass = ps[p].pass
                             /\ linked(x)[p].inline = ps[p].inline
    BY <2>1
  <2> HIDE DEF bare
  <2> QED  BY <2>2 DEF OwnSecrets, OwnProfile
<1>2. CASE bare = {}
  <2>1. e = [profiles |-> ps, proxies |-> xs]
    BY <1>2 DEF Extractions
  <2> QED  BY <2>1
<1>3. CASE bare # {} /\ known # {}
  <2>1. PICK x \in known : e = [profiles |-> linked(x), proxies |-> xs]
    BY <1>3 DEF Extractions
  <2>2. e.profiles = linked(x) /\ e.proxies = xs
    BY <2>1
  <2> HIDE DEF linked, known
  <2> QED  BY <1>1, <2>2
<1>4. CASE bare # {} /\ known = {}
  <2>1. \E p \in bare : e = [profiles |-> linked(made), proxies |-> Written(xs, made, row(p))]
    BY <1>4 DEF Extractions
  <2>2. PICK p \in bare : e = [profiles |-> linked(made),
                               proxies |-> Written(xs, made, row(p))]
    BY <2>1
  <2>3. e.profiles = linked(made) /\ e.proxies = Written(xs, made, row(p))
    BY <2>2
  <2>4. OwnProxy(made, row(p))
    BY DEF OwnSecrets, OwnProfile, OwnProxy
  <2> HIDE DEF linked, made, row
  <2> QED  BY <1>1, <2>3, <2>4, OwnWritten
<1> QED  BY <1>2, <1>3, <1>4

(* A ref that an import takes is the one of the row or made for its copy.      *)
LEMMA OwnTaken ==
    ASSUME NEW mode, NEW opened, NEW id, NEW field, NEW ref
    PROVE  \/ TakeRef(mode, opened, id, field, ref) = ref
              /\ (mode # "duplicate" \/ ref \in {None, NoInline})
           \/ TakeRef(mode, opened, id, field, ref) = None
           \/ /\ TakeRef(mode, opened, id, field, ref)[1] = id
              /\ TakeRef(mode, opened, id, field, ref)[2] = field
BY DEF TakeRef

ImportedProxies(mode, opened, xm) ==
    LET proxyRow(id, r) == [r EXCEPT !.pass = TakeRef(mode, opened, id, "pass", r.pass)]
    IN  Imported(mode, file.proxies, proxies, xm, proxyRow)

LEMMA OwnImported ==
    ASSUME ConnInv, Secrets, NEW mode \in Modes, NEW opened,
           NEW pm \in Renaming(mode, DOMAIN file.profiles, NewProfiles),
           NEW xm \in Renaming(mode, DOMAIN file.proxies, NewProxies), NEW gm,
           NEW ps, ps = ImportedProfiles(mode, opened, gm, xm, pm),
           NEW xs, xs = ImportedProxies(mode, opened, xm)
    PROVE  OwnSecrets(Over(ps, profiles), Over(xs, proxies))
<1> DEFINE takenP == Taken(mode, DOMAIN file.profiles, profiles)
           takenX == Taken(mode, DOMAIN file.proxies, proxies)
<1>1. /\ \A i, j \in DOMAIN file.profiles : pm[i] = pm[j] => i = j
      /\ \A i, j \in DOMAIN file.proxies : xm[i] = xm[j] => i = j
      /\ mode # "duplicate" => \A i \in DOMAIN file.profiles : pm[i] = i
      /\ mode # "duplicate" => \A i \in DOMAIN file.proxies : xm[i] = i
      /\ takenP \subseteq DOMAIN file.profiles /\ takenX \subseteq DOMAIN file.proxies
  BY Renamed, TakenIn
<1>2. /\ \A i \in DOMAIN file.profiles : OwnProfile(i, file.profiles[i])
                                         /\ file.profiles[i] \in Profiles
      /\ \A i \in DOMAIN file.proxies : OwnProxy(i, file.proxies[i])
                                        /\ file.proxies[i] \in Proxies
  BY DEF Secrets, OwnSecrets, ConnInv, Typed, FileTypeOK, Rows
<1>3. ASSUME NEW p \in DOMAIN ps PROVE OwnProfile(p, ps[p])
  <2>1. PICK i \in takenP : pm[i] = p
    BY DEF ImportedProfiles, Imported
  <2>2. (CHOOSE j \in DOMAIN file.profiles : pm[j] = pm[i]) = i
    BY <1>1, RowOf
  <2>3. /\ ps[p].pass = TakeRef(mode, opened, p, "pass", file.profiles[i].pass)
        /\ ps[p].inline = TakeRef(mode, opened, p, "inline", file.profiles[i].inline)
    BY <2>1, <2>2 DEF ImportedProfiles, Imported
  <2>4. OwnProfile(i, file.profiles[i]) /\ (mode # "duplicate" => i = p)
    BY <1>1, <1>2, <2>1
  <2>5. ps[p].pass # None => ps[p].pass[1] = p /\ ps[p].pass[2] = "pass"
    <3>1. file.profiles[i].pass \in Refs \cup {None}
      BY <1>1, <1>2 DEF Profiles
    <3>2. mode = "duplicate" /\ file.profiles[i].pass # None
              => file.profiles[i].pass \notin {None, NoInline}
      BY <3>1, ConnectionsAssumption
    <3> QED  BY <2>3, <2>4, <3>2, OwnTaken DEF OwnProfile
  <2>6. ps[p].inline \notin {None, NoInline} => ps[p].inline[2] = "inline"
    BY <2>3, <2>4, OwnTaken DEF OwnProfile
  <2> QED  BY <2>5, <2>6 DEF OwnProfile
<1>4. ASSUME NEW x \in DOMAIN xs PROVE OwnProxy(x, xs[x])
  <2>1. PICK i \in takenX : xm[i] = x
    BY DEF ImportedProxies, Imported
  <2>2. (CHOOSE j \in DOMAIN file.proxies : xm[j] = xm[i]) = i
    BY <1>1, RowOf
  <2>3. xs[x] = [file.proxies[i] EXCEPT
                     !.pass = TakeRef(mode, opened, x, "pass", file.proxies[i].pass)]
    BY <2>1, <2>2 DEF ImportedProxies, Imported
  <2>4. xs[x].pass = TakeRef(mode, opened, x, "pass", file.proxies[i].pass)
    BY <1>1, <1>2, <2>3 DEF Proxies
  <2>5. OwnProxy(i, file.proxies[i]) /\ (mode # "duplicate" => i = x)
    BY <1>1, <1>2, <2>1
  <2>6. mode = "duplicate" /\ file.proxies[i].pass # None
            => file.proxies[i].pass \notin {None, NoInline}
    BY <1>1, <1>2, ConnectionsAssumption DEF Proxies
  <2> QED  BY <2>4, <2>5, <2>6, OwnTaken DEF OwnProxy
<1> QED  BY <1>3, <1>4 DEF Over, Secrets, OwnSecrets

(* The parts of an import that secrets depend on.                              *)
LEMMA ImportOfSecrets ==
    ASSUME ConnInv, Secrets, NEW mode \in Modes, NEW withPassphrase \in BOOLEAN,
           ApplyImport(mode, withPassphrase)
    PROVE  /\ Secrets'
           /\ \E ps : /\ vault \ Outdated(ps) \subseteq vault'
                      /\ \A p \in DOMAIN ps : profiles'[p].pass = ps[p].pass
<1> DEFINE opened == IF withPassphrase THEN file.secrets ELSE {}
           gm == OneOf(Renaming(mode, DOMAIN file.groups, NewGroups))
           xm == OneOf(Renaming(mode, DOMAIN file.proxies, NewProxies))
           pm == OneOf(Renaming(mode, DOMAIN file.profiles, NewProfiles))
           xs == ImportedProxies(mode, opened, xm)
           ps == ImportedProfiles(mode, opened, gm, xm, pm)
<1>1. /\ gm \in Renaming(mode, DOMAIN file.groups, NewGroups)
      /\ xm \in Renaming(mode, DOMAIN file.proxies, NewProxies)
      /\ pm \in Renaming(mode, DOMAIN file.profiles, NewProfiles)
  BY OneOfIn DEF ApplyImport
<1>2. /\ Writes /\ UNCHANGED file
      /\ vault' = (vault \cup Put(mode, opened, Referenced(ps, xs))) \ Outdated(ps)
      /\ \E e \in Extractions(Over(ps, profiles), Over(xs, proxies), DOMAIN ps, NextRevision) :
             profiles' = e.profiles /\ proxies' = e.proxies
  BY DEF ApplyImport, ImportedProfiles, ImportedProxies
<1>3. /\ opened \in SUBSET Refs
      /\ \A r \in Known(file.groups) : MapId(gm, r) \in GroupIds \cup {Root}
  <2>1. DOMAIN gm = DOMAIN file.groups
        /\ \A g \in DOMAIN file.groups : gm[g] \in NewGroups \/ gm[g] = g
    BY <1>1, Renamed
  <2> QED  BY <2>1 DEF ConnInv, Typed, ConnectionsTypeOK, FileTypeOK, NewGroups, Rows,
                       MapId, Known
<1>4. xs = ImportedProxies(mode, opened, xm) /\ ps = ImportedProfiles(mode, opened, gm, xm, pm)
  OBVIOUS
<1> HIDE DEF xs, ps, gm, xm, pm, opened
<1>5. Rows(ps, ProfileIds, Profiles) /\ Rows(Over(ps, profiles), ProfileIds, Profiles)
  BY <1>1, <1>2, <1>3, ProfilesImported DEF ps
<1>6. OwnSecrets(Over(ps, profiles), Over(xs, proxies))
  BY <1>1, <1>4, OwnImported
<1>7. PICK e \in Extractions(Over(ps, profiles), Over(xs, proxies), DOMAIN ps, NextRevision) :
          profiles' = e.profiles /\ proxies' = e.proxies
  BY <1>2
<1>8. DOMAIN ps \in SUBSET DOMAIN Over(ps, profiles)
  BY DEF Over
<1>9. /\ OwnSecrets(e.profiles, e.proxies)
      /\ \A p \in DOMAIN Over(ps, profiles) : e.profiles[p].pass = Over(ps, profiles)[p].pass
  BY <1>5, <1>6, <1>8, ExtractedOwn
<1>10. \A p \in DOMAIN ps : profiles'[p].pass = ps[p].pass
  BY <1>7, <1>8, <1>9 DEF Over
<1>11. Secrets'
  BY <1>2, <1>7, <1>9 DEF Secrets
<1> QED  BY <1>2, <1>10, <1>11

LEMMA SecretsOfFiles ==
    ASSUME ConnInv, Secrets,
           ExportData \/ \E p \in DOMAIN file.profiles : SavedElsewhere(file.profiles[p].inline)
    PROVE  Secrets'
<1>1. UNCHANGED <<profiles, proxies>> /\ FileTypeOK
  BY DEF ExportData, SavedElsewhere, ConnInv, Typed
<1>2. CASE ExportData
  <2>1. file'.profiles = Undated(profiles) /\ file'.proxies = proxies
    BY <1>2 DEF ExportData
  <2>2. \A p \in DOMAIN profiles : profiles[p] \in Profiles /\ OwnProfile(p, profiles[p])
    BY DEF ConnInv, Typed, ConnectionsTypeOK, Rows, Secrets, OwnSecrets
  <2>3. \A p \in DOMAIN profiles : /\ [profiles[p] EXCEPT !.rev = 0].pass = profiles[p].pass
                                   /\ [profiles[p] EXCEPT !.rev = 0].inline
                                          = profiles[p].inline
    BY <2>2 DEF Profiles
  <2>4. \A p \in DOMAIN profiles : OwnProfile(p, [profiles[p] EXCEPT !.rev = 0])
    BY <2>2, <2>3 DEF OwnProfile
  <2> QED  BY <1>1, <2>1, <2>4 DEF Undated, Secrets, OwnSecrets
<1>3. ASSUME NEW ref, SavedElsewhere(ref) PROVE Secrets'
  <2> DEFINE dropped(p) == IF file.profiles[p].inline = ref
                           THEN [file.profiles[p] EXCEPT !.inline = NoInline]
                           ELSE file.profiles[p]
  <2>1. /\ file'.profiles = [p \in DOMAIN file.profiles |-> dropped(p)]
        /\ file'.proxies = file.proxies
    BY <1>1, <1>3 DEF SavedElsewhere, FileTypeOK
  <2>2. \A p \in DOMAIN file.profiles :
            file.profiles[p] \in Profiles /\ OwnProfile(p, file.profiles[p])
    BY <1>1 DEF FileTypeOK, Rows, Secrets, OwnSecrets
  <2>3. \A p \in DOMAIN file.profiles :
            /\ dropped(p).pass = file.profiles[p].pass
            /\ dropped(p).inline \in {file.profiles[p].inline, NoInline}
    BY <2>2 DEF Profiles
  <2>4. \A p \in DOMAIN file.profiles : OwnProfile(p, dropped(p))
    BY <2>2, <2>3 DEF OwnProfile
  <2> HIDE DEF dropped
  <2> QED  BY <1>1, <2>1, <2>4 DEF Secrets, OwnSecrets
<1> QED  BY <1>2, <1>3

LEMMA SecretsStep ==
    ASSUME ConnInv, Secrets, [ConnectionsNext]_connectionVars
    PROVE  Secrets'
<1>1. ASSUME UNCHANGED <<profiles, proxies, file>> PROVE Secrets'
  BY <1>1 DEF Secrets
<1>2. CASE MigrateInlineRefsOnce
  <2>1. PICK e \in Extractions(profiles, proxies, DOMAIN profiles, 0) :
            profiles' = e.profiles /\ proxies' = e.proxies
    BY <1>2 DEF MigrateInlineRefsOnce
  <2>2. /\ Rows(profiles, ProfileIds, Profiles) /\ DOMAIN profiles \in SUBSET DOMAIN profiles
        /\ UNCHANGED file
    BY <1>2 DEF MigrateInlineRefsOnce, ConnInv, Typed, ConnectionsTypeOK
  <2>3. OwnSecrets(e.profiles, e.proxies)
    BY <2>2, ExtractedOwn DEF Secrets
  <2> QED  BY <2>1, <2>2, <2>3 DEF Secrets
<1>3. CASE EditConnections
  <2>1. ASSUME NEW w \in Windows, OpenDraft(w) \/ Choose(w) \/ DiscardDraft(w)
        PROVE  Secrets'
    BY <1>1, <2>1 DEF OpenDraft, Open, Choose, DiscardDraft
  <2>2. ASSUME NEW w \in Windows, CreateGroup(w) \/ SaveGroup(w) PROVE Secrets'
    BY <1>1, <2>2 DEF CreateGroup, SaveGroup
  <2> QED  BY <1>3, <2>1, <2>2, SecretsOfProfiles, SecretsOfGroups, SecretsOfProxies
           DEF EditConnections
<1>4. CASE MoveConnections
  BY <1>4, SecretsOfFiles, ImportOfSecrets DEF MoveConnections
<1>5. CASE AvailabilityChanges \/ UNCHANGED connectionVars
  BY <1>1, <1>5 DEF AvailabilityChanges, connectionVars
<1> QED  BY <1>2, <1>3, <1>4, <1>5 DEF ConnectionsNext

(* Every password in a row is in the vault, and is the row's own or an inline  *)
(* one that it holds as the others do (savedRefs.ts, connections.ts).          *)
THEOREM SecretsInvariance == ConnectionsSpec => [](ConnInv /\ Secrets)
<1>1. ConnectionsInit => ConnInv /\ Secrets
  BY ConnInit, SecretsInit
<1>2. ConnInv /\ Secrets /\ [ConnectionsNext]_connectionVars => (ConnInv /\ Secrets)'
  BY ConnStep, SecretsStep
<1> QED  BY <1>1, <1>2, PTL DEF ConnectionsSpec

(* If what a step deletes from the vault was held by a row that goes or gets   *)
(* another password, then all other rows keep theirs.                          *)
Survive ==
    /\ \A p \in DOMAIN profiles \cap DOMAIN profiles' :
          profiles[p].pass = profiles'[p].pass /\ profiles[p].pass \in Kept
              => profiles[p].pass \in vault'
    /\ \A x \in DOMAIN proxies \cap DOMAIN proxies' :
          proxies[x].pass = proxies'[x].pass /\ proxies[x].pass \in Kept
              => proxies[x].pass \in vault'

LEMMA OnlyOwnLost ==
    ASSUME ConnInv, Secrets,
           \A ref \in vault \ vault' :
              \/ \E p \in DOMAIN profiles :
                    /\ ref \in {profiles[p].pass, profiles[p].inline}
                    /\ p \in DOMAIN profiles' => profiles'[p].pass # ref
              \/ \E x \in DOMAIN proxies :
                    /\ ref = proxies[x].pass
                    /\ x \in DOMAIN proxies' => proxies'[x].pass # ref
    PROVE  Survive
<1>1. /\ \A p \in DOMAIN profiles : p \in ProfileIds /\ OwnProfile(p, profiles[p])
      /\ \A x \in DOMAIN proxies : x \in ProxyIds /\ OwnProxy(x, proxies[x])
      /\ \A ref \in vault : ref # None /\ ref # NoInline
      /\ ProfileIds \cap ProxyIds = {}
  BY ConnectionsAssumption DEF ConnInv, Typed, ConnectionsTypeOK, Rows, Secrets, OwnSecrets
(* Who loses a kept password is the only one that has it.                      *)
<1>2. ASSUME NEW ref \in Kept, ref \notin vault',
             NEW i, \/ i \in DOMAIN profiles /\ profiles[i].pass = ref
                    \/ i \in DOMAIN proxies /\ proxies[i].pass = ref
      PROVE  \/ i \in DOMAIN profiles /\ (i \in DOMAIN profiles' => profiles'[i].pass # ref)
             \/ i \in DOMAIN proxies /\ (i \in DOMAIN proxies' => proxies'[i].pass # ref)
  <2>1. ref \in vault /\ (ref[2] = "pass" \/ \A a, b \in Holders(ref) : a = b)
    BY DEF Kept
  <2>2. i \in Holders(ref) /\ (ref[2] = "pass" => ref[1] = i)
    BY <1>1, <1>2, <2>1 DEF Holders, OwnProfile, OwnProxy
  <2>3. CASE \E p \in DOMAIN profiles : /\ ref \in {profiles[p].pass, profiles[p].inline}
                                        /\ p \in DOMAIN profiles' => profiles'[p].pass # ref
    <3>1. PICK p \in DOMAIN profiles : /\ ref \in {profiles[p].pass, profiles[p].inline}
                                       /\ p \in DOMAIN profiles' => profiles'[p].pass # ref
      BY <2>3
    <3>2. p \in Holders(ref) /\ (ref[2] = "pass" => ref[1] = p)
      BY <1>1, <2>1, <3>1 DEF Holders, OwnProfile
    <3> QED  BY <2>1, <2>2, <3>1, <3>2
  <2>4. CASE \E x \in DOMAIN proxies : /\ ref = proxies[x].pass
                                       /\ x \in DOMAIN proxies' => proxies'[x].pass # ref
    <3>1. PICK x \in DOMAIN proxies : /\ ref = proxies[x].pass
                                      /\ x \in DOMAIN proxies' => proxies'[x].pass # ref
      BY <2>4
    <3>2. x \in Holders(ref) /\ (ref[2] = "pass" => ref[1] = x)
      BY <1>1, <2>1, <3>1 DEF Holders, OwnProxy
    <3> QED  BY <2>1, <2>2, <3>1, <3>2
  <2> QED  BY <1>2, <2>1, <2>3, <2>4
<1>3. DOMAIN profiles \cap DOMAIN proxies = {}
  BY <1>1
<1> QED  BY <1>2, <1>3 DEF Survive

LEMMA StepSurvives ==
    ASSUME ConnInv, Secrets, [ConnectionsNext]_connectionVars
    PROVE  Survive
<1>1. ASSUME vault \subseteq vault' PROVE Survive
  BY <1>1, OnlyOwnLost
<1>2. /\ \A p \in DOMAIN profiles : profiles[p].pass \in Refs \cup {None}
      /\ \A x \in DOMAIN proxies : proxies[x].pass \in Refs \cup {None}
      /\ \A ref \in vault : ref # None
  BY ConnectionsAssumption DEF ConnInv, Typed, ConnectionsTypeOK, Rows, Profiles, Proxies
<1>3. ASSUME NEW id, NEW old, NEW change \in Changes,
             vault' = VaultAfter(old, change, PassRef(id))
      PROVE  \A ref \in vault \ vault' : ref = old /\ PassAfter(old, change, PassRef(id)) = None
  BY <1>3 DEF VaultAfter, PassAfter, Changes
<1>4. ASSUME NEW id, NEW old, NEW group, NEW proxy, NEW change \in Changes,
             StoreProfile(id, old, group, proxy, change),
             old = None \/ (id \in DOMAIN profiles /\ profiles[id].pass = old)
      PROVE  Survive
  <2>1. /\ \A ref \in vault \ vault' : ref = old /\ PassAfter(old, change, PassRef(id)) = None
        /\ profiles'[id].pass = PassAfter(old, change, PassRef(id))
    BY <1>3, <1>4 DEF StoreProfile, Written
  <2> QED  BY <1>2, <1>4, <2>1, OnlyOwnLost
<1>5. ASSUME NEW id, NEW old, NEW atOldAddress, NEW change \in Changes,
             StoreProxy(id, old, atOldAddress, change),
             old = None \/ (id \in DOMAIN proxies /\ proxies[id].pass = old)
      PROVE  Survive
  <2>1. /\ \A ref \in vault \ vault' : ref = old /\ PassAfter(old, change, PassRef(id)) = None
        /\ proxies'[id].pass = PassAfter(old, change, PassRef(id))
    BY <1>3, <1>5 DEF StoreProxy, Written
  <2> QED  BY <1>2, <1>5, <2>1, OnlyOwnLost
<1>6. CASE EditConnections
  <2>1. ASSUME NEW w \in Windows,
               \/ OpenDraft(w) \/ Choose(w) \/ DiscardDraft(w)
               \/ CreateGroup(w) \/ SaveGroup(w)
        PROVE  Survive
    BY <1>1, <2>1 DEF OpenDraft, Open, Choose, DiscardDraft, CreateGroup, SaveGroup
  <2>2. ASSUME NEW w \in Windows, NEW change \in Changes,
               SaveProfile(w, change) \/ CreateProfile(w, change)
        PROVE  Survive
    <3>1. CASE SaveProfile(w, change)
      BY <1>4, <3>1 DEF SaveProfile, Agrees
    <3>2. CASE CreateProfile(w, change)
      <4>1. StoreProfile(OneOf(NewProfiles), None, drafts[w].group, drafts[w].proxy, change)
        BY <3>2 DEF CreateProfile
      <4> QED  BY <1>4, <4>1
    <3> QED  BY <2>2, <3>1, <3>2
  <2>3. ASSUME NEW p \in DOMAIN profiles, DeleteProfile(p) PROVE Survive
    BY <2>3, OnlyOwnLost DEF DeleteProfile, Deleted
  <2>4. ASSUME NEW p \in DOMAIN profiles, DuplicateProfile(p) \/ RememberPassword(p)
        PROVE  Survive
    BY <1>1, <2>4 DEF DuplicateProfile, RememberPassword
  <2>5. ASSUME NEW g \in DOMAIN groups, DeleteGroup(g) PROVE Survive
    BY <1>1, <2>5 DEF DeleteGroup
  <2>6. ASSUME NEW atOldAddress, NEW change \in Changes,
               \/ \E w \in Windows : SaveProxy(w, atOldAddress, change)
               \/ CreateProxy(atOldAddress, change)
        PROVE  Survive
    <3>1. ASSUME NEW w \in Windows, SaveProxy(w, atOldAddress, change) PROVE Survive
      BY <1>5, <3>1 DEF SaveProxy, Agrees
    <3>2. CASE CreateProxy(atOldAddress, change)
      <4>1. StoreProxy(OneOf(NewProxies), None, atOldAddress, change)
        BY <3>2 DEF CreateProxy
      <4> QED  BY <1>5, <4>1
    <3> QED  BY <2>6, <3>1, <3>2
  <2>7. ASSUME NEW x \in DOMAIN proxies, DeleteProxy(x) PROVE Survive
    BY <2>7, OnlyOwnLost DEF DeleteProxy, Deleted
  <2> QED  BY <1>6, <2>1, <2>2, <2>3, <2>4, <2>5, <2>6, <2>7 DEF EditConnections
<1>7. ASSUME NEW mode \in Modes, NEW withPassphrase \in BOOLEAN,
             ApplyImport(mode, withPassphrase)
      PROVE  Survive
  <2>1. PICK ps : /\ vault \ Outdated(ps) \subseteq vault'
                  /\ \A p \in DOMAIN ps : profiles'[p].pass = ps[p].pass
    BY <1>7, ImportOfSecrets
  <2>2. ASSUME NEW ref \in vault \ vault'
        PROVE  \E p \in DOMAIN profiles :
                  /\ ref \in {profiles[p].pass, profiles[p].inline}
                  /\ p \in DOMAIN profiles' => profiles'[p].pass # ref
    BY <2>1, <2>2 DEF Outdated
  <2> QED  BY <2>2, OnlyOwnLost
<1>8. CASE MoveConnections
  BY <1>1, <1>7, <1>8 DEF MoveConnections, ExportData, SavedElsewhere
<1>9. CASE MigrateInlineRefsOnce \/ AvailabilityChanges \/ UNCHANGED connectionVars
  BY <1>1, <1>9 DEF MigrateInlineRefsOnce, AvailabilityChanges, connectionVars
<1> QED  BY <1>6, <1>8, <1>9 DEF ConnectionsNext

(* What takeRef() and copyRef() give copies a secret of their own for:         *)
(* deleting, saving or importing one thing never takes the password of another.*)
THEOREM SecretsSurviveHolds == ConnectionsSpec => SecretsSurvive
<1>1. ConnInv /\ Secrets /\ [ConnectionsNext]_connectionVars => [Survive]_connectionVars
  BY StepSurvives
<1> QED  BY <1>1, SecretsInvariance, PTL DEF ConnectionsSpec, SecretsSurvive, Survive

-------------------------------------------------------------------------------

(* A write is announced before it is made: between the statement that marks    *)
(* the database and the INSERT of trustHostkey() the mark is already there.    *)
AnnouncedIsMarked == accepting # NoHost /\ ~key => MigrationIsDue

(* An insertion under way dies with its process.                               *)
OnlyUpAccepts == accepting # NoHost => process = "up"

EncryptionInv == EncryptionTypeOK /\ OnlyUpAccepts /\ AnnouncedIsMarked /\ PlaintextIsMarked

-------------------------------------------------------------------------------
(* Saving a row keeps the kind of rows the tables hold.                        *)
LEMMA UpsertedType ==
    ASSUME lookups \subseteq Lookups, NEW i \in Hosts \cup Commands
    PROVE  Upserted(i) \subseteq Lookups
BY DEF Upserted, Lookups, Tokenize, EncField

(* With a key an upsert adds no plain text.                                    *)
LEMMA UpsertedSealed ==
    ASSUME key, NEW i,
           NEW r \in Upserted(i), r.keyed = "plain" \/ r.text # "sealed"
    PROVE  r \in lookups
BY DEF Upserted, Tokenize, EncField

(* The migration leaves no plain text in the tables that are looked up.        *)
LEMMA RekeyedSealed ==
    ASSUME lookups \subseteq Lookups
    PROVE  /\ Rekeyed \subseteq Lookups
           /\ \A r \in Rekeyed : r.keyed = "token" /\ r.text = "sealed"
BY DEF Rekeyed, Lookups

(* A step that adds no plain text and takes no mark away keeps the invariant.  *)
LEMMA NothingPlainAdded ==
    ASSUME PlaintextIsMarked,
           MigrationIsDue => MigrationIsDue',
           \A e \in Entities : rows'[e] = "plain" => rows[e] = "plain",
           \A r \in lookups' : r.keyed = "plain" \/ r.text # "sealed" => r \in lookups
    PROVE  PlaintextIsMarked'
BY DEF PlaintextIsMarked, PlainText

(* The mark is there after a write without a key, and no mark is taken away.   *)
LEMMA MarkedMarks ==
    ASSUME Marked, UNCHANGED migrated
    PROVE  /\ MigrationIsDue => MigrationIsDue'
           /\ ~key => MigrationIsDue'
BY DEF Marked, MigrationIsDue

-------------------------------------------------------------------------------
LEMMA EncryptionInitInv == EncryptionInit => EncryptionInv
<1> SUFFICES ASSUME EncryptionInit PROVE EncryptionInv
  OBVIOUS
<1>1. rows \in [Entities -> {"none", "plain", "sealed"}]
  BY DEF EncryptionInit
<1>2. lookups \subseteq Lookups
  BY DEF EncryptionInit, Lookups
<1>3. EncryptionTypeOK
  BY <1>1, <1>2 DEF EncryptionInit, EncryptionTypeOK
<1> QED
  BY <1>3 DEF EncryptionInit, EncryptionInv, OnlyUpAccepts, AnnouncedIsMarked,
              PlaintextIsMarked, MigrationIsDue

(* Starts, the migration, quitting and crashing.                               *)
LEMMA StartsKeepMark ==
    ASSUME EncryptionInv,
           \/ \E found \in BOOLEAN : StartPlain(found)
           \/ StartMigrating \/ MigrationFails \/ Leave
    PROVE  EncryptionInv'
<1> USE DEF EncryptionInv
<1>1. ASSUME NEW found \in BOOLEAN, StartPlain(found) PROVE EncryptionInv'
  BY <1>1 DEF StartPlain, EncryptionTypeOK, OnlyUpAccepts, AnnouncedIsMarked,
              PlaintextIsMarked, PlainText, MigrationIsDue
<1>2. CASE StartMigrating
  <2>1. EncryptionTypeOK' /\ OnlyUpAccepts' /\ AnnouncedIsMarked'
    BY <1>2, RekeyedSealed DEF StartMigrating, EncryptionTypeOK, OnlyUpAccepts,
                               AnnouncedIsMarked
  <2>2. ~PlainText'
    BY <1>2, RekeyedSealed DEF StartMigrating, EncryptionTypeOK, PlainText
  <2> QED  BY <2>1, <2>2 DEF PlaintextIsMarked
<1>3. CASE MigrationFails
  BY <1>3 DEF MigrationFails, EncryptionTypeOK, OnlyUpAccepts, AnnouncedIsMarked,
              PlaintextIsMarked, PlainText, MigrationIsDue
<1>4. CASE Leave
  BY <1>4 DEF Leave, EncryptionTypeOK, OnlyUpAccepts, AnnouncedIsMarked,
              PlaintextIsMarked, PlainText, MigrationIsDue
<1> QED  BY <1>1, <1>2, <1>3, <1>4

(* Writes and deletions of the entities.                                       *)
LEMMA EntitiesKeepMark ==
    ASSUME EncryptionInv, NEW e \in Entities, SaveEntity(e) \/ DeleteEntity(e)
    PROVE  EncryptionInv'
<1> USE DEF EncryptionInv
<1>1. CASE SaveEntity(e)
  <2>1. EncryptionTypeOK' /\ OnlyUpAccepts' /\ AnnouncedIsMarked'
    BY <1>1 DEF SaveEntity, Idle, Marked, EncField, EncryptionTypeOK, OnlyUpAccepts,
                AnnouncedIsMarked
  <2>2. /\ MigrationIsDue => MigrationIsDue'
        /\ ~key => MigrationIsDue'
    BY <1>1, MarkedMarks DEF SaveEntity
  <2>3. ASSUME key PROVE PlaintextIsMarked'
    BY <1>1, <2>2, <2>3, NothingPlainAdded DEF SaveEntity, EncField, EncryptionTypeOK
  <2>4. ASSUME ~key PROVE PlaintextIsMarked'
    BY <2>2, <2>4 DEF PlaintextIsMarked
  <2> QED  BY <2>1, <2>3, <2>4
<1>2. CASE DeleteEntity(e)
  <2>1. EncryptionTypeOK' /\ OnlyUpAccepts' /\ AnnouncedIsMarked'
    BY <1>2 DEF DeleteEntity, EncryptionTypeOK, OnlyUpAccepts, AnnouncedIsMarked,
                MigrationIsDue
  <2>2. PlaintextIsMarked'
    BY <1>2, NothingPlainAdded DEF DeleteEntity, MigrationIsDue, EncryptionTypeOK
  <2> QED  BY <2>1, <2>2
<1> QED  BY <1>1, <1>2

(* The host key that is trusted, in its two statements, and its look-up.       *)
LEMMA HostsKeepMark ==
    ASSUME EncryptionInv,
           \/ \E h \in Hosts : TrustHostkey(h)
           \/ CheckHostkey \/ InsertHostkey
    PROVE  EncryptionInv'
<1> USE DEF EncryptionInv
<1>1. ASSUME NEW h \in Hosts, TrustHostkey(h) PROVE EncryptionInv'
  <2>1. /\ MigrationIsDue => MigrationIsDue'
        /\ ~key => MigrationIsDue'
    BY <1>1, MarkedMarks DEF TrustHostkey
  <2>2. EncryptionTypeOK' /\ OnlyUpAccepts' /\ AnnouncedIsMarked'
    BY <1>1, <2>1 DEF TrustHostkey, Idle, Marked, EncryptionTypeOK, OnlyUpAccepts,
                      AnnouncedIsMarked
  <2>3. PlaintextIsMarked'
    BY <1>1, <2>1, NothingPlainAdded DEF TrustHostkey
  <2> QED  BY <2>2, <2>3
<1>2. CASE CheckHostkey
  <2>1. /\ MigrationIsDue => MigrationIsDue'
        /\ ~key => MigrationIsDue'
    BY <1>2, MarkedMarks DEF CheckHostkey
  <2>2. EncryptionTypeOK' /\ OnlyUpAccepts' /\ AnnouncedIsMarked'
    BY <1>2, <2>1 DEF CheckHostkey, Idle, Marked, EncryptionTypeOK, OnlyUpAccepts,
                      AnnouncedIsMarked
  <2>3. PlaintextIsMarked'
    BY <1>2, <2>1, NothingPlainAdded DEF CheckHostkey
  <2> QED  BY <2>2, <2>3
<1>3. CASE InsertHostkey
  <2>1. EncryptionTypeOK' /\ OnlyUpAccepts' /\ AnnouncedIsMarked'
    BY <1>3, UpsertedType DEF InsertHostkey, EncryptionTypeOK, OnlyUpAccepts,
                              AnnouncedIsMarked
  <2>2. ASSUME key PROVE PlaintextIsMarked'
    BY <1>3, <2>2, UpsertedSealed, NothingPlainAdded DEF InsertHostkey, MigrationIsDue
  <2>3. ASSUME ~key PROVE PlaintextIsMarked'
    BY <1>3, <2>3 DEF InsertHostkey, AnnouncedIsMarked, PlaintextIsMarked, MigrationIsDue
  <2> QED  BY <2>1, <2>2, <2>3
<1> QED  BY <1>1, <1>2, <1>3

(* The command history, and the deletions of both tables.                      *)
LEMMA LookupsKeepMark ==
    ASSUME EncryptionInv,
           \/ \E c \in Commands : PushCommandHistory(c)
           \/ \E r \in lookups : DeleteKnownHost(r)
           \/ ClearCommandHistory
    PROVE  EncryptionInv'
<1> USE DEF EncryptionInv
<1>1. ASSUME NEW c \in Commands, PushCommandHistory(c) PROVE EncryptionInv'
  <2>1. /\ MigrationIsDue => MigrationIsDue'
        /\ ~key => MigrationIsDue'
    BY <1>1, MarkedMarks DEF PushCommandHistory
  <2>2. EncryptionTypeOK' /\ OnlyUpAccepts' /\ AnnouncedIsMarked'
    BY <1>1, UpsertedType DEF PushCommandHistory, Idle, Marked, EncryptionTypeOK,
                              OnlyUpAccepts, AnnouncedIsMarked
  <2>3. ASSUME key PROVE PlaintextIsMarked'
    BY <1>1, <2>1, <2>3, UpsertedSealed, NothingPlainAdded DEF PushCommandHistory
  <2>4. ASSUME ~key PROVE PlaintextIsMarked'
    BY <2>1, <2>4 DEF PlaintextIsMarked
  <2> QED  BY <2>2, <2>3, <2>4
<1>2. ASSUME NEW r \in lookups, DeleteKnownHost(r) PROVE EncryptionInv'
  <2>1. EncryptionTypeOK' /\ OnlyUpAccepts' /\ AnnouncedIsMarked'
    BY <1>2 DEF DeleteKnownHost, EncryptionTypeOK, OnlyUpAccepts, AnnouncedIsMarked,
                MigrationIsDue
  <2>2. PlaintextIsMarked'
    BY <1>2, NothingPlainAdded DEF DeleteKnownHost, MigrationIsDue
  <2> QED  BY <2>1, <2>2
<1>3. CASE ClearCommandHistory
  <2>1. EncryptionTypeOK' /\ OnlyUpAccepts' /\ AnnouncedIsMarked'
    BY <1>3 DEF ClearCommandHistory, EncryptionTypeOK, OnlyUpAccepts, AnnouncedIsMarked,
                MigrationIsDue
  <2>2. PlaintextIsMarked'
    BY <1>3, NothingPlainAdded DEF ClearCommandHistory, MigrationIsDue
  <2> QED  BY <2>1, <2>2
<1> QED  BY <1>1, <1>2, <1>3

LEMMA EncryptionStep == EncryptionInv /\ [EncryptionNext]_encryptionVars => EncryptionInv'
<1> SUFFICES ASSUME EncryptionInv, [EncryptionNext]_encryptionVars PROVE EncryptionInv'
  OBVIOUS
<1>1. CASE EncryptionNext
  BY <1>1, StartsKeepMark, EntitiesKeepMark, HostsKeepMark, LookupsKeepMark
     DEF EncryptionNext
<1>2. CASE UNCHANGED encryptionVars
  BY <1>2 DEF encryptionVars, EncryptionInv, EncryptionTypeOK, OnlyUpAccepts, AnnouncedIsMarked,
              PlaintextIsMarked, PlainText, MigrationIsDue
<1> QED  BY <1>1, <1>2

(* The strengthened invariant: besides the rows, the write that is announced.  *)
THEOREM EncryptionInvariance == EncryptionSpec => []EncryptionInv
BY EncryptionInitInv, EncryptionStep, PTL DEF EncryptionSpec

(* The state of the encryption at rest is well typed: only a running process   *)
(* has a key, and every row is one the code can write.                         *)
THEOREM EncryptionTypeCorrect == EncryptionSpec => []EncryptionTypeOK
<1>1. EncryptionInv => EncryptionTypeOK  BY DEF EncryptionInv
<1> QED  BY <1>1, EncryptionInvariance, PTL

(* Plain text stored by a process without a secure backend is encrypted by the *)
(* next start that has one, however many starts, writes and crashes are        *)
(* between: crypto.ts marks the database before or with every such write.      *)
THEOREM PlaintextIsMarkedHolds == EncryptionSpec => []PlaintextIsMarked
<1>1. EncryptionInv => PlaintextIsMarked  BY DEF EncryptionInv
<1> QED  BY <1>1, EncryptionInvariance, PTL

-------------------------------------------------------------------------------
(* Together: each part behaves as it does alone, since they share no state.    *)
LEMMA PartsBehave == Spec => ConnectionsSpec /\ EncryptionSpec /\ PatientSpec
<1>1. Init => ConnectionsInit /\ EncryptionInit /\ EditorInit
  BY DEF Init
<1>2. [Next]_vars => /\ [ConnectionsNext]_connectionVars /\ [EncryptionNext]_encryptionVars
                     /\ [PatientNext]_editorVars
  BY DEF Next, vars, FollowConnections, FollowEncryption, FollowEditor
<1> QED  BY <1>1, <1>2, PTL DEF Spec, ConnectionsSpec, EncryptionSpec, PatientSpec

(* The state of the three parts is well typed.                                 *)
THEOREM StorageTypeCorrect == Spec => []TypeOK
<1>1. ConnectionsTypeOK /\ EncryptionTypeOK /\ EditorTypeOK => TypeOK
  BY DEF TypeOK
<1> QED  BY <1>1, PartsBehave, ConnectionsTypeCorrect, EncryptionTypeCorrect,
            EditorTypeCorrect, PTL

(* What Storage.tla promises of what is entrusted to it: no row is lost from   *)
(* the panel, but one saved from a form whose group was gone, and what hangs   *)
(* below it; no password is taken from what still uses it, nobody overwrites   *)
(* what they have not seen, no plain text escapes the migration, and no text   *)
(* is lost that was typed by a user who waits for a file to be read.           *)
THEOREM StorageKeepsWhatItIsGiven ==
    Spec => /\ []TreeComplete /\ SecretsSurvive /\ NoBlindOverwrite
            /\ []PlaintextIsMarked /\ []DraftsSurvive
BY PartsBehave, TreeCompleteHolds, SecretsSurviveHolds, NoBlindOverwriteHolds,
   PlaintextIsMarkedHolds, DraftsSurviveHolds
==============================================================================
