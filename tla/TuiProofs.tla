----------------------------- MODULE TuiProofs -----------------------------
(***************************************************************************)
(* The terminal UI for any number of groups, names, people and changes     *)
(* made by others: what is on the screen is what its requests are about.   *)
(*                                                                         *)
(* The argument is about the requests a handler still has to make.  A list *)
(* of groups is followed by the list of the secrets unless the pane is     *)
(* known to be behind, and a request that replaces a secret is for the     *)
(* group it was shown for (QueueOK).  A form or a question about a secret  *)
(* is open only while no request that could move the selection is in hand  *)
(* (ModeOK).                                                               *)
(***************************************************************************)
EXTENDS Tui, FiniteSetTheorems, WellFoundedInduction, TLAPS

ModeKind == {"Normal", "Help", "ViewSecret", "NewGroup", "NewSecret", "EditSecret",
             "AddIdentity", "GrantEntry", "DeleteSecret", "RemoveIdentity", "RotateDek",
             "SetServiceAdmin", "Identities", "Acl", "GrantPicker", "Quit"}

AclMode == {"Acl", "GrantPicker", "GrantEntry"}

Kind == ModeKind \cup Changes \cup {"ListGroups", "List", "ListIdentities", "GroupAcl",
                                   "ListIdentityNames"}

Req == [kind : Kind, group : Group \cup {0}, name : Name \cup {0},
        id : Identity \cup {0}, shown : Secret, perms : SUBSET Perm,
        flag : BOOLEAN, from : Group \cup {0}]

\* a request names what it is about
Sendable(r) ==
  /\ r.kind = "CreateGroup" => r.group \in Group
  /\ r.kind = "AddIdentity" => r.id \in Identity
  /\ r.kind \in {"Put", "Delete", "ViewSecret", "EditSecret"} => r.name \in Name

\* and so does a form or a question about a secret
ModeType(m) ==
  /\ m \in Req /\ m.kind \in ModeKind
  /\ m.kind \in {"EditSecret", "DeleteSecret"} => m.name \in Name

UI == [groups : Seq(Group), gsel : Nat, secrets : Seq(Name \X Secret), ssel : Nat,
       identities : Seq(Identity \X BOOLEAN), isel : Nat,
       acl : Seq(Identity \X SUBSET Perm), asel : Nat, aclGroup : Group \cup {0},
       candidates : Seq(Identity), csel : Nat, focus : {"Groups", "Secrets"},
       serviceAdmin : BOOLEAN, mode : Req]

Tables == [groups : SUBSET Group, ids : SUBSET Identity, admins : SUBSET Identity,
           secret : [Group -> [Name -> Secret]],
           acl : [Group -> [Identity -> SUBSET Perm]]]

Replaced == [asked : Req, found : Secret, behind : BOOLEAN]
Hist == [pane : Group \cup {0}, behind : BOOLEAN, acl : Group \cup {0},
         aclBehind : BOOLEAN, replaced : SUBSET Replaced]

TablesOK(b) == b \in Tables /\ b.admins \subseteq b.ids

InRange(sel, list) == sel < Len(list) \/ list = <<>>

Listed(q) == q \in Seq(Name \X Secret) /\ \A i \in DOMAIN q : q[i][2].version > 0

\* the fields of App have their types, and every selection is in its list
ScreenOK(u) ==
  /\ u \in UI /\ ModeType(u.mode) /\ Listed(u.secrets)
  /\ InRange(u.gsel, u.groups) /\ InRange(u.ssel, u.secrets)
  /\ InRange(u.isel, u.identities) /\ InRange(u.asel, u.acl)
  /\ InRange(u.csel, u.candidates)

Carries(q, kind) == \E i \in DOMAIN q : q[i].kind = kind

QueueOK(u, q, h) ==
  \A i \in DOMAIN q :
    /\ q[i].kind = "ListGroups" =>
         q[i].flag \/ \E j \in DOMAIN q : j > i /\ q[j].kind = "List"
    /\ q[i].kind \in {"ViewSecret", "EditSecret"} =>
         Len(q) = 1 /\ q[i].from = Selected(u)
    /\ q[i].kind = "ListIdentityNames" => Len(q) = 1 /\ u.mode.kind = "Acl"
    /\ q[i].kind = "Put" /\ q[i].shown.version > 0 => q[i].from = q[i].group
    /\ q[i].kind = "Delete" => i = 1 /\ (q[i].from = q[i].group \/ h.behind)

ModeOK(u, q, h) ==
  /\ u.mode.kind = "EditSecret" => q = <<>> /\ u.mode.from = Selected(u)
  /\ u.mode.kind = "DeleteSecret" =>
       q = <<>> /\ u.secrets # <<>> /\ u.mode.from = h.pane

PaneOK(u, q, h) ==
  h.behind \/ u.secrets = <<>> \/ Carries(q, "List") \/ h.pane = Selected(u)

AclOK(u, q, h) ==
  \/ h.aclBehind \/ u.mode.kind \notin AclMode
  \/ Carries(q, "GroupAcl") \/ h.acl = u.aclGroup

TodoOK(q) == q \in Seq(Req) /\ \A i \in DOMAIN q : Sendable(q[i])

Consistent(u, q, h) ==
  /\ ScreenOK(u) /\ TodoOK(q)
  /\ QueueOK(u, q, h) /\ ModeOK(u, q, h) /\ PaneOK(u, q, h) /\ AclOK(u, q, h)

ScreenInv ==
  /\ TablesOK(bunker) /\ Consistent(ui, todo, hist)
  /\ hist \in Hist /\ events \in 0..MaxEvents
  /\ ReplacesOnlyWhatWasShown

-----------------------------------------------------------------------------
(* Lists in order *)

\* A set of natural numbers that is not empty has a least element.
LEMMA LeastExists ==
  ASSUME NEW T \in SUBSET Nat, T # {}
  PROVE  \E m \in T : \A n \in T : m <= n
<1> DEFINE R == OpToRel(<, Nat)
<1>1. IsWellFoundedOn(R, Nat)
  BY NatLessThanWellFounded, Zenon
<1>2. \A x, y \in Nat : <<x, y>> \in R <=> x < y
  BY DEF OpToRel
<1> HIDE DEF R
<1>3. PICK x \in T : \A y \in T : <<y, x>> \notin R
  BY <1>1, WFMin, Zenon
<1>4. \A y \in T : ~(y < x)
  BY <1>2, <1>3, Zenon
<1> QED
  BY <1>4

InOrder(q) == \A i, j \in DOMAIN q : i < j => q[i] < q[j]

\* Every finite set of names can be listed in order: the smallest set that could
\* not would, without its least name.
LEMMA OrderExists ==
  ASSUME NEW S \in SUBSET Nat, IsFiniteSet(S)
  PROVE  \E q \in [1..Cardinality(S) -> S] : InOrder(q)
<1> DEFINE has(X) == \E q \in [1..Cardinality(X) -> X] : InOrder(q)
           T == {n \in Nat : \E X \in SUBSET Nat :
                   IsFiniteSet(X) /\ Cardinality(X) = n /\ ~has(X)}
<1>1. Cardinality(S) \in Nat
  BY FS_CardinalityType
<1>2. SUFFICES ASSUME T # {} PROVE FALSE
  <2>1. T = {} => Cardinality(S) \notin T
    OBVIOUS
  <2> QED
    BY <1>1, <2>1, Zenon
<1>3. T \in SUBSET Nat
  OBVIOUS
<1>4. PICK n \in T : \A k \in T : n <= k
  BY <1>2, <1>3, LeastExists, Zenon
<1>5. PICK X \in SUBSET Nat : IsFiniteSet(X) /\ Cardinality(X) = n /\ ~has(X)
  OBVIOUS
<1>6. n \in Nat
  OBVIOUS
<1>7. X # {}
  <2> SUFFICES ASSUME X = {} PROVE FALSE
    OBVIOUS
  <2>1. Cardinality(X) = 0
    BY FS_EmptySet
  <2>2. <<>> \in [1..0 -> X] /\ InOrder(<<>>)
    BY DEF InOrder
  <2> QED
    BY <1>5, <2>1, <2>2, Zenon
<1>8. PICK m \in X : \A x \in X : m <= x
  BY <1>5, <1>7, LeastExists, Zenon
<1> DEFINE Y == X \ {m}
<1>9. IsFiniteSet(Y) /\ Cardinality(Y) = n - 1 /\ Cardinality(Y) \in Nat
  BY <1>5, <1>8, FS_RemoveElement, FS_CardinalityType
<1>10. Cardinality(Y) \notin T
  BY <1>4, <1>6, <1>9
<1>11. has(Y)
  BY <1>5, <1>9, <1>10, Zenon
<1>12. PICK q \in [1..n - 1 -> Y] : InOrder(q)
  BY <1>9, <1>11, Zenon
<1> HIDE DEF T, has
<1> DEFINE r == [i \in 1..n |-> IF i = 1 THEN m ELSE q[i - 1]]
<1>13. ASSUME NEW i \in 1..n, i # 1
       PROVE  q[i - 1] \in X /\ m < q[i - 1]
  <2>1. i - 1 \in 1..n - 1
    BY <1>6, <1>13
  <2>2. q[i - 1] \in X /\ q[i - 1] # m
    BY <1>12, <2>1
  <2>3. m <= q[i - 1] /\ m \in Nat /\ q[i - 1] \in Nat
    BY <1>5, <1>8, <2>2, Zenon
  <2> QED
    BY <2>2, <2>3
<1>14. r \in [1..n -> X]
  BY <1>8, <1>13
<1>15. ASSUME NEW i \in 1..n, NEW j \in 1..n, i < j PROVE r[i] < r[j]
  <2>1. j # 1
    BY <1>6, <1>15
  <2>2. CASE i = 1
    BY <1>13, <2>1, <2>2
  <2>3. CASE i # 1
    <3>1. i - 1 \in 1..n - 1 /\ j - 1 \in 1..n - 1 /\ i - 1 < j - 1
      BY <1>6, <1>15, <2>1, <2>3
    <3>2. q[i - 1] < q[j - 1]
      BY <1>12, <3>1 DEF InOrder
    <3> QED
      BY <2>1, <2>3, <3>2
  <2> QED
    BY <2>2, <2>3
<1>16. InOrder(r)
  BY <1>14, <1>15 DEF InOrder
<1> QED
  BY <1>5, <1>14, <1>16 DEF has

\* What a list shows is a sequence of the names there are.
LEMMA SortedType ==
  ASSUME NEW T, T \subseteq Nat, IsFiniteSet(T), NEW S \in SUBSET T
  PROVE  Sorted(S) \in Seq(S) /\ Sorted(S) \in Seq(T)
<1>1. IsFiniteSet(S) /\ S \in SUBSET Nat
  BY FS_Subset, Zenon
<1>2. Cardinality(S) \in Nat
  BY <1>1, FS_CardinalityType
<1>3. \E q \in [1..Cardinality(S) -> S] : \A i, j \in DOMAIN q : i < j => q[i] < q[j]
  BY <1>1, OrderExists DEF InOrder
<1>4. Sorted(S) \in [1..Cardinality(S) -> S]
  BY <1>3, Zenon DEF Sorted
<1>5. Sorted(S) \in [1..Cardinality(S) -> T]
  BY <1>4, Zenon
<1> QED
  BY <1>2, <1>4, <1>5

-----------------------------------------------------------------------------
(* What an answer leaves on the screen *)

\* A selection clamped to a list is an index of it.
LEMMA ClampInRange ==
  ASSUME NEW X, NEW list \in Seq(X), NEW sel \in Nat
  PROVE  Clamp(sel, list) \in Nat /\ InRange(Clamp(sel, list), list)
<1>1. Len(list) \in Nat /\ (list # <<>> => Len(list) > 0)
  OBVIOUS
<1> QED
  BY <1>1 DEF Clamp, InRange

\* A list of groups is a list of groups.
LEMMA GroupsType ==
  ASSUME NEW b, TablesOK(b)
  PROVE  Groups(b) \in Seq(Group)
<1> DEFINE S == {x \in b.groups : Me \in b.admins \/ b.acl[x][Me] # {}}
<1>1. S \in SUBSET Group
  BY DEF TablesOK, Tables
<1>2. Group \subseteq Nat /\ IsFiniteSet(Group)
  BY TuiConstants
<1> HIDE DEF S
<1>3. Sorted(S) \in Seq(Group)
  BY <1>1, <1>2, SortedType, Zenon
<1> QED
  BY <1>3 DEF Groups, S

\* A list of secrets has the names that have a version.
LEMMA NamesType ==
  ASSUME NEW b, TablesOK(b), NEW g \in Group
  PROVE  Listed(Names(b, g))
<1> DEFINE S == {n \in Name : b.secret[g][n].version > 0}
           q == Sorted(S)
           L == [i \in DOMAIN q |-> <<q[i], b.secret[g][q[i]]>>]
<1>1. S \in SUBSET Name
  BY DEF TablesOK, Tables
<1>2. \A n \in S : b.secret[g][n] \in Secret /\ b.secret[g][n].version > 0
  BY DEF TablesOK, Tables
<1>3. Names(b, g) = L
  BY DEF Names
<1>4. Name \subseteq Nat /\ IsFiniteSet(Name)
  BY TuiConstants
<1> HIDE DEF S
<1>5. q \in Seq(S)
  BY <1>1, <1>4, SortedType, Zenon
<1> HIDE DEF q
<1>6. Len(q) \in Nat /\ DOMAIN q = 1..Len(q) /\ \A i \in 1..Len(q) : q[i] \in S
  BY <1>5
<1>7. \A i \in 1..Len(q) : <<q[i], b.secret[g][q[i]]>> \in Name \X Secret
  BY <1>1, <1>2, <1>6
<1>8. L \in [1..Len(q) -> Name \X Secret]
  BY <1>6, <1>7
<1>9. L \in Seq(Name \X Secret)
  BY <1>6, <1>8
<1>10. \A i \in DOMAIN L : L[i][2].version > 0
  BY <1>2, <1>6
<1> QED
  BY <1>3, <1>9, <1>10, Zenon DEF Listed

\* A list of identities says of each whether it is a service admin.
LEMMA IdentitiesType ==
  ASSUME NEW b, TablesOK(b)
  PROVE  Identities(b) \in Seq(Identity \X BOOLEAN)
<1> DEFINE S == b.ids
           q == Sorted(S)
           L == [i \in DOMAIN q |-> <<q[i], q[i] \in b.admins>>]
<1>1. S \in SUBSET Identity
  BY DEF TablesOK, Tables
<1>2. \A e \in S : (e \in b.admins) \in BOOLEAN
  BY DEF TablesOK, Tables
<1>3. Identities(b) = L
  BY DEF Identities
<1>4. Identity \subseteq Nat /\ IsFiniteSet(Identity)
  BY TuiConstants
<1> HIDE DEF S
<1>5. q \in Seq(S)
  BY <1>1, <1>4, SortedType, Zenon
<1> HIDE DEF q
<1>6. Len(q) \in Nat /\ DOMAIN q = 1..Len(q) /\ \A i \in 1..Len(q) : q[i] \in S
  BY <1>5
<1>7. \A i \in 1..Len(q) : <<q[i], q[i] \in b.admins>> \in (Identity \X BOOLEAN)
  BY <1>1, <1>2, <1>6, Zenon
<1>8. L \in [1..Len(q) -> (Identity \X BOOLEAN)]
  BY <1>6, <1>7
<1>9. L \in Seq(Identity \X BOOLEAN)
  BY <1>6, <1>8
<1> QED
  BY <1>3, <1>9, Zenon

\* A group's ACL lists identities and their permissions.
LEMMA AclType ==
  ASSUME NEW b, TablesOK(b), NEW g \in Group
  PROVE  AclOf(b, g) \in Seq(Identity \X SUBSET Perm)
<1> DEFINE S == {e \in b.ids : b.acl[g][e] # {}}
           q == Sorted(S)
           L == [i \in DOMAIN q |-> <<q[i], b.acl[g][q[i]]>>]
<1>1. S \in SUBSET Identity
  BY DEF TablesOK, Tables
<1>2. \A e \in S : b.acl[g][e] \in SUBSET Perm
  BY DEF TablesOK, Tables
<1>3. AclOf(b, g) = L
  BY DEF AclOf
<1>4. Identity \subseteq Nat /\ IsFiniteSet(Identity)
  BY TuiConstants
<1> HIDE DEF S
<1>5. q \in Seq(S)
  BY <1>1, <1>4, SortedType, Zenon
<1> HIDE DEF q
<1>6. Len(q) \in Nat /\ DOMAIN q = 1..Len(q) /\ \A i \in 1..Len(q) : q[i] \in S
  BY <1>5
<1>7. \A i \in 1..Len(q) : <<q[i], b.acl[g][q[i]]>> \in (Identity \X SUBSET Perm)
  BY <1>1, <1>2, <1>6
<1>8. L \in [1..Len(q) -> (Identity \X SUBSET Perm)]
  BY <1>6, <1>7
<1>9. L \in Seq(Identity \X SUBSET Perm)
  BY <1>6, <1>8
<1> QED
  BY <1>3, <1>9, Zenon

-----------------------------------------------------------------------------
(* What assigning fields of App leaves alone *)

\* the fields the requests and their order depend on
SameView(u, v) ==
  /\ Selected(v) = Selected(u) /\ v.secrets = u.secrets /\ v.aclGroup = u.aclGroup

\* all of the view, all but the mode, all but the groups, all but the secrets
ViewKept(u, v) == ScreenOK(v) /\ v.mode = u.mode /\ SameView(u, v)
ModeSet(u, v, m) == ScreenOK(v) /\ v.mode = m /\ SameView(u, v)
GroupMoved(u, v) == ScreenOK(v) /\ v.mode = u.mode
AclOpened(u, v, g, m) ==
  /\ ScreenOK(v) /\ v.mode = m /\ v.aclGroup = g
  /\ Selected(v) = Selected(u) /\ v.secrets = u.secrets
OtherListsKept(u, v) ==
  ScreenOK(v) /\ v.mode = u.mode /\ v.secrets = u.secrets /\ v.aclGroup = u.aclGroup
OtherPaneKept(u, v) ==
  ScreenOK(v) /\ v.mode = u.mode /\ Selected(v) = Selected(u) /\ v.aclGroup = u.aclGroup

\* The selected group is one of the list, if there is one.
LEMMA SelectedType ==
  ASSUME NEW u \in UI
  PROVE  Selected(u) \in Group \cup {0}
<1>1. u.groups \in Seq(Group) /\ u.gsel \in Nat
  BY DEF UI
<1> QED
  BY <1>1 DEF Selected

\* Opening or leaving a screen leaves the lists.
LEMMA SetMode ==
  ASSUME NEW u, ScreenOK(u), NEW m, ModeType(m)
  PROVE  ModeSet(u, [u EXCEPT !.mode = m], m)
<1> DEFINE v == [u EXCEPT !.mode = m]
<1>1. u \in UI /\ m \in Req
  BY DEF ScreenOK, ModeType
<1>2. v \in UI /\ v.mode = m
  BY <1>1, Zenon DEF UI
<1>3. /\ v.groups = u.groups /\ v.gsel = u.gsel /\ v.secrets = u.secrets /\ v.ssel = u.ssel
      /\ v.identities = u.identities /\ v.isel = u.isel /\ v.acl = u.acl /\ v.asel = u.asel
      /\ v.aclGroup = u.aclGroup /\ v.candidates = u.candidates /\ v.csel = u.csel
  BY <1>1 DEF UI
<1> HIDE DEF v
<1>4. ModeSet(u, v, m)
  BY <1>2, <1>3, Zenon DEF ScreenOK, SameView, Selected, ModeSet
<1> QED
  BY <1>4 DEF v

\* The groups are fetched and the selection is clamped to them.
LEMMA SetGroups ==
  ASSUME NEW u, ScreenOK(u), NEW q \in Seq(Group), NEW k \in Nat, InRange(k, q),
         NEW s \in BOOLEAN
  PROVE  OtherListsKept(u, [u EXCEPT !.serviceAdmin = s, !.groups = q, !.gsel = k])
<1> DEFINE w == [u EXCEPT !.serviceAdmin = s]
           v == [w EXCEPT !.groups = q, !.gsel = k]
<1>1. u \in UI
  BY DEF ScreenOK
<1>2. w \in UI
  BY <1>1, Zenon DEF UI
<1>3. /\ w.secrets = u.secrets /\ w.ssel = u.ssel
      /\ w.identities = u.identities /\ w.isel = u.isel /\ w.acl = u.acl /\ w.asel = u.asel
      /\ w.aclGroup = u.aclGroup /\ w.candidates = u.candidates /\ w.csel = u.csel
      /\ w.mode = u.mode
  BY <1>1 DEF UI
<1>4. v = [u EXCEPT !.serviceAdmin = s, !.groups = q, !.gsel = k]
  OBVIOUS
<1> HIDE DEF w
<1>5. v \in UI /\ v.groups = q /\ v.gsel = k
  BY <1>2, <1>4, Zenon DEF UI
<1>6. /\ v.secrets = w.secrets /\ v.ssel = w.ssel
      /\ v.identities = w.identities /\ v.isel = w.isel /\ v.acl = w.acl /\ v.asel = w.asel
      /\ v.aclGroup = w.aclGroup /\ v.candidates = w.candidates /\ v.csel = w.csel
      /\ v.mode = w.mode
  BY <1>2, <1>4, Zenon DEF UI
<1> HIDE DEF v
<1>7. OtherListsKept(u, v)
  BY <1>3, <1>5, <1>6, Zenon DEF ScreenOK, OtherListsKept
<1> QED
  BY <1>4, <1>7, Zenon

\* The secrets are fetched.
LEMMA SetSecrets ==
  ASSUME NEW u, ScreenOK(u), NEW q, Listed(q), NEW k \in Nat, InRange(k, q)
  PROVE  OtherPaneKept(u, [u EXCEPT !.secrets = q, !.ssel = k])
<1> DEFINE v == [u EXCEPT !.secrets = q, !.ssel = k]
<1>1. u \in UI
  BY DEF ScreenOK
<1>2. v \in UI /\ v.secrets = q /\ v.ssel = k
  BY <1>1, Zenon DEF UI, Listed
<1>3. /\ v.groups = u.groups /\ v.gsel = u.gsel /\ v.identities = u.identities
      /\ v.isel = u.isel /\ v.acl = u.acl /\ v.asel = u.asel /\ v.aclGroup = u.aclGroup
      /\ v.candidates = u.candidates /\ v.csel = u.csel /\ v.mode = u.mode
  BY <1>1 DEF UI
<1>4. Selected(v) = Selected(u)
  BY <1>3 DEF Selected
<1> HIDE DEF v
<1>5. OtherPaneKept(u, v)
  BY <1>2, <1>3, <1>4, Zenon DEF ScreenOK, OtherPaneKept
<1> QED
  BY <1>5 DEF v

\* The identities are fetched.
LEMMA SetIdentities ==
  ASSUME NEW u, ScreenOK(u), NEW q \in Seq(Identity \X BOOLEAN), NEW k \in Nat, InRange(k, q)
  PROVE  ViewKept(u, [u EXCEPT !.identities = q, !.isel = k])
<1> DEFINE v == [u EXCEPT !.identities = q, !.isel = k]
<1>1. u \in UI
  BY DEF ScreenOK
<1>2. v \in UI /\ v.identities = q /\ v.isel = k
  BY <1>1, Zenon DEF UI
<1>3. /\ v.groups = u.groups /\ v.gsel = u.gsel /\ v.secrets = u.secrets
      /\ v.ssel = u.ssel /\ v.acl = u.acl /\ v.asel = u.asel /\ v.aclGroup = u.aclGroup
      /\ v.candidates = u.candidates /\ v.csel = u.csel /\ v.mode = u.mode
  BY <1>1 DEF UI
<1>4. Selected(v) = Selected(u)
  BY <1>3 DEF Selected
<1> HIDE DEF v
<1>5. ViewKept(u, v)
  BY <1>2, <1>3, <1>4, Zenon DEF ScreenOK, SameView, ViewKept
<1> QED
  BY <1>5 DEF v

\* The ACL is fetched.
LEMMA SetAcl ==
  ASSUME NEW u, ScreenOK(u), NEW q \in Seq(Identity \X SUBSET Perm), NEW k \in Nat, InRange(k, q)
  PROVE  ViewKept(u, [u EXCEPT !.acl = q, !.asel = k])
<1> DEFINE v == [u EXCEPT !.acl = q, !.asel = k]
<1>1. u \in UI
  BY DEF ScreenOK
<1>2. v \in UI /\ v.acl = q /\ v.asel = k
  BY <1>1, Zenon DEF UI
<1>3. /\ v.groups = u.groups /\ v.gsel = u.gsel /\ v.secrets = u.secrets
      /\ v.ssel = u.ssel /\ v.identities = u.identities /\ v.isel = u.isel
      /\ v.aclGroup = u.aclGroup /\ v.candidates = u.candidates /\ v.csel = u.csel
      /\ v.mode = u.mode
  BY <1>1 DEF UI
<1>4. Selected(v) = Selected(u)
  BY <1>3 DEF Selected
<1> HIDE DEF v
<1>5. ViewKept(u, v)
  BY <1>2, <1>3, <1>4, Zenon DEF ScreenOK, SameView, ViewKept
<1> QED
  BY <1>5 DEF v

\* The grant picker is filled.
LEMMA SetCandidates ==
  ASSUME NEW u, ScreenOK(u), NEW q \in Seq(Identity), NEW k \in Nat, InRange(k, q)
  PROVE  ViewKept(u, [u EXCEPT !.candidates = q, !.csel = k])
<1> DEFINE v == [u EXCEPT !.candidates = q, !.csel = k]
<1>1. u \in UI
  BY DEF ScreenOK
<1>2. v \in UI /\ v.candidates = q /\ v.csel = k
  BY <1>1, Zenon DEF UI
<1>3. /\ v.groups = u.groups /\ v.gsel = u.gsel /\ v.secrets = u.secrets
      /\ v.ssel = u.ssel /\ v.identities = u.identities /\ v.isel = u.isel
      /\ v.acl = u.acl /\ v.asel = u.asel /\ v.aclGroup = u.aclGroup /\ v.mode = u.mode
  BY <1>1 DEF UI
<1>4. Selected(v) = Selected(u)
  BY <1>3 DEF Selected
<1> HIDE DEF v
<1>5. ViewKept(u, v)
  BY <1>2, <1>3, <1>4, Zenon DEF ScreenOK, SameView, ViewKept
<1> QED
  BY <1>5 DEF v

\* Tab.
LEMMA SetFocus ==
  ASSUME NEW u, ScreenOK(u), NEW f \in {"Groups", "Secrets"}
  PROVE  ViewKept(u, [u EXCEPT !.focus = f])
<1> DEFINE v == [u EXCEPT !.focus = f]
<1>1. u \in UI
  BY DEF ScreenOK
<1>2. v \in UI
  BY <1>1, Zenon DEF UI
<1>3. /\ v.groups = u.groups /\ v.gsel = u.gsel /\ v.secrets = u.secrets
      /\ v.ssel = u.ssel /\ v.identities = u.identities /\ v.isel = u.isel
      /\ v.acl = u.acl /\ v.asel = u.asel /\ v.aclGroup = u.aclGroup
      /\ v.candidates = u.candidates /\ v.csel = u.csel /\ v.mode = u.mode
  BY <1>1 DEF UI
<1>4. Selected(v) = Selected(u)
  BY <1>3 DEF Selected
<1> HIDE DEF v
<1>5. ViewKept(u, v)
  BY <1>2, <1>3, <1>4, Zenon DEF ScreenOK, SameView, ViewKept
<1> QED
  BY <1>5 DEF v

\* Another group is selected.
LEMMA SetGroup ==
  ASSUME NEW u, ScreenOK(u), NEW k \in Nat, InRange(k, u.groups)
  PROVE  GroupMoved(u, [u EXCEPT !.gsel = k, !.ssel = 0])
<1> DEFINE v == [u EXCEPT !.gsel = k, !.ssel = 0]
<1>1. u \in UI
  BY DEF ScreenOK
<1>2. v \in UI /\ v.gsel = k /\ v.ssel = 0
  BY <1>1, Zenon DEF UI
<1>3. /\ v.groups = u.groups /\ v.secrets = u.secrets /\ v.identities = u.identities
      /\ v.isel = u.isel /\ v.acl = u.acl /\ v.asel = u.asel /\ v.aclGroup = u.aclGroup
      /\ v.candidates = u.candidates /\ v.csel = u.csel /\ v.mode = u.mode
  BY <1>1 DEF UI
<1>4. InRange(0, u.secrets)
  <2>1. u.secrets \in Seq(Name \X Secret)
    BY <1>1 DEF UI
  <2> QED
    BY <2>1 DEF InRange
<1> HIDE DEF v
<1>5. GroupMoved(u, v)
  BY <1>2, <1>3, <1>4, Zenon DEF ScreenOK, GroupMoved
<1> QED
  BY <1>5 DEF v

\* The ACL screen is opened.
LEMMA SetAclGroup ==
  ASSUME NEW u, ScreenOK(u), NEW g \in Group \cup {0}, NEW m, ModeType(m)
  PROVE  AclOpened(u, [u EXCEPT !.aclGroup = g, !.mode = m], g, m)
<1> DEFINE v == [u EXCEPT !.aclGroup = g, !.mode = m]
<1>1. u \in UI
  BY DEF ScreenOK
<1>2. v \in UI /\ v.aclGroup = g /\ v.mode = m
  BY <1>1, Zenon DEF UI, ModeType
<1>3. /\ v.groups = u.groups /\ v.gsel = u.gsel /\ v.secrets = u.secrets
      /\ v.ssel = u.ssel /\ v.identities = u.identities /\ v.isel = u.isel
      /\ v.acl = u.acl /\ v.asel = u.asel /\ v.candidates = u.candidates
      /\ v.csel = u.csel
  BY <1>1 DEF UI
<1>4. Selected(v) = Selected(u)
  BY <1>3 DEF Selected
<1> HIDE DEF v
<1>5. AclOpened(u, v, g, m)
  BY <1>2, <1>3, <1>4, Zenon DEF ScreenOK, AclOpened
<1> QED
  BY <1>5 DEF v

-----------------------------------------------------------------------------
(* Answers *)

\* A screen without a subject, and a request without arguments.
LEMMA AskFacts ==
  ASSUME NEW k \in Kind
  PROVE  /\ Ask(k) \in Req /\ Ask(k).kind = k
         /\ Ask(k).group = 0 /\ Ask(k).name = 0 /\ Ask(k).id = 0 /\ Ask(k).shown = Absent
         /\ Ask(k).perms = {} /\ Ask(k).flag = FALSE /\ Ask(k).from = 0
<1>1. Absent \in Secret /\ {} \in SUBSET Perm
  BY DEF Absent, Secret
<1>2. Blank \in [kind : {""}, group : {0}, name : {0}, id : {0}, shown : {Absent},
                perms : {{}}, flag : {FALSE}, from : {0}]
  BY Zenon DEF Blank
<1>3. Ask(k) \in [kind : {k}, group : {0}, name : {0}, id : {0}, shown : {Absent},
                 perms : {{}}, flag : {FALSE}, from : {0}]
  BY <1>2, Zenon DEF Ask
<1> QED
  BY <1>1, <1>3, Zenon DEF Req

\* Screens that are not about a secret.
LEMMA AskMode ==
  ASSUME NEW k \in ModeKind \ {"EditSecret", "DeleteSecret"}
  PROVE  ModeType(Ask(k)) /\ Ask(k).kind = k
<1>1. k \in Kind
  BY Zenon DEF Kind
<1> QED
  BY <1>1, AskFacts, Zenon DEF ModeType

\* what an answer does to the fields the other requests depend on
AnswerOK(u, b, r, v) ==
  /\ ScreenOK(v) /\ v.aclGroup = u.aclGroup
  /\ r.kind # "List" => v.secrets = u.secrets
  /\ r.kind # "ListGroups" => Selected(v) = Selected(u)
  /\ \/ /\ v.mode = u.mode
        /\ r.kind = "GroupAcl" => Holds(b, Me, u.aclGroup, "admin")
     \/ r.kind = "GroupAcl" /\ v.mode.kind = "Normal"
     \/ r.kind = "ListIdentityNames" /\ v.mode.kind \in {"GrantEntry", "GrantPicker"}
     \/ /\ r.kind \in {"ViewSecret", "EditSecret"}
        /\ v.mode.kind = r.kind /\ v.mode.from = r.from

\* refresh_groups
LEMMA GroupsAnswer ==
  ASSUME NEW b, TablesOK(b), NEW u, ScreenOK(u), NEW r, r.kind = "ListGroups",
         NEW v, v = RefreshGroups(u, b)
  PROVE  AnswerOK(u, b, r, v)
<1>1. CASE Me \notin b.ids
  BY <1>1 DEF RefreshGroups, AnswerOK
<1>2. CASE Me \in b.ids
  <2> DEFINE q == Groups(b)
             k == Clamp(u.gsel, q)
             s == Me \in b.admins
  <2>1. q \in Seq(Group) /\ u.gsel \in Nat
    BY GroupsType DEF ScreenOK, UI
  <2>2. k \in Nat /\ InRange(k, q)
    BY <2>1, ClampInRange, Zenon
  <2>3. s \in BOOLEAN
    OBVIOUS
  <2>4. v = [u EXCEPT !.serviceAdmin = s, !.groups = q, !.gsel = k]
    BY <1>2, Zenon DEF RefreshGroups
  <2> HIDE DEF q, k, s
  <2>5. OtherListsKept(u, [u EXCEPT !.serviceAdmin = s, !.groups = q, !.gsel = k])
    BY <2>1, <2>2, <2>3, SetGroups, ZenonT(30)
  <2> QED
    BY <2>4, <2>5 DEF AnswerOK, OtherListsKept
<1> QED
  BY <1>1, <1>2

\* refresh_secrets
LEMMA SecretsAnswer ==
  ASSUME NEW b, TablesOK(b), NEW u, ScreenOK(u), NEW r, r.kind = "List",
         NEW v, v = RefreshSecrets(u, b)
  PROVE  AnswerOK(u, b, r, v)
<1>1. u \in UI /\ u.ssel \in Nat
  BY DEF ScreenOK, UI
<1>2. CASE ~Holds(b, Me, Selected(u), "read")
  <2>1. Listed(<<>>) /\ InRange(u.ssel, <<>>)
    BY DEF Listed, InRange
  <2>2. v = [u EXCEPT !.secrets = <<>>, !.ssel = u.ssel]
    BY <1>1, <1>2, Zenon DEF RefreshSecrets, UI
  <2>3. OtherPaneKept(u, [u EXCEPT !.secrets = <<>>, !.ssel = u.ssel])
    BY <1>1, <2>1, SetSecrets, ZenonT(30)
  <2> QED
    BY <2>2, <2>3 DEF AnswerOK, OtherPaneKept
<1>3. CASE Holds(b, Me, Selected(u), "read")
  <2> DEFINE q == Names(b, Selected(u))
             k == Clamp(u.ssel, q)
  <2>1. Selected(u) \in Group
    BY <1>3 DEF Holds, TablesOK, Tables
  <2>2. Listed(q)
    BY <2>1, NamesType, Zenon
  <2>3. v = [u EXCEPT !.secrets = q, !.ssel = k]
    BY <1>3, Zenon DEF RefreshSecrets
  <2> HIDE DEF q
  <2>4. k \in Nat /\ InRange(k, q)
    BY <1>1, <2>2, ClampInRange, Zenon DEF Listed
  <2> HIDE DEF k
  <2>5. OtherPaneKept(u, [u EXCEPT !.secrets = q, !.ssel = k])
    BY <2>2, <2>4, SetSecrets, ZenonT(30)
  <2> QED
    BY <2>3, <2>5 DEF AnswerOK, OtherPaneKept
<1> QED
  BY <1>2, <1>3

\* refresh_identities
LEMMA IdentitiesAnswer ==
  ASSUME NEW b, TablesOK(b), NEW u, ScreenOK(u), NEW r, r.kind = "ListIdentities",
         NEW v, v = RefreshIdentities(u, b)
  PROVE  AnswerOK(u, b, r, v)
<1>1. CASE Me \notin b.admins
  BY <1>1 DEF RefreshIdentities, AnswerOK
<1>2. CASE Me \in b.admins
  <2> DEFINE q == Identities(b)
             k == Clamp(u.isel, q)
  <2>1. q \in Seq(Identity \X BOOLEAN) /\ u.isel \in Nat
    BY IdentitiesType DEF ScreenOK, UI
  <2>2. k \in Nat /\ InRange(k, q)
    BY <2>1, ClampInRange, Zenon
  <2>3. v = [u EXCEPT !.identities = q, !.isel = k]
    BY <1>2, Zenon DEF RefreshIdentities
  <2> HIDE DEF q, k
  <2>4. ViewKept(u, [u EXCEPT !.identities = q, !.isel = k])
    BY <2>1, <2>2, SetIdentities, Zenon
  <2> QED
    BY <2>3, <2>4, Zenon DEF AnswerOK, SameView, ViewKept
<1> QED
  BY <1>1, <1>2

\* refresh_acl: a group that is no longer ours to administer closes the screen
LEMMA AclAnswer ==
  ASSUME NEW b, TablesOK(b), NEW u, ScreenOK(u), NEW r, r.kind = "GroupAcl",
         NEW v, v = RefreshAcl(u, b)
  PROVE  AnswerOK(u, b, r, v)
<1>1. CASE ~Holds(b, Me, u.aclGroup, "admin")
  <2>1. ModeType(Ask("Normal")) /\ Ask("Normal").kind = "Normal"
    BY AskMode DEF ModeKind
  <2>2. v = [u EXCEPT !.mode = Ask("Normal")]
    BY <1>1, Zenon DEF RefreshAcl
  <2>3. ModeSet(u, [u EXCEPT !.mode = Ask("Normal")], Ask("Normal"))
    BY <2>1, SetMode, Zenon
  <2> QED
    BY <2>1, <2>2, <2>3, Zenon DEF AnswerOK, SameView, ModeSet
<1>2. CASE Holds(b, Me, u.aclGroup, "admin")
  <2> DEFINE q == AclOf(b, u.aclGroup)
             k == Clamp(u.asel, q)
  <2>1. u.aclGroup \in Group
    BY <1>2 DEF Holds, TablesOK, Tables
  <2>2. q \in Seq(Identity \X SUBSET Perm) /\ u.asel \in Nat
    BY <2>1, AclType DEF ScreenOK, UI
  <2>3. k \in Nat /\ InRange(k, q)
    BY <2>2, ClampInRange, Zenon
  <2>4. v = [u EXCEPT !.acl = q, !.asel = k]
    BY <1>2, Zenon DEF RefreshAcl
  <2> HIDE DEF q, k
  <2>5. ViewKept(u, [u EXCEPT !.acl = q, !.asel = k])
    BY <2>2, <2>3, SetAcl, Zenon
  <2> QED
    BY <1>2, <2>4, <2>5, Zenon DEF AnswerOK, SameView, ViewKept
<1> QED
  BY <1>1, <1>2

\* open_grant_picker
LEMMA PickerAnswer ==
  ASSUME NEW b, TablesOK(b), NEW u, ScreenOK(u), NEW r, r.kind = "ListIdentityNames",
         NEW v, v = OpenGrantPicker(u, b)
  PROVE  AnswerOK(u, b, r, v)
<1> DEFINE free == Sorted({e \in b.ids : \A i \in DOMAIN u.acl : u.acl[i][1] # e})
<1>1. free \in Seq(Identity)
  <2> DEFINE S == {e \in b.ids : \A i \in DOMAIN u.acl : u.acl[i][1] # e}
  <2>1. S \in SUBSET Identity
    BY DEF TablesOK, Tables
  <2>2. Identity \subseteq Nat /\ IsFiniteSet(Identity)
    BY TuiConstants
  <2> HIDE DEF S
  <2>3. Sorted(S) \in Seq(Identity)
    BY <2>1, <2>2, SortedType, Zenon
  <2> QED
    BY <2>3 DEF S
<1>2. u \in UI /\ u.csel \in Nat
  BY DEF ScreenOK, UI
<1>3. \/ v = [u EXCEPT !.mode = GrantForm(0)]
      \/ free = <<>> /\ v = [u EXCEPT !.candidates = free]
      \/ v = [u EXCEPT !.candidates = free, !.csel = 0, !.mode = Ask("GrantPicker")]
  BY ZenonT(30) DEF OpenGrantPicker
<1> HIDE DEF free
<1>4. CASE v = [u EXCEPT !.mode = GrantForm(0)]
  <2>1. Ask("GrantEntry") \in Req /\ Ask("GrantEntry").kind = "GrantEntry"
    BY AskFacts, Zenon DEF Kind, ModeKind
  <2>2. GrantForm(0) \in Req /\ GrantForm(0).kind = "GrantEntry"
    BY <2>1, Zenon DEF GrantForm, Req
  <2>3. ModeType(GrantForm(0))
    BY <2>2 DEF ModeType, ModeKind
  <2>4. ModeSet(u, [u EXCEPT !.mode = GrantForm(0)], GrantForm(0))
    BY <2>3, SetMode, Zenon
  <2> QED
    BY <1>4, <2>2, <2>4 DEF AnswerOK, SameView, ModeSet
<1>5. CASE free = <<>> /\ v = [u EXCEPT !.candidates = free]
  <2>1. InRange(u.csel, free)
    BY <1>5 DEF InRange
  <2>2. [u EXCEPT !.candidates = free] = [u EXCEPT !.candidates = free, !.csel = u.csel]
    BY <1>2, Zenon DEF UI
  <2>3. ViewKept(u, [u EXCEPT !.candidates = free, !.csel = u.csel])
    BY <1>1, <1>2, <2>1, SetCandidates, Zenon
  <2> QED
    BY <1>5, <2>2, <2>3, Zenon DEF AnswerOK, SameView, ViewKept
<1>6. CASE v = [u EXCEPT !.candidates = free, !.csel = 0, !.mode = Ask("GrantPicker")]
  <2> DEFINE w == [u EXCEPT !.candidates = free, !.csel = 0]
  <2>1. InRange(0, free)
    BY <1>1 DEF InRange
  <2>2. ViewKept(u, w)
    BY <1>1, <2>1, SetCandidates, Zenon
  <2>3. v = [w EXCEPT !.mode = Ask("GrantPicker")]
    BY <1>6
  <2> HIDE DEF w
  <2>4. ModeType(Ask("GrantPicker")) /\ Ask("GrantPicker").kind = "GrantPicker"
    BY AskMode DEF ModeKind
  <2>5. ModeSet(w, [w EXCEPT !.mode = Ask("GrantPicker")], Ask("GrantPicker"))
    BY <2>2, <2>4, SetMode, Zenon DEF ViewKept
  <2> QED
    BY <2>2, <2>3, <2>4, <2>5 DEF AnswerOK, SameView, ViewKept, ModeSet
<1> QED
  BY <1>3, <1>4, <1>5, <1>6

\* view_selected_secret and edit_selected_secret: the screen is about the secret
\* that was asked for.
LEMMA GetAnswer ==
  ASSUME NEW b, TablesOK(b), NEW u, ScreenOK(u), NEW r \in Req, Sendable(r),
         r.kind \in {"ViewSecret", "EditSecret"}, NEW v, v = Got(u, b, r)
  PROVE  AnswerOK(u, b, r, v)
<1>1. CASE v = u
  BY <1>1 DEF AnswerOK
<1>2. CASE v # u
  <2> DEFINE s == b.secret[r.group][r.name]
             m == [r EXCEPT !.shown = s]
  <2>1. Holds(b, Me, r.group, "read") /\ v = [u EXCEPT !.mode = m]
    BY <1>2, Zenon DEF Got
  <2>2. r.group \in Group /\ r.name \in Name
    BY <2>1 DEF Holds, TablesOK, Tables, Sendable
  <2>3. s \in Secret
    BY <2>2 DEF TablesOK, Tables
  <2> HIDE DEF s
  <2>4. m \in Req /\ m.kind = r.kind /\ m.name = r.name /\ m.from = r.from
    BY <2>3, Zenon DEF Req
  <2>5. ModeType(m)
    <3> HIDE DEF m
    <3> QED
      BY <2>2, <2>4 DEF ModeType, ModeKind
  <2> HIDE DEF m
  <2>6. ModeSet(u, [u EXCEPT !.mode = m], m)
    BY <2>5, SetMode, Zenon
  <2> QED
    BY <2>1, <2>4, <2>6, Zenon DEF AnswerOK, SameView, ModeSet
<1> QED
  BY <1>1, <1>2

\* What req does with an answer.
LEMMA AnswerFacts ==
  ASSUME NEW b, TablesOK(b), NEW u, ScreenOK(u), NEW r \in Req, Sendable(r),
         NEW v, v = Answered(u, b, r)
  PROVE  AnswerOK(u, b, r, v)
<1>1. CASE r.kind = "ListGroups"
  BY <1>1, GroupsAnswer DEF Answered
<1>2. CASE r.kind = "List"
  BY <1>2, SecretsAnswer DEF Answered
<1>3. CASE r.kind = "ListIdentities"
  BY <1>3, IdentitiesAnswer DEF Answered
<1>4. CASE r.kind = "GroupAcl"
  BY <1>4, AclAnswer DEF Answered
<1>5. CASE r.kind = "ListIdentityNames"
  BY <1>5, PickerAnswer DEF Answered
<1>6. CASE r.kind \in {"ViewSecret", "EditSecret"}
  BY <1>6, GetAnswer DEF Answered
<1>7. CASE r.kind \notin {"ListGroups", "List", "ListIdentities", "GroupAcl",
                          "ListIdentityNames", "ViewSecret", "EditSecret"}
  <2>1. v = u
    BY <1>7 DEF Answered
  <2> QED
    BY <1>7, <2>1 DEF AnswerOK
<1> QED
  BY <1>1, <1>2, <1>3, <1>4, <1>5, <1>6, <1>7

-----------------------------------------------------------------------------
(* What requests do to the tables *)

\* put keeps the tables, and writes only over the version it expects.
LEMMA PutFacts ==
  ASSUME NEW b, TablesOK(b), NEW g \in Group, NEW n \in Name, NEW x \in Nat
  PROVE  TablesOK(Put(b, g, n, x)) /\ (Put(b, g, n, x) # b => b.secret[g][n].version = x)
<1> DEFINE s == b.secret[g][n]
           t == [life |-> IF x = 0 THEN s.life + 1 ELSE s.life, version |-> x + 1]
           f == [b.secret EXCEPT ![g][n] = t]
<1>1. b \in Tables /\ s \in Secret
  BY DEF TablesOK, Tables
<1>2. t \in Secret
  BY <1>1 DEF Secret
<1>3. Put(b, g, n, x) = IF s.version # x THEN b ELSE [b EXCEPT !.secret = f]
  BY Zenon DEF Put
<1> HIDE DEF t
<1>4. f \in [Group -> [Name -> Secret]]
  BY <1>1, <1>2, Zenon DEF Tables
<1> HIDE DEF f, s
<1>5. [b EXCEPT !.secret = f] \in Tables /\ [b EXCEPT !.secret = f].ids = b.ids
      /\ [b EXCEPT !.secret = f].admins = b.admins
  BY <1>1, <1>4, Zenon DEF Tables
<1> QED
  BY <1>3, <1>5, Zenon DEF TablesOK, s

\* So does delete.
LEMMA DeleteFacts ==
  ASSUME NEW b, TablesOK(b), NEW g \in Group, NEW n \in Name, NEW x \in Nat
  PROVE  /\ TablesOK(Delete(b, g, n, x))
         /\ Delete(b, g, n, x) # b => b.secret[g][n].version = x
<1> DEFINE s == b.secret[g][n]
           t == [s EXCEPT !.version = 0]
           f == [b.secret EXCEPT ![g][n] = t]
<1>1. b \in Tables /\ s \in Secret
  BY DEF TablesOK, Tables
<1>2. t \in Secret
  BY <1>1 DEF Secret
<1>3. Delete(b, g, n, x) = IF s.version # x \/ x = 0 THEN b ELSE [b EXCEPT !.secret = f]
  BY Zenon DEF Delete
<1> HIDE DEF t
<1>4. f \in [Group -> [Name -> Secret]]
  BY <1>1, <1>2, Zenon DEF Tables
<1> HIDE DEF f, s
<1>5. [b EXCEPT !.secret = f] \in Tables /\ [b EXCEPT !.secret = f].ids = b.ids
      /\ [b EXCEPT !.secret = f].admins = b.admins
  BY <1>1, <1>4, Zenon DEF Tables
<1> QED
  BY <1>3, <1>5, Zenon DEF TablesOK, s

\* grant keeps the tables.
LEMMA GrantType ==
  ASSUME NEW b, TablesOK(b), NEW g \in Group, NEW e, NEW p \in SUBSET Perm
  PROVE  TablesOK(Grant(b, g, e, p))
<1> DEFINE f == [b.acl EXCEPT ![g][e] = p]
<1>1. b \in Tables
  BY DEF TablesOK
<1>2. Grant(b, g, e, p) \in {b, [b EXCEPT !.acl = f]}
  BY Zenon DEF Grant
<1>3. CASE e \in Identity
  <2>1. f \in [Group -> [Identity -> SUBSET Perm]]
    BY <1>1, <1>3, Zenon DEF Tables
  <2> HIDE DEF f
  <2>2. [b EXCEPT !.acl = f] \in Tables /\ [b EXCEPT !.acl = f].ids = b.ids
        /\ [b EXCEPT !.acl = f].admins = b.admins
    BY <1>1, <2>1, Zenon DEF Tables
  <2> QED
    BY <1>2, <2>2, Zenon DEF TablesOK
<1>4. CASE e \notin Identity
  <2>1. e \notin b.ids
    BY <1>1, <1>4 DEF Tables
  <2> QED
    BY <2>1, Zenon DEF Grant
<1> QED
  BY <1>3, <1>4

\* The registry keeps them, and a service admin is a registered identity.
LEMMA RegistryType ==
  ASSUME NEW b, TablesOK(b), NEW r \in Req, Sendable(r),
         r.kind \in {"CreateGroup", "AddIdentity", "RemoveIdentity", "SetServiceAdmin"}
  PROVE  TablesOK(Registry(b, r))
<1>1. b \in Tables /\ b.admins \subseteq b.ids
  BY DEF TablesOK
<1>2. CASE r.kind = "CreateGroup"
  <2> DEFINE G == b.groups \cup {r.group}
             f == [b.acl EXCEPT ![r.group][Me] = Perm]
  <2>1. Registry(b, r) = IF r.group \in b.groups THEN b
                         ELSE [b EXCEPT !.groups = G, !.acl = f]
    BY <1>2 DEF Registry
  <2>2. r.group \in Group /\ Me \in Identity /\ Perm \in SUBSET Perm
    BY <1>2, TuiConstants DEF Sendable
  <2>3. f \in [Group -> [Identity -> SUBSET Perm]]
    BY <1>1, <2>2, Zenon DEF Tables
  <2>4. G \in SUBSET Group
    BY <1>1, <2>2 DEF Tables
  <2> HIDE DEF f, G
  <2>5. /\ [b EXCEPT !.groups = G, !.acl = f] \in Tables
        /\ [b EXCEPT !.groups = G, !.acl = f].ids = b.ids
        /\ [b EXCEPT !.groups = G, !.acl = f].admins = b.admins
    BY <1>1, <2>3, <2>4, Zenon DEF Tables
  <2> QED
    BY <1>1, <2>1, <2>5, Zenon DEF TablesOK
<1>3. ASSUME NEW I \in SUBSET Identity, NEW A \in SUBSET I
      PROVE  TablesOK([b EXCEPT !.ids = I, !.admins = A])
  <2>1. A \in SUBSET Identity
    OBVIOUS
  <2>2. /\ [b EXCEPT !.ids = I, !.admins = A] \in Tables
        /\ [b EXCEPT !.ids = I, !.admins = A].ids = I
        /\ [b EXCEPT !.ids = I, !.admins = A].admins = A
    BY <1>1, <2>1, Zenon DEF Tables
  <2> QED
    BY <2>2 DEF TablesOK
<1>4. CASE r.kind = "AddIdentity"
  <2> DEFINE I == b.ids \cup {r.id}
             A == IF r.flag THEN b.admins \cup {r.id} ELSE b.admins
  <2>1. Registry(b, r) = IF r.id \in b.ids THEN b
                         ELSE [b EXCEPT !.ids = I, !.admins = A]
    BY <1>4 DEF Registry
  <2>2. I \in SUBSET Identity /\ A \in SUBSET I
    BY <1>1, <1>4 DEF Tables, Sendable
  <2> HIDE DEF I, A
  <2> QED
    BY <1>3, <2>1, <2>2, Zenon
<1>5. CASE r.kind = "RemoveIdentity"
  <2> DEFINE I == b.ids \ {r.id}
             A == b.admins \ {r.id}
             f == [g \in Group |-> [b.acl[g] EXCEPT ![r.id] = {}]]
             c == [b EXCEPT !.acl = f]
  <2>1. Registry(b, r) = IF r.id \notin b.ids \/ LastOf(b.admins, r.id) THEN b
                         ELSE [b EXCEPT !.ids = I, !.admins = A, !.acl = f]
    BY <1>5 DEF Registry
  <2>2. I \in SUBSET Identity /\ A \in SUBSET I /\ A \in SUBSET Identity
    BY <1>1 DEF Tables
  <2>3. CASE r.id \in b.ids
    <3>1. r.id \in Identity /\ {} \in SUBSET Perm
      BY <1>1, <2>3 DEF Tables
    <3>2. \A g \in Group : [b.acl[g] EXCEPT ![r.id] = {}] \in [Identity -> SUBSET Perm]
      BY <1>1, <3>1, Zenon DEF Tables
    <3>3. f \in [Group -> [Identity -> SUBSET Perm]]
      BY <3>2, Zenon
    <3> HIDE DEF f, I, A
    <3>4. /\ [b EXCEPT !.ids = I, !.admins = A, !.acl = f] \in Tables
          /\ [b EXCEPT !.ids = I, !.admins = A, !.acl = f].ids = I
          /\ [b EXCEPT !.ids = I, !.admins = A, !.acl = f].admins = A
      BY <1>1, <2>2, <3>3, Zenon DEF Tables
    <3> QED
      BY <2>1, <2>2, <3>4, Zenon DEF TablesOK
  <2> QED
    BY <2>1, <2>3, Zenon
<1>6. CASE r.kind = "SetServiceAdmin"
  <2> DEFINE A == IF r.flag THEN b.admins \cup {r.id} ELSE b.admins \ {r.id}
  <2>1. Registry(b, r) =
          IF r.id \notin b.ids \/ (~r.flag /\ LastOf(b.admins, r.id)) THEN b
          ELSE [b EXCEPT !.admins = A]
    BY <1>6 DEF Registry
  <2>2. CASE r.id \in b.ids
    <3>1. A \in SUBSET b.ids /\ b.ids \in SUBSET Identity
      BY <1>1, <2>2 DEF Tables
    <3> HIDE DEF A
    <3>2. [b EXCEPT !.admins = A] = [b EXCEPT !.ids = b.ids, !.admins = A]
      BY <1>1, Zenon DEF Tables
    <3>3. TablesOK([b EXCEPT !.ids = b.ids, !.admins = A])
      BY <1>3, <3>1, Zenon
    <3> QED
      BY <2>1, <3>2, <3>3, Zenon
  <2> QED
    BY <2>1, <2>2, Zenon
<1> QED
  BY <1>2, <1>4, <1>5, <1>6

\* A request keeps the tables; one that replaces a secret finds the version it
\* was made for.
LEMMA AfterFacts ==
  ASSUME NEW b, TablesOK(b), NEW r \in Req, Sendable(r)
  PROVE  /\ TablesOK(After(b, r))
         /\ Replaces(r) /\ After(b, r) # b =>
              /\ r.group \in Group /\ r.name \in Name
              /\ b.secret[r.group][r.name].version = r.shown.version
<1> DEFINE x == r.shown.version
<1>1. x \in Nat /\ r.perms \in SUBSET Perm
  BY DEF Req, Secret
<1>2. ASSUME NEW p, Holds(b, Me, r.group, p)
      PROVE  r.group \in Group
  BY <1>2 DEF Holds, TablesOK, Tables
<1>3. CASE r.kind = "Put" /\ Holds(b, Me, r.group, "write")
  <2>1. r.group \in Group /\ r.name \in Name
    BY <1>2, <1>3 DEF Sendable
  <2>2. After(b, r) = Put(b, r.group, r.name, x)
    BY <1>3 DEF After
  <2> HIDE DEF x
  <2>3. /\ TablesOK(Put(b, r.group, r.name, x))
        /\ Put(b, r.group, r.name, x) # b => b.secret[r.group][r.name].version = x
    BY <1>1, <2>1, PutFacts, Zenon
  <2> QED
    BY <2>1, <2>2, <2>3, Zenon DEF x
<1>4. CASE r.kind = "Delete" /\ Holds(b, Me, r.group, "write")
  <2>1. r.group \in Group /\ r.name \in Name
    BY <1>2, <1>4 DEF Sendable
  <2>2. After(b, r) = Delete(b, r.group, r.name, x)
    BY <1>4 DEF After
  <2> HIDE DEF x
  <2>3. /\ TablesOK(Delete(b, r.group, r.name, x))
        /\ Delete(b, r.group, r.name, x) # b => b.secret[r.group][r.name].version = x
    BY <1>1, <2>1, DeleteFacts, Zenon
  <2> QED
    BY <2>1, <2>2, <2>3, Zenon DEF x
<1>5. CASE r.kind = "Grant" /\ Holds(b, Me, r.group, "admin")
  <2>1. After(b, r) = Grant(b, r.group, r.id, r.perms) /\ ~Replaces(r)
    BY <1>5 DEF After, Replaces
  <2> QED
    BY <1>1, <1>2, <1>5, <2>1, GrantType, Zenon
<1>6. CASE /\ r.kind \in {"CreateGroup", "AddIdentity", "RemoveIdentity", "SetServiceAdmin"}
           /\ Me \in b.admins
  <2>1. After(b, r) = Registry(b, r) /\ ~Replaces(r)
    BY <1>6 DEF After, Replaces
  <2> QED
    BY <1>6, <2>1, RegistryType, Zenon
<1>7. CASE After(b, r) = b
  BY <1>7, Zenon
<1> QED
  BY <1>3, <1>4, <1>5, <1>6, <1>7, Zenon DEF After

-----------------------------------------------------------------------------
(* Requests *)

\* What is left of the requests once the first is made: a request that may only
\* be the first, or the only one, is not among them.
LEMMA TailFacts ==
  ASSUME NEW u, NEW q, NEW h, TodoOK(q), QueueOK(u, q, h), q # <<>>, NEW v, NEW k
  PROVE  /\ Head(q) \in Req /\ Sendable(Head(q)) /\ Head(q) = q[1]
         /\ TodoOK(Tail(q)) /\ QueueOK(v, Tail(q), k)
         /\ \A kind : Carries(q, kind) => Head(q).kind = kind \/ Carries(Tail(q), kind)
<1>1. /\ q \in Seq(Req) /\ Len(q) \in Nat /\ Len(q) >= 1 /\ DOMAIN q = 1..Len(q)
      /\ Head(q) = q[1] /\ q[1] \in Req
  BY DEF TodoOK
<1>2. /\ Tail(q) \in Seq(Req) /\ DOMAIN Tail(q) = 1..(Len(q) - 1)
      /\ \A i \in 1..(Len(q) - 1) : Tail(q)[i] = q[i + 1]
  BY <1>1
<1>3. Sendable(Head(q)) /\ TodoOK(Tail(q))
  <2>1. \A i \in 1..(Len(q) - 1) : i + 1 \in DOMAIN q
    BY <1>1
  <2> QED
    BY <1>1, <1>2, <2>1 DEF TodoOK
<1>4. ASSUME NEW kind, Carries(q, kind), Head(q).kind # kind
      PROVE  Carries(Tail(q), kind)
  <2>1. PICK i \in DOMAIN q : q[i].kind = kind
    BY <1>4 DEF Carries
  <2>2. i - 1 \in 1..(Len(q) - 1) /\ (i - 1) + 1 = i
    BY <1>1, <1>4, <2>1
  <2>3. Tail(q)[i - 1] = q[i]
    BY <1>2, <2>2
  <2> QED
    BY <1>2, <2>1, <2>2, <2>3 DEF Carries
<1>5. QueueOK(v, Tail(q), k)
  <2> SUFFICES ASSUME NEW i \in DOMAIN Tail(q)
               PROVE  /\ Tail(q)[i].kind = "ListGroups" =>
                           \/ Tail(q)[i].flag
                           \/ \E j \in DOMAIN Tail(q) : j > i /\ Tail(q)[j].kind = "List"
                      /\ Tail(q)[i].kind \notin {"ViewSecret", "EditSecret",
                                                 "ListIdentityNames", "Delete"}
                      /\ Tail(q)[i].kind = "Put" /\ Tail(q)[i].shown.version > 0 =>
                           Tail(q)[i].from = Tail(q)[i].group
    BY DEF QueueOK
  <2>1. /\ i \in Nat /\ i >= 1 /\ i + 1 \in DOMAIN q /\ Tail(q)[i] = q[i + 1]
        /\ Len(q) # 1 /\ i + 1 # 1
    BY <1>1, <1>2
  <2>2. /\ q[i + 1].kind = "ListGroups" =>
             q[i + 1].flag \/ \E j \in DOMAIN q : j > i + 1 /\ q[j].kind = "List"
        /\ q[i + 1].kind \in {"ViewSecret", "EditSecret"} => Len(q) = 1
        /\ q[i + 1].kind = "ListIdentityNames" => Len(q) = 1
        /\ q[i + 1].kind = "Put" /\ q[i + 1].shown.version > 0 =>
             q[i + 1].from = q[i + 1].group
        /\ q[i + 1].kind = "Delete" => i + 1 = 1
    BY <2>1, Zenon DEF QueueOK
  <2>3. ASSUME NEW j \in DOMAIN q, j > i + 1, q[j].kind = "List"
        PROVE  \E n \in DOMAIN Tail(q) : n > i /\ Tail(q)[n].kind = "List"
    <3>1. j - 1 \in DOMAIN Tail(q) /\ j - 1 > i /\ (j - 1) + 1 = j
      BY <1>1, <1>2, <2>1, <2>3
    <3>2. Tail(q)[j - 1].kind = "List"
      BY <1>2, <2>3, <3>1
    <3> QED
      BY <3>1, <3>2
  <2> QED
    BY <2>1, <2>2, <2>3, Zenon
<1> QED
  BY <1>1, <1>3, <1>4, <1>5, Zenon

\* the history after the answer to r
RecordOK(r, k) ==
  /\ k \in Hist
  /\ k.pane = IF r.kind = "List" THEN Selected(ui) ELSE hist.pane
  /\ k.behind = CASE r.kind = "List" -> FALSE
                  [] r.kind = "ListGroups" -> hist.behind \/ r.flag
                  [] OTHER -> hist.behind
  /\ \/ r.kind = "GroupAcl" /\ Holds(bunker, Me, ui.aclGroup, "admin")
        /\ k.acl = ui.aclGroup
     \/ /\ ~(r.kind = "GroupAcl" /\ Holds(bunker, Me, ui.aclGroup, "admin"))
        /\ k.acl = hist.acl /\ k.aclBehind = hist.aclBehind
  /\ \/ k.replaced = hist.replaced
     \/ /\ Replaces(r) /\ After(bunker, r) # bunker
        /\ k.replaced = {[asked |-> r, found |-> bunker.secret[r.group][r.name],
                          behind |-> hist.behind]}

\* What the history records of an answer.
LEMMA RecordFacts ==
  ASSUME ScreenInv, NEW r \in Req, Sendable(r)
  PROVE  RecordOK(r, Recorded(r))
<1>1. hist \in Hist /\ ui \in UI /\ TablesOK(bunker)
  BY DEF ScreenInv, Consistent, ScreenOK
<1>2. hist.behind \in BOOLEAN /\ r.flag \in BOOLEAN
  BY <1>1, Zenon DEF Hist, Req
<1>3. CASE r.kind = "List"
  <2> DEFINE g == Selected(ui)
             k == [hist EXCEPT !.pane = g, !.behind = FALSE]
  <2>1. Recorded(r) = k
    BY <1>3 DEF Recorded, Replaces
  <2>2. g \in Group \cup {0}
    BY <1>1, SelectedType, Zenon
  <2> HIDE DEF g
  <2>3. /\ k \in Hist /\ k.pane = g /\ k.behind = FALSE /\ k.acl = hist.acl
        /\ k.aclBehind = hist.aclBehind /\ k.replaced = hist.replaced
    BY <1>1, <2>2, Zenon DEF Hist
  <2> HIDE DEF k
  <2> QED
    BY <1>3, <2>1, <2>3, Zenon DEF RecordOK, g
<1>4. CASE r.kind = "ListGroups"
  <2> DEFINE x == hist.behind \/ r.flag
             k == [hist EXCEPT !.behind = x]
  <2>1. Recorded(r) = k
    BY <1>4 DEF Recorded, Replaces
  <2>2. x \in BOOLEAN
    OBVIOUS
  <2> HIDE DEF x
  <2>3. /\ k \in Hist /\ k.pane = hist.pane /\ k.behind = x /\ k.acl = hist.acl
        /\ k.aclBehind = hist.aclBehind /\ k.replaced = hist.replaced
    BY <1>1, <2>2, Zenon DEF Hist
  <2> HIDE DEF k
  <2> QED
    BY <1>4, <2>1, <2>3, Zenon DEF RecordOK, x
<1>5. CASE r.kind = "GroupAcl" /\ Holds(bunker, Me, ui.aclGroup, "admin")
  <2> DEFINE k == [hist EXCEPT !.acl = ui.aclGroup, !.aclBehind = FALSE]
  <2>1. Recorded(r) = k
    BY <1>5, SMTT(20) DEF Recorded, Replaces
  <2>2. ui.aclGroup \in Group \cup {0}
    BY <1>1 DEF UI
  <2>3. /\ k \in Hist /\ k.pane = hist.pane /\ k.behind = hist.behind
        /\ k.acl = ui.aclGroup /\ k.replaced = hist.replaced
    BY <1>1, <2>2, Zenon DEF Hist
  <2> HIDE DEF k
  <2> QED
    BY <1>5, <2>1, <2>3, Zenon DEF RecordOK
<1>6. CASE Replaces(r) /\ After(bunker, r) # bunker
  <2> DEFINE s == bunker.secret[r.group][r.name]
             x == [asked |-> r, found |-> s, behind |-> hist.behind]
             k == [hist EXCEPT !.replaced = {x}]
  <2>1. Recorded(r) = k /\ r.kind \notin {"List", "ListGroups", "GroupAcl"}
    BY <1>6, Zenon DEF Recorded, Replaces
  <2>2. s \in Secret
    BY <1>1, <1>6, AfterFacts DEF TablesOK, Tables
  <2> HIDE DEF s
  <2>3. x \in Replaced
    BY <1>2, <2>2, Zenon DEF Replaced
  <2> HIDE DEF x
  <2>4. {x} \in SUBSET Replaced
    BY <2>3
  <2>5. /\ k \in Hist /\ k.pane = hist.pane /\ k.behind = hist.behind
        /\ k.acl = hist.acl /\ k.aclBehind = hist.aclBehind /\ k.replaced = {x}
    BY <1>1, <2>4, Zenon DEF Hist
  <2> HIDE DEF k
  <2> QED
    BY <1>6, <2>1, <2>5, Zenon DEF RecordOK, x, s
<1>7. CASE /\ r.kind \notin {"List", "ListGroups"}
           /\ ~(r.kind = "GroupAcl" /\ Holds(bunker, Me, ui.aclGroup, "admin"))
           /\ ~(Replaces(r) /\ After(bunker, r) # bunker)
  <2>1. Recorded(r) = hist
    BY <1>7, Zenon DEF Recorded
  <2> QED
    BY <1>1, <1>7, <2>1, Zenon DEF RecordOK
<1> QED
  BY <1>3, <1>4, <1>5, <1>6, <1>7, Zenon

\* A request keeps the invariant.
LEMMA RequestKeeps ==
  ASSUME ScreenInv, Request
  PROVE  ScreenInv'
<1> DEFINE r == Head(todo)
           q == Tail(todo)
<1>1. /\ TablesOK(bunker) /\ ScreenOK(ui) /\ TodoOK(todo) /\ QueueOK(ui, todo, hist)
      /\ ModeOK(ui, todo, hist) /\ PaneOK(ui, todo, hist) /\ AclOK(ui, todo, hist)
      /\ hist \in Hist /\ events \in 0..MaxEvents /\ ReplacesOnlyWhatWasShown
  BY DEF ScreenInv, Consistent
<1>2. /\ todo # <<>> /\ todo' = q /\ events' = events
      /\ ui' = Answered(ui, bunker, r) /\ bunker' = After(bunker, r) /\ hist' = Recorded(r)
  BY DEF Request
<1>3. /\ r \in Req /\ Sendable(r) /\ r = todo[1]
      /\ TodoOK(q) /\ QueueOK(ui', q, hist')
      /\ \A kind : Carries(todo, kind) => r.kind = kind \/ Carries(q, kind)
  BY <1>1, <1>2, TailFacts, Zenon
<1>4. /\ TablesOK(bunker')
      /\ Replaces(r) /\ After(bunker, r) # bunker =>
           /\ r.group \in Group /\ r.name \in Name
           /\ bunker.secret[r.group][r.name].version = r.shown.version
  BY <1>1, <1>2, <1>3, AfterFacts, Zenon
<1>5. AnswerOK(ui, bunker, r, ui')
  BY <1>1, <1>2, <1>3, AnswerFacts, Zenon
<1>6. RecordOK(r, hist')
  BY <1>2, <1>3, RecordFacts, Zenon
<1>7. /\ 1 \in DOMAIN todo /\ Len(todo) \in Nat /\ DOMAIN todo = 1..Len(todo)
      /\ Len(todo) = 1 => q = <<>>
  BY <1>1, <1>2 DEF TodoOK
<1>8. /\ r.kind = "ListGroups" =>
           r.flag \/ \E j \in DOMAIN todo : j > 1 /\ todo[j].kind = "List"
      /\ r.kind \in {"ViewSecret", "EditSecret"} => Len(todo) = 1 /\ r.from = Selected(ui)
      /\ r.kind = "ListIdentityNames" => ui.mode.kind = "Acl"
      /\ r.kind = "Put" /\ r.shown.version > 0 => r.from = r.group
      /\ r.kind = "Delete" => r.from = r.group \/ hist.behind
  <2> HIDE DEF r
  <2>1. /\ todo[1].kind = "ListGroups" =>
             todo[1].flag \/ \E j \in DOMAIN todo : j > 1 /\ todo[j].kind = "List"
        /\ todo[1].kind \in {"ViewSecret", "EditSecret"} =>
             Len(todo) = 1 /\ todo[1].from = Selected(ui)
        /\ todo[1].kind = "ListIdentityNames" => ui.mode.kind = "Acl"
        /\ todo[1].kind = "Put" /\ todo[1].shown.version > 0 =>
             todo[1].from = todo[1].group
        /\ todo[1].kind = "Delete" => todo[1].from = todo[1].group \/ hist.behind
    BY <1>1, <1>7, Zenon DEF QueueOK
  <2> QED
    BY <1>3, <2>1, Zenon
<1>9. ui.mode.kind \notin {"EditSecret", "DeleteSecret"}
  BY <1>1, <1>2, Zenon DEF ModeOK
<1>10. (\E j \in DOMAIN todo : j > 1 /\ todo[j].kind = "List") => Carries(q, "List")
  <2> SUFFICES ASSUME NEW j \in DOMAIN todo, j > 1, todo[j].kind = "List"
               PROVE  Carries(q, "List")
    OBVIOUS
  <2>1. /\ todo \in Seq(Req) /\ j - 1 \in DOMAIN q /\ q[j - 1] = todo[j]
    BY <1>1, <1>2, <1>7 DEF TodoOK
  <2> QED
    BY <2>1 DEF Carries
<1> HIDE DEF r, q
<1>11. ModeOK(ui', q, hist')
  <2>1. CASE ui'.mode = ui.mode
    BY <1>9, <2>1, Zenon DEF ModeOK
  <2>2. CASE ui'.mode.kind \in {"Normal", "GrantEntry", "GrantPicker"}
    BY <2>2 DEF ModeOK
  <2>3. CASE /\ r.kind \in {"ViewSecret", "EditSecret"}
             /\ ui'.mode.kind = r.kind /\ ui'.mode.from = r.from
    <3>1. q = <<>> /\ r.from = Selected(ui)
      BY <1>7, <1>8, <2>3
    <3>2. Selected(ui') = Selected(ui)
      BY <1>5, <2>3 DEF AnswerOK
    <3> QED
      BY <2>3, <3>1, <3>2 DEF ModeOK
  <2> QED
    BY <1>5, <2>1, <2>2, <2>3, Zenon DEF AnswerOK
<1>12. PaneOK(ui', q, hist')
  <2>1. CASE r.kind = "List"
    <3>1. hist'.pane = Selected(ui) /\ Selected(ui') = Selected(ui)
      BY <1>5, <1>6, <2>1 DEF RecordOK, AnswerOK
    <3> QED
      BY <3>1 DEF PaneOK
  <2>2. CASE r.kind = "ListGroups"
    <3>1. CASE r.flag
      <4>1. hist'.behind
        BY <1>6, <2>2, <3>1, Zenon DEF RecordOK
      <4> QED
        BY <4>1, Zenon DEF PaneOK
    <3>2. CASE ~r.flag
      BY <1>8, <1>10, <2>2, <3>2, Zenon DEF PaneOK
    <3> QED
      BY <3>1, <3>2
  <2>3. CASE r.kind \notin {"List", "ListGroups"}
    <3>1. hist'.pane = hist.pane /\ hist'.behind = hist.behind
      BY <1>6, <2>3, Zenon DEF RecordOK
    <3>2. Selected(ui') = Selected(ui) /\ ui'.secrets = ui.secrets
      BY <1>5, <2>3, Zenon DEF AnswerOK
    <3> QED
      BY <1>1, <1>3, <2>3, <3>1, <3>2, Zenon DEF PaneOK
  <2> QED
    BY <2>1, <2>2, <2>3
<1>13. AclOK(ui', q, hist')
  <2>1. CASE r.kind = "GroupAcl"
    BY <1>5, <1>6, <2>1, Zenon DEF AclOK, AnswerOK, RecordOK, AclMode
  <2>2. CASE r.kind # "GroupAcl"
    <3>1. hist'.acl = hist.acl /\ hist'.aclBehind = hist.aclBehind
      BY <1>6, <2>2, Zenon DEF RecordOK
    <3>2. ui'.aclGroup = ui.aclGroup
      BY <1>5, Zenon DEF AnswerOK
    <3>3. ui'.mode.kind \in AclMode => ui.mode.kind \in AclMode
      BY <1>5, <1>8, <2>2 DEF AnswerOK, AclMode
    <3> QED
      BY <1>1, <1>3, <2>2, <3>1, <3>2, <3>3, Zenon DEF AclOK
  <2> QED
    BY <2>1, <2>2
<1>14. ReplacesOnlyWhatWasShown'
  <2>1. CASE hist'.replaced = hist.replaced
    BY <1>1, <2>1, Zenon DEF ReplacesOnlyWhatWasShown
  <2>2. CASE hist'.replaced # hist.replaced
    <3> DEFINE s == bunker.secret[r.group][r.name]
               x == [asked |-> r, found |-> s, behind |-> hist.behind]
    <3>1. Replaces(r) /\ After(bunker, r) # bunker /\ hist'.replaced = {x}
      BY <1>6, <2>2, ZenonT(30) DEF RecordOK
    <3>2. s.version = r.shown.version /\ s \in Secret /\ r.shown \in Secret
      BY <1>1, <1>3, <1>4, <3>1 DEF TablesOK, Tables, Req
    <3>3. s = r.shown \/ s.life # r.shown.life
      <4> HIDE DEF s
      <4> QED
        BY <3>2 DEF Secret
    <3>4. r.from = r.group \/ (r.kind = "Delete" /\ hist.behind)
      BY <1>8, <3>1 DEF Replaces
    <3>5. x.asked = r /\ x.found = s /\ x.behind = hist.behind
      BY Zenon
    <3> HIDE DEF x, s
    <3> QED
      BY <3>1, <3>3, <3>4, <3>5, Zenon DEF ReplacesOnlyWhatWasShown
  <2> QED
    BY <2>1, <2>2
<1>15. ScreenOK(ui') /\ hist' \in Hist
  BY <1>5, <1>6 DEF AnswerOK, RecordOK
<1> QED
  BY <1>1, <1>2, <1>3, <1>4, <1>11, <1>12, <1>13, <1>14, <1>15, Zenon
  DEF ScreenInv, Consistent

\* So does one that fails, before or after the node has acted on it: the lists
\* stay, and are known to be behind if they were to be fetched.
LEMMA TransportErrorKeeps ==
  ASSUME ScreenInv, TransportError
  PROVE  ScreenInv'
<1> DEFINE r == Head(todo)
           q == Tail(todo)
           x == hist.behind \/ r.kind = "List"
           y == hist.aclBehind \/ r.kind = "GroupAcl"
<1>1. /\ TablesOK(bunker) /\ ScreenOK(ui) /\ TodoOK(todo) /\ QueueOK(ui, todo, hist)
      /\ ModeOK(ui, todo, hist) /\ PaneOK(ui, todo, hist) /\ AclOK(ui, todo, hist)
      /\ hist \in Hist /\ events \in 0..MaxEvents /\ ReplacesOnlyWhatWasShown
  BY DEF ScreenInv, Consistent
<1>2. /\ todo # <<>> /\ todo' = q /\ events < MaxEvents /\ events' = events + 1
      /\ ui' = ui /\ bunker' \in {bunker, After(bunker, r)}
      /\ hist' = [hist EXCEPT !.behind = x, !.aclBehind = y]
  BY Zenon DEF TransportError
<1>3. /\ r \in Req /\ Sendable(r)
      /\ TodoOK(q) /\ QueueOK(ui, q, hist')
      /\ \A kind : Carries(todo, kind) => r.kind = kind \/ Carries(q, kind)
  BY <1>1, <1>2, TailFacts, Zenon
<1>4. TablesOK(bunker')
  BY <1>1, <1>2, <1>3, AfterFacts, Zenon
<1>5. x \in BOOLEAN /\ y \in BOOLEAN
  BY Zenon
<1> HIDE DEF x, y, r, q
<1>6. /\ hist' \in Hist /\ hist'.pane = hist.pane /\ hist'.behind = x
      /\ hist'.acl = hist.acl /\ hist'.aclBehind = y /\ hist'.replaced = hist.replaced
  BY <1>1, <1>2, <1>5, Zenon DEF Hist
<1>7. ModeOK(ui, q, hist')
  BY <1>1, <1>2, Zenon DEF ModeOK
<1>8. PaneOK(ui, q, hist')
  BY <1>1, <1>3, <1>6, Zenon DEF PaneOK, x
<1>9. AclOK(ui, q, hist')
  BY <1>1, <1>3, <1>6, Zenon DEF AclOK, y
<1>10. ReplacesOnlyWhatWasShown'
  BY <1>1, <1>6, Zenon DEF ReplacesOnlyWhatWasShown
<1>11. events' \in 0..MaxEvents
  BY <1>1, <1>2, TuiConstants
<1> QED
  BY <1>1, <1>2, <1>3, <1>4, <1>6, <1>7, <1>8, <1>9, <1>10, <1>11, ZenonT(30)
  DEF ScreenInv, Consistent

\* What others change is not on the screen.
LEMMA OtherClientKeeps ==
  ASSUME ScreenInv, OtherClient
  PROVE  ScreenInv'
<1>1. /\ TablesOK(bunker) /\ Consistent(ui, todo, hist) /\ hist \in Hist
      /\ events \in 0..MaxEvents /\ ReplacesOnlyWhatWasShown
  BY DEF ScreenInv
<1>2. /\ bunker' \in Other(bunker) /\ ui' = ui /\ todo' = todo /\ hist' = hist
      /\ events < MaxEvents /\ events' = events + 1
  BY DEF OtherClient
<1>3. TablesOK(bunker')
  <2>1. CASE \E g \in bunker.groups, n \in Name :
               bunker' = Put(bunker, g, n, bunker.secret[g][n].version)
    <3>1. PICK g \in bunker.groups, n \in Name :
            bunker' = Put(bunker, g, n, bunker.secret[g][n].version)
      BY <2>1
    <3> DEFINE x == bunker.secret[g][n].version
    <3>2. g \in Group /\ x \in Nat
      BY <1>1 DEF TablesOK, Tables, Secret
    <3> HIDE DEF x
    <3> QED
      BY <1>1, <3>1, <3>2, PutFacts, Zenon DEF x
  <2>2. CASE \E g \in bunker.groups, n \in Name :
               bunker' = Delete(bunker, g, n, bunker.secret[g][n].version)
    <3>1. PICK g \in bunker.groups, n \in Name :
            bunker' = Delete(bunker, g, n, bunker.secret[g][n].version)
      BY <2>2
    <3> DEFINE x == bunker.secret[g][n].version
    <3>2. g \in Group /\ x \in Nat
      BY <1>1 DEF TablesOK, Tables, Secret
    <3> HIDE DEF x
    <3> QED
      BY <1>1, <3>1, <3>2, DeleteFacts, Zenon DEF x
  <2>3. CASE \E g \in bunker.groups, e \in Identity, p \in Typed :
               bunker' = Grant(bunker, g, e, p)
    <3>1. PICK g \in bunker.groups, e \in Identity, p \in Typed :
            bunker' = Grant(bunker, g, e, p)
      BY <2>3
    <3>2. g \in Group /\ p \in SUBSET Perm
      BY <1>1, TuiConstants DEF TablesOK, Tables, Perm
    <3> QED
      BY <1>1, <3>1, <3>2, GrantType, Zenon
  <2> QED
    BY <1>2, <2>1, <2>2, <2>3 DEF Other
<1>4. events' \in 0..MaxEvents
  BY <1>1, <1>2, TuiConstants
<1>5. ReplacesOnlyWhatWasShown'
  BY <1>1, <1>2, Zenon DEF ReplacesOnlyWhatWasShown
<1> QED
  BY <1>1, <1>2, <1>3, <1>4, <1>5, Zenon DEF ScreenInv

-----------------------------------------------------------------------------
(* Keys *)

\* A key keeps the invariant if what it leaves on the screen and the requests it
\* makes go together.
LEMMA DoKeeps ==
  ASSUME ScreenInv, NEW u, NEW q, Do(u, q), Consistent(u, q, hist)
  PROVE  ScreenInv'
<1> DEFINE n == Cardinality({i \in DOMAIN q : q[i].kind \in Changes})
<1>1. /\ ui' = u /\ todo' = q /\ bunker' = bunker /\ events' = events + n
      /\ events' <= MaxEvents /\ hist' = [hist EXCEPT !.replaced = {}]
  BY Zenon DEF Do
<1>2. n \in Nat
  <2> DEFINE S == {i \in DOMAIN q : q[i].kind \in Changes}
  <2>1. q \in Seq(Req)
    BY DEF Consistent, TodoOK
  <2>2. DOMAIN q = 1..Len(q) /\ Len(q) \in Nat
    BY <2>1
  <2>3. IsFiniteSet(1..Len(q))
    BY <2>2, FS_Interval
  <2>4. S \subseteq 1..Len(q)
    BY <2>2
  <2> HIDE DEF S
  <2>5. Cardinality(S) \in Nat
    BY <2>3, <2>4, FS_Subset, FS_CardinalityType, Zenon
  <2> QED
    BY <2>5 DEF S
<1>3. TablesOK(bunker) /\ hist \in Hist /\ events \in 0..MaxEvents
  BY DEF ScreenInv
<1>4. /\ hist' \in Hist /\ hist'.pane = hist.pane /\ hist'.behind = hist.behind
      /\ hist'.acl = hist.acl /\ hist'.aclBehind = hist.aclBehind /\ hist'.replaced = {}
  BY <1>1, <1>3, Zenon DEF Hist
<1> HIDE DEF n
<1>5. events' \in 0..MaxEvents
  BY <1>1, <1>2, <1>3, TuiConstants
<1>6. ReplacesOnlyWhatWasShown'
  BY <1>4, Zenon DEF ReplacesOnlyWhatWasShown
<1>7. Consistent(u, q, hist')
  <2>1. QueueOK(u, q, hist')
    BY <1>4, Zenon DEF Consistent, QueueOK
  <2>2. ModeOK(u, q, hist') /\ PaneOK(u, q, hist') /\ AclOK(u, q, hist')
    BY <1>4, Zenon DEF Consistent, ModeOK, PaneOK, AclOK
  <2> QED
    BY <2>1, <2>2, Zenon DEF Consistent
<1> QED
  BY <1>1, <1>3, <1>4, <1>5, <1>6, <1>7, Zenon DEF ScreenInv

\* A key that leaves the lists as they are, and the group they are of.
LEMMA KeyKeeps ==
  ASSUME ScreenInv, todo = <<>>, NEW u, NEW q, Do(u, q),
         ScreenOK(u), SameView(ui, u), u.mode.kind \in AclMode => ui.mode.kind \in AclMode,
         TodoOK(q), QueueOK(u, q, hist), ModeOK(u, q, hist)
  PROVE  ScreenInv'
<1>1. PaneOK(ui, <<>>, hist) /\ AclOK(ui, <<>>, hist)
  BY DEF ScreenInv, Consistent
<1>2. \A kind : ~Carries(<<>>, kind)
  BY DEF Carries
<1>3. PaneOK(u, q, hist)
  BY <1>1, <1>2, Zenon DEF PaneOK, SameView
<1>4. AclOK(u, q, hist)
  BY <1>1, <1>2, Zenon DEF AclOK, SameView
<1>5. Consistent(u, q, hist)
  BY <1>3, <1>4, Zenon DEF Consistent
<1> QED
  BY <1>5, DoKeeps, Zenon

\* A selection moved up or down goes around in its list.
LEMMA MovedInRange ==
  ASSUME NEW S, NEW list \in Seq(S), list # <<>>, NEW sel \in Nat, NEW d \in {1, 0 - 1}
  PROVE  Moved(sel, d, list) \in Nat /\ InRange(Moved(sel, d, list), list)
<1>1. Len(list) \in Nat /\ Len(list) > 0 /\ sel + Len(list) + d \in Nat
  OBVIOUS
<1>2. \A x, y \in Nat : y > 0 => x % y \in Nat /\ x % y < y
  OBVIOUS
<1> QED
  BY <1>1, <1>2 DEF Moved, InRange

\* a request that depends on nothing
Plain(r) ==
  /\ r \in Req /\ Sendable(r)
  /\ r.kind \notin {"ListGroups", "ViewSecret", "EditSecret", "ListIdentityNames",
                    "Put", "Delete"}

\* a change, which a list may follow
Change(r, h) ==
  /\ r \in Req /\ Sendable(r)
  /\ r.kind \notin {"ListGroups", "ViewSecret", "EditSecret", "ListIdentityNames"}
  /\ r.kind = "Put" /\ r.shown.version > 0 => r.from = r.group
  /\ r.kind = "Delete" => r.from = r.group \/ h.behind

\* Most keys make no request.
LEMMA NoRequest ==
  ASSUME NEW u, NEW h
  PROVE  TodoOK(<<>>) /\ QueueOK(u, <<>>, h)
BY DEF TodoOK, QueueOK

\* A request of its own: a Get for the selected group, the names on the ACL
\* screen, or one that depends on nothing.
LEMMA OneRequest ==
  ASSUME NEW u, NEW h, NEW r \in Req, Sendable(r), r.kind # "ListGroups",
         Change(r, h)
         \/ (r.kind \in {"ViewSecret", "EditSecret"} /\ r.from = Selected(u))
         \/ (r.kind = "ListIdentityNames" /\ u.mode.kind = "Acl")
  PROVE  TodoOK(<<r>>) /\ QueueOK(u, <<r>>, h)
<1> DEFINE q == <<r>>
<1>1. q \in Seq(Req) /\ Len(q) = 1 /\ DOMAIN q = {1} /\ q[1] = r
  OBVIOUS
<1> HIDE DEF q
<1>2. TodoOK(q)
  BY <1>1 DEF TodoOK
<1>3. QueueOK(u, q, h)
  BY <1>1 DEF QueueOK, Change
<1> QED
  BY <1>2, <1>3 DEF q

\* A change and the list that shows it.
LEMMA TwoRequests ==
  ASSUME NEW u, NEW h, NEW r, NEW s, Change(r, h), Plain(s)
  PROVE  TodoOK(<<r, s>>) /\ QueueOK(u, <<r, s>>, h)
<1> DEFINE q == <<r, s>>
<1>1. q \in Seq(Req) /\ Len(q) = 2 /\ DOMAIN q = {1, 2} /\ q[1] = r /\ q[2] = s
  BY DEF Change, Plain
<1> HIDE DEF q
<1>2. TodoOK(q)
  BY <1>1 DEF TodoOK, Change, Plain
<1>3. QueueOK(u, q, h)
  BY <1>1 DEF QueueOK, Change, Plain
<1> QED
  BY <1>2, <1>3 DEF q

\* Two sequences, one after the other.
Joined(a, b, q) ==
  /\ q \in Seq(Req) /\ Len(q) = Len(a) + Len(b)
  /\ \A i \in 1..Len(a) : q[i] = a[i]
  /\ \A i \in 1..Len(b) : q[Len(a) + i] = b[i]

\* \o joins its arguments.
LEMMA ConcatFacts ==
  ASSUME NEW a \in Seq(Req), NEW b \in Seq(Req)
  PROVE  Joined(a, b, a \o b)
BY SMTT(20) DEF Joined

\* refresh_groups and refresh_secrets, and both after create_group.
LEMMA ListRequests ==
  ASSUME NEW u, NEW h, NEW r, Plain(r)
  PROVE  /\ TodoOK(Lists) /\ QueueOK(u, Lists, h)
         /\ TodoOK(<<r>> \o Lists) /\ QueueOK(u, <<r>> \o Lists, h)
<1> DEFINE g == Ask("ListGroups")
           s == Ask("List")
<1>1. g \in Req /\ g.kind = "ListGroups" /\ s \in Req /\ s.kind = "List"
  BY AskFacts, Zenon DEF Kind
<1>2. Sendable(g) /\ Sendable(s)
  <2> HIDE DEF g, s
  <2> QED
    BY <1>1 DEF Sendable
<1>3. Lists = <<g, s>>
  BY DEF Lists
<1> HIDE DEF g, s
<1>4. TodoOK(<<g, s>>) /\ QueueOK(u, <<g, s>>, h)
  <2> DEFINE q == <<g, s>>
  <2>1. q \in Seq(Req) /\ Len(q) = 2 /\ DOMAIN q = {1, 2} /\ q[1] = g /\ q[2] = s
    BY <1>1
  <2> HIDE DEF q
  <2>2. TodoOK(q)
    BY <1>2, <2>1 DEF TodoOK
  <2>3. QueueOK(u, q, h)
    BY <1>1, <2>1 DEF QueueOK
  <2> QED
    BY <2>2, <2>3 DEF q
<1>5. TodoOK(<<r>> \o <<g, s>>) /\ QueueOK(u, <<r>> \o <<g, s>>, h)
  <2> DEFINE a == <<r>>
             b == <<g, s>>
             q == a \o b
  <2>1. a \in Seq(Req) /\ Len(a) = 1 /\ a[1] = r
    BY DEF Plain
  <2>2. b \in Seq(Req) /\ Len(b) = 2 /\ b[1] = g /\ b[2] = s
    BY <1>1
  <2> HIDE DEF a, b
  <2>3. q \in Seq(Req) /\ Len(q) = 3 /\ q[1] = r /\ q[2] = g /\ q[3] = s
    <3>1. Joined(a, b, q)
      BY <2>1, <2>2, ConcatFacts, Zenon
    <3> HIDE DEF q
    <3>2. q[1] = a[1] /\ q[1 + 1] = b[1] /\ q[1 + 2] = b[2]
      BY <2>1, <2>2, <3>1 DEF Joined
    <3> QED
      BY <2>1, <2>2, <3>1, <3>2 DEF Joined
  <2>4. DOMAIN q = {1, 2, 3}
    BY <2>3
  <2> HIDE DEF q
  <2>5. TodoOK(q)
    BY <1>2, <2>3, <2>4 DEF TodoOK, Plain
  <2>6. QueueOK(u, q, h)
    BY <1>1, <2>3, <2>4 DEF QueueOK, Plain
  <2> QED
    BY <2>5, <2>6 DEF q, a, b
<1> QED
  BY <1>3, <1>4, <1>5, Zenon

\* A change on the ACL screen and the two lists fetched after it.
LEMMA GrantRequests ==
  ASSUME NEW u, NEW h, NEW e \in Identity, NEW p \in SUBSET Perm, ui \in UI
  PROVE  TodoOK(GrantAnd(e, p)) /\ QueueOK(u, GrantAnd(e, p), h)
<1> DEFINE r == [Ask("Grant") EXCEPT !.group = ui.aclGroup, !.id = e, !.perms = p]
           s == Ask("GroupAcl")
           g == [Ask("ListGroups") EXCEPT !.flag = TRUE]
           q == <<r, s, g>>
<1>1. /\ Ask("Grant") \in Req /\ Ask("Grant").kind = "Grant"
      /\ Ask("ListGroups") \in Req /\ Ask("ListGroups").kind = "ListGroups"
      /\ s \in Req /\ s.kind = "GroupAcl"
  BY AskFacts, Zenon DEF Kind, Changes
<1>2. ui.aclGroup \in Group \cup {0}
  BY DEF UI
<1>3. r \in Req /\ r.kind = "Grant" /\ g \in Req /\ g.kind = "ListGroups" /\ g.flag = TRUE
  BY <1>1, <1>2, Zenon DEF Req
<1>4. q = GrantAnd(e, p)
  BY Zenon DEF GrantAnd
<1> HIDE DEF r, s, g
<1>5. Sendable(r) /\ Sendable(s) /\ Sendable(g)
  BY <1>1, <1>3 DEF Sendable
<1>6. /\ q \in Seq(Req) /\ Len(q) = 3 /\ DOMAIN q = {1, 2, 3}
      /\ q[1] = r /\ q[2] = s /\ q[3] = g
  BY <1>1, <1>3
<1> HIDE DEF q
<1>7. TodoOK(q)
  BY <1>5, <1>6 DEF TodoOK
<1>8. QueueOK(u, q, h)
  <2>1. g.flag
    BY <1>3, Zenon
  <2> QED
    BY <1>1, <1>3, <1>6, <2>1 DEF QueueOK
<1> QED
  BY <1>4, <1>7, <1>8, Zenon

\* A key that opens or leaves a screen.
LEMMA ModeKey ==
  ASSUME ScreenInv, todo = <<>>, NEW m, ModeType(m), m.kind # "EditSecret",
         m.kind \in AclMode => ui.mode.kind \in AclMode,
         NEW q, Do(Mode(m), q), TodoOK(q), QueueOK(Mode(m), q, hist),
         m.kind = "DeleteSecret" => q = <<>> /\ ui.secrets # <<>> /\ m.from = hist.pane
  PROVE  ScreenInv'
<1> DEFINE u == Mode(m)
<1>1. ScreenOK(ui)
  BY DEF ScreenInv, Consistent
<1>2. ModeSet(ui, u, m)
  BY <1>1, SetMode, Zenon DEF Mode
<1> HIDE DEF u
<1>3. ScreenOK(u) /\ SameView(ui, u) /\ u.mode = m
  BY <1>2 DEF ModeSet
<1>4. ModeOK(u, q, hist)
  BY <1>3, Zenon DEF ModeOK, SameView
<1>5. Do(u, q) /\ QueueOK(u, q, hist)
  BY DEF u
<1>6. u.mode.kind \in AclMode => ui.mode.kind \in AclMode
  BY <1>3, Zenon
<1> QED
  BY <1>3, <1>4, <1>5, <1>6, KeyKeeps, Zenon

\* One that opens or leaves a screen without a subject.
LEMMA AskKey ==
  ASSUME ScreenInv, todo = <<>>, NEW k \in ModeKind \ {"EditSecret", "DeleteSecret"},
         k \in AclMode => ui.mode.kind \in AclMode,
         NEW q, Do(Mode(Ask(k)), q), TodoOK(q), QueueOK(Mode(Ask(k)), q, hist)
  PROVE  ScreenInv'
<1>1. ModeType(Ask(k)) /\ Ask(k).kind = k
  BY AskMode, Zenon
<1> DEFINE m == Ask(k)
<1> HIDE DEF m
<1>2. /\ ModeType(m) /\ m.kind \notin {"EditSecret", "DeleteSecret"}
      /\ m.kind \in AclMode => ui.mode.kind \in AclMode
      /\ Do(Mode(m), q) /\ QueueOK(Mode(m), q, hist)
  BY <1>1, Zenon DEF m
<1> QED
  BY <1>2, ModeKey, Zenon

\* One that stays on its screen.
LEMMA ViewKey ==
  ASSUME ScreenInv, todo = <<>>, ui.mode.kind \notin {"EditSecret", "DeleteSecret"},
         NEW u, ViewKept(ui, u), NEW q, Do(u, q), TodoOK(q), QueueOK(u, q, hist)
  PROVE  ScreenInv'
<1>1. ScreenOK(u) /\ SameView(ui, u) /\ u.mode = ui.mode
  BY DEF ViewKept
<1>2. ModeOK(u, q, hist)
  BY <1>1, Zenon DEF ModeOK
<1> QED
  BY <1>1, <1>2, KeyKeeps, Zenon

\* A plain request is a change as far as the requests after it are concerned.
LEMMA AskPlain ==
  ASSUME NEW k \in {"List", "ListIdentities", "GroupAcl"}, NEW h
  PROVE  /\ Plain(Ask(k)) /\ Change(Ask(k), h) /\ Ask(k) \in Req /\ Sendable(Ask(k))
         /\ Ask(k).kind = k
<1>1. Ask(k) \in Req /\ Ask(k).kind = k
  BY AskFacts, Zenon DEF Kind
<1> DEFINE r == Ask(k)
<1> HIDE DEF r
<1>2. r \in Req /\ r.kind = k
  BY <1>1 DEF r
<1>3. Plain(r) /\ Change(r, h) /\ Sendable(r)
  BY <1>2, SMTT(20) DEF Plain, Change, Sendable
<1> QED
  BY <1>2, <1>3, Zenon DEF r

\* j and k.
LEMMA MoveSelectionKeeps ==
  ASSUME ScreenInv, MoveSelection
  PROVE  ScreenInv'
<1>1. ScreenOK(ui) /\ ui \in UI
  BY DEF ScreenInv, Consistent, ScreenOK
<1>2. PICK d \in {1, 0 - 1} :
        \/ /\ In({"Normal"}) /\ ui.focus = "Groups" /\ ui.groups # <<>>
           /\ Do([ui EXCEPT !.gsel = Moved(@, d, ui.groups), !.ssel = 0], <<Ask("List")>>)
        \/ /\ In({"Normal"}) /\ ui.focus = "Secrets" /\ ui.secrets # <<>>
           /\ Do([ui EXCEPT !.ssel = Moved(@, d, ui.secrets)], <<>>)
        \/ /\ In({"Identities"}) /\ ui.identities # <<>>
           /\ Do([ui EXCEPT !.isel = Moved(@, d, ui.identities)], <<>>)
        \/ /\ In({"Acl"}) /\ ui.acl # <<>>
           /\ Do([ui EXCEPT !.asel = Moved(@, d, ui.acl)], <<>>)
        \/ /\ In({"GrantPicker"}) /\ ui.candidates # <<>>
           /\ Do([ui EXCEPT !.csel = Moved(@, d, ui.candidates)], <<>>)
  BY Zenon DEF MoveSelection
<1>3. /\ ui.groups \in Seq(Group) /\ ui.gsel \in Nat
      /\ ui.secrets \in Seq(Name \X Secret) /\ ui.ssel \in Nat
      /\ ui.identities \in Seq(Identity \X BOOLEAN) /\ ui.isel \in Nat
      /\ ui.acl \in Seq(Identity \X SUBSET Perm) /\ ui.asel \in Nat
      /\ ui.candidates \in Seq(Identity) /\ ui.csel \in Nat
  BY <1>1 DEF UI
<1>4. \A u : TodoOK(<<>>) /\ QueueOK(u, <<>>, hist)
  BY NoRequest, Zenon
<1>5. CASE /\ In({"Normal"}) /\ ui.focus = "Groups" /\ ui.groups # <<>>
           /\ Do([ui EXCEPT !.gsel = Moved(@, d, ui.groups), !.ssel = 0], <<Ask("List")>>)
  <2> DEFINE k == Moved(ui.gsel, d, ui.groups)
             u == [ui EXCEPT !.gsel = k, !.ssel = 0]
             q == <<Ask("List")>>
  <2>1. k \in Nat /\ InRange(k, ui.groups)
    BY <1>3, <1>5, MovedInRange, Zenon
  <2>2. Do(u, q) /\ ui.mode.kind = "Normal"
    BY <1>5, Zenon DEF In
  <2> HIDE DEF k
  <2>3. GroupMoved(ui, u)
    BY <1>1, <2>1, SetGroup, Zenon
  <2> HIDE DEF u
  <2>4. TodoOK(q) /\ QueueOK(u, q, hist)
    <3>1. /\ Change(Ask("List"), hist) /\ Ask("List") \in Req /\ Sendable(Ask("List"))
          /\ Ask("List").kind = "List"
      BY AskPlain, Zenon
    <3> QED
      BY <3>1, OneRequest, Zenon
  <2>5. Carries(q, "List")
    <3>1. Ask("List").kind = "List" /\ DOMAIN q = {1} /\ q[1] = Ask("List")
      BY AskPlain
    <3> QED
      BY <3>1, Zenon DEF Carries
  <2> HIDE DEF q
  <2>6. ModeOK(u, q, hist) /\ PaneOK(u, q, hist) /\ AclOK(u, q, hist)
    BY <2>2, <2>3, <2>5 DEF GroupMoved, ModeOK, PaneOK, AclOK, AclMode
  <2>7. Consistent(u, q, hist)
    BY <2>3, <2>4, <2>6 DEF Consistent, GroupMoved
  <2> QED
    BY <2>2, <2>7, DoKeeps, Zenon
<1>6. CASE /\ In({"Normal"}) /\ ui.focus = "Secrets" /\ ui.secrets # <<>>
           /\ Do([ui EXCEPT !.ssel = Moved(@, d, ui.secrets)], <<>>)
  <2> DEFINE k == Moved(ui.ssel, d, ui.secrets)
             u == [ui EXCEPT !.secrets = ui.secrets, !.ssel = k]
  <2>1. k \in Nat /\ InRange(k, ui.secrets)
    BY <1>3, <1>6, MovedInRange, Zenon
  <2>2. Do([ui EXCEPT !.ssel = k], <<>>) /\ ui.mode.kind = "Normal" /\ todo = <<>>
    BY <1>6, Zenon DEF In
  <2> HIDE DEF k
  <2>3. u = [ui EXCEPT !.ssel = k] /\ u.secrets = ui.secrets
    BY <1>1, Zenon DEF UI
  <2>4. OtherPaneKept(ui, u)
    BY <1>1, <2>1, SetSecrets, Zenon DEF ScreenOK
  <2> HIDE DEF u
  <2>5. ViewKept(ui, u)
    BY <2>3, <2>4, Zenon DEF OtherPaneKept, ViewKept, SameView
  <2>6. Do(u, <<>>) /\ ui.mode.kind \notin {"EditSecret", "DeleteSecret"}
    BY <2>2, <2>3, Zenon
  <2> QED
    BY <1>4, <2>2, <2>5, <2>6, ViewKey, Zenon
<1>7. CASE /\ In({"Identities"}) /\ ui.identities # <<>>
           /\ Do([ui EXCEPT !.isel = Moved(@, d, ui.identities)], <<>>)
  <2> DEFINE k == Moved(ui.isel, d, ui.identities)
             u == [ui EXCEPT !.identities = ui.identities, !.isel = k]
  <2>1. k \in Nat /\ InRange(k, ui.identities)
    BY <1>3, <1>7, MovedInRange, Zenon
  <2>2. Do([ui EXCEPT !.isel = k], <<>>) /\ ui.mode.kind = "Identities" /\ todo = <<>>
    BY <1>7, Zenon DEF In
  <2> HIDE DEF k
  <2>3. u = [ui EXCEPT !.isel = k]
    BY <1>1, Zenon DEF UI
  <2>4. ViewKept(ui, u)
    BY <1>1, <1>3, <2>1, SetIdentities, Zenon
  <2> HIDE DEF u
  <2>5. Do(u, <<>>) /\ ui.mode.kind \notin {"EditSecret", "DeleteSecret"}
    BY <2>2, <2>3, Zenon
  <2> QED
    BY <1>4, <2>2, <2>4, <2>5, ViewKey, Zenon
<1>8. CASE /\ In({"Acl"}) /\ ui.acl # <<>>
           /\ Do([ui EXCEPT !.asel = Moved(@, d, ui.acl)], <<>>)
  <2> DEFINE k == Moved(ui.asel, d, ui.acl)
             u == [ui EXCEPT !.acl = ui.acl, !.asel = k]
  <2>1. k \in Nat /\ InRange(k, ui.acl)
    BY <1>3, <1>8, MovedInRange, Zenon
  <2>2. Do([ui EXCEPT !.asel = k], <<>>) /\ ui.mode.kind = "Acl" /\ todo = <<>>
    BY <1>8, Zenon DEF In
  <2> HIDE DEF k
  <2>3. u = [ui EXCEPT !.asel = k]
    BY <1>1, Zenon DEF UI
  <2>4. ViewKept(ui, u)
    BY <1>1, <1>3, <2>1, SetAcl, Zenon
  <2> HIDE DEF u
  <2>5. Do(u, <<>>) /\ ui.mode.kind \notin {"EditSecret", "DeleteSecret"}
    BY <2>2, <2>3, Zenon
  <2> QED
    BY <1>4, <2>2, <2>4, <2>5, ViewKey, Zenon
<1>9. CASE /\ In({"GrantPicker"}) /\ ui.candidates # <<>>
           /\ Do([ui EXCEPT !.csel = Moved(@, d, ui.candidates)], <<>>)
  <2> DEFINE k == Moved(ui.csel, d, ui.candidates)
             u == [ui EXCEPT !.candidates = ui.candidates, !.csel = k]
  <2>1. k \in Nat /\ InRange(k, ui.candidates)
    BY <1>3, <1>9, MovedInRange, Zenon
  <2>2. /\ Do([ui EXCEPT !.csel = k], <<>>) /\ ui.mode.kind = "GrantPicker"
        /\ todo = <<>>
    BY <1>9, Zenon DEF In
  <2> HIDE DEF k
  <2>3. u = [ui EXCEPT !.csel = k]
    BY <1>1, Zenon DEF UI
  <2>4. ViewKept(ui, u)
    BY <1>1, <1>3, <2>1, SetCandidates, Zenon
  <2> HIDE DEF u
  <2>5. Do(u, <<>>) /\ ui.mode.kind \notin {"EditSecret", "DeleteSecret"}
    BY <2>2, <2>3, Zenon
  <2> QED
    BY <1>4, <2>2, <2>4, <2>5, ViewKey, Zenon
<1> QED
  BY <1>2, <1>5, <1>6, <1>7, <1>8, <1>9, Zenon

\* The screen between two keys.
LEMMA BetweenKeys ==
  ASSUME ScreenInv
  PROVE  /\ ScreenOK(ui) /\ ui \in UI /\ hist \in Hist /\ ModeType(ui.mode)
         /\ ViewKept(ui, ui) /\ Selected(ui) \in Group \cup {0}
         /\ \A u : TodoOK(<<>>) /\ QueueOK(u, <<>>, hist)
<1>1. ScreenOK(ui) /\ ui \in UI /\ hist \in Hist /\ ModeType(ui.mode)
  BY DEF ScreenInv, Consistent, ScreenOK
<1>2. ViewKept(ui, ui)
  BY <1>1, Zenon DEF ViewKept, SameView
<1>3. Selected(ui) \in Group \cup {0}
  BY <1>1, SelectedType, Zenon
<1>4. \A u : TodoOK(<<>>) /\ QueueOK(u, <<>>, hist)
  BY NoRequest, Zenon
<1> QED
  BY <1>1, <1>2, <1>3, <1>4, Zenon

\* r and Enter.
LEMMA RefreshKeeps ==
  ASSUME ScreenInv, Refresh
  PROVE  ScreenInv'
<1>1. ViewKept(ui, ui)
  BY BetweenKeys, Zenon
<1>2. /\ todo = <<>> /\ ui.mode.kind \notin {"EditSecret", "DeleteSecret"}
      /\ Do(ui, Lists) \/ Do(ui, <<Ask("List")>>)
  BY DEF Refresh, In
<1>3. Plain(Ask("List")) /\ Change(Ask("List"), hist) /\ Ask("List") \in Req
      /\ Sendable(Ask("List")) /\ Ask("List").kind = "List"
  BY AskPlain, Zenon
<1>4. TodoOK(Lists) /\ QueueOK(ui, Lists, hist)
  BY <1>3, ListRequests, Zenon
<1>5. TodoOK(<<Ask("List")>>) /\ QueueOK(ui, <<Ask("List")>>, hist)
  BY <1>3, OneRequest, Zenon
<1>6. CASE Do(ui, Lists)
  BY <1>1, <1>2, <1>4, <1>6, ViewKey, Zenon
<1>7. CASE Do(ui, <<Ask("List")>>)
  BY <1>1, <1>2, <1>5, <1>7, ViewKey, Zenon
<1> QED
  BY <1>2, <1>6, <1>7

\* The keys of the browser that open something.
LEMMA OnKeyNormalKeeps ==
  ASSUME ScreenInv, OnKeyNormal
  PROVE  ScreenInv'
<1>1. /\ ScreenOK(ui) /\ ui \in UI /\ hist \in Hist /\ Selected(ui) \in Group \cup {0}
      /\ \A u : TodoOK(<<>>) /\ QueueOK(u, <<>>, hist)
  BY BetweenKeys, Zenon
<1>2. todo = <<>> /\ ui.mode.kind = "Normal"
  BY DEF OnKeyNormal, In
<1>3. ASSUME NEW k \in {"Quit", "Help", "NewGroup", "NewSecret"}, Do(Mode(Ask(k)), <<>>)
      PROVE  ScreenInv'
  <2>1. k \in ModeKind \ {"EditSecret", "DeleteSecret"} /\ k \notin AclMode
    BY DEF ModeKind, AclMode
  <2> QED
    BY <1>1, <1>2, <1>3, <2>1, AskKey, Zenon
<1>4. CASE Do([ui EXCEPT !.focus = IF @ = "Groups" THEN "Secrets" ELSE "Groups"], <<>>)
  <2> DEFINE f == IF ui.focus = "Groups" THEN "Secrets" ELSE "Groups"
             u == [ui EXCEPT !.focus = f]
  <2>1. f \in {"Groups", "Secrets"} /\ Do(u, <<>>)
    BY <1>4, Zenon
  <2> HIDE DEF f
  <2>2. ViewKept(ui, u)
    BY <1>1, <2>1, SetFocus, Zenon
  <2> HIDE DEF u
  <2> QED
    BY <1>1, <1>2, <2>1, <2>2, ViewKey, Zenon
<1>5. CASE Do(Mode(Ask("Identities")), <<Ask("ListIdentities")>>)
  <2>1. /\ "Identities" \in ModeKind \ {"EditSecret", "DeleteSecret"}
        /\ "Identities" \notin AclMode
    BY DEF ModeKind, AclMode
  <2>2. /\ Change(Ask("ListIdentities"), hist) /\ Ask("ListIdentities") \in Req
        /\ Sendable(Ask("ListIdentities")) /\ Ask("ListIdentities").kind = "ListIdentities"
    BY AskPlain, Zenon
  <2>3. \A u : TodoOK(<<Ask("ListIdentities")>>) /\ QueueOK(u, <<Ask("ListIdentities")>>, hist)
    BY <2>2, OneRequest, Zenon
  <2> QED
    BY <1>2, <1>5, <2>1, <2>3, AskKey, Zenon
<1>6. CASE Do([ui EXCEPT !.aclGroup = Selected(ui), !.mode = Ask("Acl")], <<Ask("GroupAcl")>>)
  <2> DEFINE g == Selected(ui)
             m == Ask("Acl")
             u == [ui EXCEPT !.aclGroup = g, !.mode = m]
             q == <<Ask("GroupAcl")>>
  <2>1. Do(u, q)
    BY <1>6, Zenon
  <2>2. ModeType(m) /\ m.kind = "Acl"
    BY AskMode DEF ModeKind
  <2>3. /\ Change(Ask("GroupAcl"), hist) /\ Ask("GroupAcl") \in Req
        /\ Sendable(Ask("GroupAcl")) /\ Ask("GroupAcl").kind = "GroupAcl"
    BY AskPlain, Zenon
  <2> HIDE DEF m
  <2>4. AclOpened(ui, u, g, m)
    BY <1>1, <2>2, SetAclGroup, Zenon
  <2> HIDE DEF u
  <2>5. TodoOK(q) /\ QueueOK(u, q, hist)
    BY <2>3, OneRequest, Zenon
  <2>6. Carries(q, "GroupAcl")
    <3>1. DOMAIN q = {1} /\ q[1] = Ask("GroupAcl")
      OBVIOUS
    <3> QED
      BY <2>3, <3>1, Zenon DEF Carries
  <2> HIDE DEF q
  <2>7. ModeOK(u, q, hist) /\ AclOK(u, q, hist)
    BY <2>2, <2>4, <2>6, Zenon DEF AclOpened, ModeOK, AclOK
  <2>8. PaneOK(u, q, hist)
    <3>1. PaneOK(ui, <<>>, hist)
      BY <1>2 DEF ScreenInv, Consistent
    <3>2. ~Carries(<<>>, "List")
      BY DEF Carries
    <3> QED
      BY <2>4, <3>1, <3>2, Zenon DEF AclOpened, PaneOK
  <2>9. Consistent(u, q, hist)
    BY <2>4, <2>5, <2>7, <2>8, Zenon DEF Consistent, AclOpened
  <2> QED
    BY <2>1, <2>9, DoKeeps, Zenon
<1>7. CASE Do(Mode([Ask("RotateDek") EXCEPT !.group = Selected(ui)]), <<>>)
  <2> DEFINE g == Selected(ui)
             m == [Ask("RotateDek") EXCEPT !.group = g]
  <2>1. Ask("RotateDek") \in Req /\ Ask("RotateDek").kind = "RotateDek"
    BY AskFacts, Zenon DEF Kind, ModeKind
  <2>2. Do(Mode(m), <<>>)
    BY <1>7, Zenon
  <2>3. g \in Group \cup {0}
    BY <1>1, Zenon
  <2> HIDE DEF g
  <2>4. m \in Req /\ m.kind = "RotateDek"
    BY <2>1, <2>3, Zenon DEF Req
  <2> HIDE DEF m
  <2>5. ModeType(m) /\ m.kind \notin {"EditSecret", "DeleteSecret"} /\ m.kind \notin AclMode
    BY <2>4 DEF ModeType, ModeKind, AclMode
  <2> QED
    BY <1>1, <1>2, <2>2, <2>5, ModeKey, Zenon
<1> QED
  BY <1>3, <1>4, <1>5, <1>6, <1>7, Zenon DEF OnKeyNormal

\* v, e and d: the question is about the row it was asked on.
LEMMA OnSecretKeeps ==
  ASSUME ScreenInv, OnSecret
  PROVE  ScreenInv'
<1> DEFINE row == Row(ui.secrets, ui.ssel)
<1>1. /\ ScreenOK(ui) /\ ui \in UI /\ hist \in Hist /\ Selected(ui) \in Group \cup {0}
      /\ ViewKept(ui, ui) /\ \A u : TodoOK(<<>>) /\ QueueOK(u, <<>>, hist)
  BY BetweenKeys, Zenon
<1>2. /\ todo = <<>> /\ ui.mode.kind = "Normal" /\ HasRow(ui.secrets, ui.ssel)
      /\ \/ \E kind \in {"ViewSecret", "EditSecret"} :
              Do(ui, <<[Ask(kind) EXCEPT !.group = Selected(ui), !.name = row[1],
                                         !.from = Selected(ui)]>>)
         \/ Do(Mode([Ask("DeleteSecret") EXCEPT !.name = row[1], !.shown = row[2],
                                                !.from = hist.pane]), <<>>)
  BY Zenon DEF OnSecret, In
<1>3. row \in Name \X Secret /\ ui.secrets # <<>>
  <2>1. ui.secrets \in Seq(Name \X Secret) /\ ui.ssel \in Nat
    BY <1>1 DEF UI
  <2>2. ui.ssel + 1 \in 1..Len(ui.secrets)
    BY <1>2, <2>1 DEF HasRow
  <2> QED
    BY <2>1, <2>2 DEF Row
<1>4. row[1] \in Name /\ row[2] \in Secret
  BY <1>3
<1> HIDE DEF row
<1>5. ASSUME NEW kind \in {"ViewSecret", "EditSecret"},
             Do(ui, <<[Ask(kind) EXCEPT !.group = Selected(ui), !.name = row[1],
                                        !.from = Selected(ui)]>>)
      PROVE  ScreenInv'
  <2> DEFINE g == Selected(ui)
             n == row[1]
             r == [Ask(kind) EXCEPT !.group = g, !.name = n, !.from = g]
  <2>1. Ask(kind) \in Req /\ Ask(kind).kind = kind
    BY AskFacts, Zenon DEF Kind, ModeKind
  <2>2. Do(ui, <<r>>)
    BY <1>5, Zenon
  <2>3. g \in Group \cup {0} /\ n \in Name
    BY <1>1, <1>4, Zenon
  <2> HIDE DEF g, n
  <2>4. r \in Req /\ r.kind = kind /\ r.name = n /\ r.from = g
    BY <2>1, <2>3, Zenon DEF Req
  <2> HIDE DEF r
  <2>5. /\ Sendable(r) /\ r.kind # "ListGroups"
        /\ r.kind \in {"ViewSecret", "EditSecret"} /\ r.from = Selected(ui)
    BY <2>3, <2>4 DEF Sendable, g
  <2>6. TodoOK(<<r>>) /\ QueueOK(ui, <<r>>, hist)
    BY <2>4, <2>5, OneRequest, Zenon
  <2> QED
    BY <1>1, <1>2, <2>2, <2>6, ViewKey, Zenon
<1>6. CASE Do(Mode([Ask("DeleteSecret") EXCEPT !.name = row[1], !.shown = row[2],
                                               !.from = hist.pane]), <<>>)
  <2> DEFINE n == row[1]
             s == row[2]
             g == hist.pane
             m == [Ask("DeleteSecret") EXCEPT !.name = n, !.shown = s, !.from = g]
  <2>1. Ask("DeleteSecret") \in Req /\ Ask("DeleteSecret").kind = "DeleteSecret"
    BY AskFacts, Zenon DEF Kind, ModeKind
  <2>2. Do(Mode(m), <<>>)
    BY <1>6, Zenon
  <2>3. n \in Name /\ s \in Secret /\ g \in Group \cup {0}
    BY <1>1, <1>4, Zenon DEF Hist
  <2> HIDE DEF g, n, s
  <2>4. m \in Req /\ m.kind = "DeleteSecret" /\ m.name = n /\ m.from = g
    BY <2>1, <2>3, Zenon DEF Req
  <2> HIDE DEF m
  <2>5. /\ ModeType(m) /\ m.kind # "EditSecret" /\ m.kind \notin AclMode
        /\ m.from = hist.pane
    BY <2>3, <2>4 DEF ModeType, ModeKind, AclMode, g
  <2> QED
    BY <1>1, <1>2, <1>3, <2>2, <2>5, ModeKey, Zenon
<1> QED
  BY <1>2, <1>5, <1>6, Zenon

\* y: what is deleted is in the group it was shown for, unless the pane is behind.
LEMMA OnKeyConfirmKeeps ==
  ASSUME ScreenInv, OnKeyConfirm
  PROVE  ScreenInv'
<1>1. /\ ScreenOK(ui) /\ ui \in UI /\ hist \in Hist /\ Selected(ui) \in Group \cup {0}
      /\ ModeType(ui.mode) /\ \A u : TodoOK(<<>>) /\ QueueOK(u, <<>>, hist)
  BY BetweenKeys, Zenon
<1>2. /\ "Normal" \in ModeKind \ {"EditSecret", "DeleteSecret"} /\ "Normal" \notin AclMode
      /\ "Identities" \in ModeKind \ {"EditSecret", "DeleteSecret"}
      /\ "Identities" \notin AclMode
  BY DEF ModeKind, AclMode
<1>3. Plain(Ask("List")) /\ Plain(Ask("ListIdentities"))
  BY AskPlain, Zenon
<1>4. CASE /\ In({"DeleteSecret"})
           /\ Do(Mode(Ask("Normal")),
                 IF Selected(ui) = 0 THEN <<>>
                 ELSE <<[ui.mode EXCEPT !.kind = "Delete", !.group = Selected(ui)],
                        Ask("List")>>)
  <2>1. todo = <<>> /\ ui.mode.kind = "DeleteSecret"
    BY <1>4 DEF In
  <2>2. CASE Selected(ui) = 0
    <3>1. Do(Mode(Ask("Normal")), <<>>)
      BY <1>4, <2>2, Zenon
    <3> QED
      BY <1>1, <1>2, <2>1, <3>1, AskKey, ZenonT(30)
  <2>3. CASE Selected(ui) # 0
    <3> DEFINE g == Selected(ui)
               r == [ui.mode EXCEPT !.kind = "Delete", !.group = g]
    <3>1. Do(Mode(Ask("Normal")), <<r, Ask("List")>>)
      BY <1>4, <2>3, Zenon
    <3>2. ui.mode \in Req /\ ui.mode.name \in Name
      BY <1>1, <2>1 DEF ModeType
    <3>3. ui.mode.from = g \/ hist.behind
      <4>1. ModeOK(ui, <<>>, hist) /\ PaneOK(ui, <<>>, hist) /\ ~Carries(<<>>, "List")
        BY <2>1 DEF ScreenInv, Consistent, Carries
      <4> QED
        BY <2>1, <4>1, Zenon DEF ModeOK, PaneOK
    <3>4. "Delete" \in Kind /\ g \in Group \cup {0}
      BY <1>1, Zenon DEF Kind, Changes
    <3> HIDE DEF g
    <3>5. /\ r \in Req /\ r.kind = "Delete" /\ r.group = g /\ r.name = ui.mode.name
          /\ r.from = ui.mode.from
      BY <3>2, <3>4, Zenon DEF Req
    <3> HIDE DEF r
    <3>6. Change(r, hist)
      BY <3>2, <3>3, <3>5 DEF Change, Sendable
    <3>7. \A u : TodoOK(<<r, Ask("List")>>) /\ QueueOK(u, <<r, Ask("List")>>, hist)
      BY <1>3, <3>6, TwoRequests, Zenon
    <3> QED
      BY <1>2, <2>1, <3>1, <3>7, AskKey, Zenon
  <2> QED
    BY <2>2, <2>3
<1>5. CASE /\ In({"RotateDek", "RemoveIdentity", "SetServiceAdmin"})
           /\ \/ Do(Mode(Ask("Normal")), <<ui.mode>>)
              \/ Do(Mode(Ask("Identities")), <<ui.mode, Ask("ListIdentities")>>)
  <2>1. todo = <<>> /\ ui.mode.kind \in {"RotateDek", "RemoveIdentity", "SetServiceAdmin"}
    BY <1>5 DEF In
  <2>2. /\ ui.mode \in Req /\ Sendable(ui.mode) /\ ui.mode.kind # "ListGroups"
        /\ Change(ui.mode, hist)
    BY <1>1, <2>1 DEF ModeType, Sendable, Change
  <2>3. \A u : TodoOK(<<ui.mode>>) /\ QueueOK(u, <<ui.mode>>, hist)
    BY <2>2, OneRequest, Zenon
  <2>4. \A u : /\ TodoOK(<<ui.mode, Ask("ListIdentities")>>)
               /\ QueueOK(u, <<ui.mode, Ask("ListIdentities")>>, hist)
    BY <1>3, <2>2, TwoRequests, Zenon
  <2>5. CASE Do(Mode(Ask("Normal")), <<ui.mode>>)
    BY <1>2, <2>1, <2>3, <2>5, AskKey, Zenon
  <2>6. CASE Do(Mode(Ask("Identities")), <<ui.mode, Ask("ListIdentities")>>)
    BY <1>2, <2>1, <2>4, <2>6, AskKey, Zenon
  <2> QED
    BY <1>5, <2>5, <2>6
<1> QED
  BY <1>4, <1>5, Zenon DEF OnKeyConfirm, In

\* n and Esc.
LEMMA LeaveKeeps ==
  ASSUME ScreenInv, Leave
  PROVE  ScreenInv'
<1>1. \A u : TodoOK(<<>>) /\ QueueOK(u, <<>>, hist)
  BY BetweenKeys, Zenon
<1>2. PICK k \in {"Normal", "Identities", "Acl"} :
        /\ todo = <<>> /\ Do(Mode(Ask(k)), <<>>)
        /\ k = "Acl" => ui.mode.kind \in {"GrantEntry", "GrantPicker"}
  BY DEF Leave, In
<1>3. /\ k \in ModeKind \ {"EditSecret", "DeleteSecret"}
      /\ k \in AclMode => ui.mode.kind \in AclMode
  BY <1>2 DEF ModeKind, AclMode
<1> QED
  BY <1>1, <1>2, <1>3, AskKey, Zenon

\* Enter in a form: an edit is put in the group it was opened for.
LEMMA SubmitFormKeeps ==
  ASSUME ScreenInv, SubmitForm
  PROVE  ScreenInv'
<1>1. /\ ScreenOK(ui) /\ ui \in UI /\ hist \in Hist /\ Selected(ui) \in Group \cup {0}
      /\ ModeType(ui.mode)
  BY BetweenKeys, Zenon
<1>2. /\ "Normal" \in ModeKind \ {"EditSecret", "DeleteSecret"} /\ "Normal" \notin AclMode
      /\ "Identities" \in ModeKind \ {"EditSecret", "DeleteSecret"}
      /\ "Identities" \notin AclMode
      /\ "Acl" \in ModeKind \ {"EditSecret", "DeleteSecret"}
  BY DEF ModeKind, AclMode
<1>3. Plain(Ask("List")) /\ Plain(Ask("ListIdentities"))
  BY AskPlain, Zenon
<1>4. ASSUME In({"NewGroup"}), NEW g \in Group,
             Do(Mode(Ask("Normal")), <<[Ask("CreateGroup") EXCEPT !.group = g]>> \o Lists)
      PROVE  ScreenInv'
  <2> DEFINE r == [Ask("CreateGroup") EXCEPT !.group = g]
  <2>1. Ask("CreateGroup") \in Req /\ Ask("CreateGroup").kind = "CreateGroup"
    BY AskFacts, Zenon DEF Kind, Changes
  <2>2. r \in Req /\ r.kind = "CreateGroup" /\ r.group = g
    BY <2>1, Zenon DEF Req
  <2>3. Do(Mode(Ask("Normal")), <<r>> \o Lists) /\ todo = <<>>
    BY <1>4, Zenon DEF In
  <2> HIDE DEF r
  <2>4. Plain(r)
    BY <2>2 DEF Plain, Sendable
  <2>5. \A u : TodoOK(<<r>> \o Lists) /\ QueueOK(u, <<r>> \o Lists, hist)
    BY <2>4, ListRequests, Zenon
  <2> QED
    BY <1>2, <2>3, <2>5, AskKey, Zenon
<1>5. ASSUME todo = <<>>, NEW m \in Req, m.name \in Name,
             m.shown.version > 0 => m.from = Selected(ui),
             Do(Mode(Ask("Normal")), <<PutOver(m), Ask("List")>>)
      PROVE  ScreenInv'
  <2> DEFINE g == Selected(ui)
             r == [m EXCEPT !.kind = "Put", !.group = g]
  <2>1. Do(Mode(Ask("Normal")), <<r, Ask("List")>>)
    BY <1>5, Zenon DEF PutOver
  <2>2. "Put" \in Kind /\ g \in Group \cup {0} /\ (m.shown.version > 0 => m.from = g)
    BY <1>1, <1>5, Zenon DEF Kind, Changes
  <2> HIDE DEF g
  <2>3. /\ r \in Req /\ r.kind = "Put" /\ r.group = g /\ r.name = m.name
        /\ r.from = m.from /\ r.shown = m.shown
    BY <2>2, Zenon DEF Req
  <2> HIDE DEF r
  <2>4. Change(r, hist)
    BY <1>5, <2>2, <2>3 DEF Change, Sendable
  <2>5. \A u : TodoOK(<<r, Ask("List")>>) /\ QueueOK(u, <<r, Ask("List")>>, hist)
    BY <1>3, <2>4, TwoRequests, Zenon
  <2> QED
    BY <1>2, <1>5, <2>1, <2>5, AskKey, Zenon
<1>6. ASSUME In({"NewSecret"}), NEW n \in Name,
             Do(Mode(Ask("Normal")), <<PutOver([Ask("Put") EXCEPT !.name = n]), Ask("List")>>)
      PROVE  ScreenInv'
  <2> DEFINE m == [Ask("Put") EXCEPT !.name = n]
  <2>1. Ask("Put") \in Req /\ Ask("Put").shown = Absent
    BY AskFacts, Zenon DEF Kind, Changes
  <2>2. m \in Req /\ m.name = n /\ m.shown = Absent
    BY <2>1, Zenon DEF Req
  <2>3. Do(Mode(Ask("Normal")), <<PutOver(m), Ask("List")>>) /\ todo = <<>>
    BY <1>6, Zenon DEF In
  <2> HIDE DEF m
  <2>4. ~(m.shown.version > 0)
    BY <2>2 DEF Absent
  <2> QED
    BY <1>5, <2>2, <2>3, <2>4, Zenon
<1>7. CASE In({"EditSecret"}) /\ Do(Mode(Ask("Normal")), <<PutOver(ui.mode), Ask("List")>>)
  <2>1. todo = <<>> /\ ui.mode.kind = "EditSecret"
    BY <1>7 DEF In
  <2>2. ui.mode \in Req /\ ui.mode.name \in Name /\ ui.mode.from = Selected(ui)
    BY <1>1, <2>1 DEF ModeType, ScreenInv, Consistent, ModeOK
  <2> QED
    BY <1>5, <1>7, <2>1, <2>2, Zenon
<1>8. ASSUME In({"AddIdentity"}), NEW e \in Identity, NEW admin \in BOOLEAN,
             Do(Mode(Ask("Identities")),
                <<[Ask("AddIdentity") EXCEPT !.id = e, !.flag = admin],
                  Ask("ListIdentities")>>)
      PROVE  ScreenInv'
  <2> DEFINE r == [Ask("AddIdentity") EXCEPT !.id = e, !.flag = admin]
  <2>1. Ask("AddIdentity") \in Req /\ Ask("AddIdentity").kind = "AddIdentity"
    BY AskFacts, Zenon DEF Kind, Changes
  <2>2. r \in Req /\ r.kind = "AddIdentity" /\ r.id = e
    BY <2>1, Zenon DEF Req
  <2>3. Do(Mode(Ask("Identities")), <<r, Ask("ListIdentities")>>) /\ todo = <<>>
    BY <1>8, Zenon DEF In
  <2> HIDE DEF r
  <2>4. Change(r, hist)
    BY <2>2 DEF Change, Sendable
  <2>5. \A u : /\ TodoOK(<<r, Ask("ListIdentities")>>)
               /\ QueueOK(u, <<r, Ask("ListIdentities")>>, hist)
    BY <1>3, <2>4, TwoRequests, Zenon
  <2> QED
    BY <1>2, <2>3, <2>5, AskKey, Zenon
<1>9. ASSUME In({"GrantEntry"}), NEW e \in Identity, NEW p \in Typed,
             Do(Mode(Ask("Acl")), GrantAnd(e, p))
      PROVE  ScreenInv'
  <2>1. p \in SUBSET Perm
    BY TuiConstants DEF Perm
  <2>2. todo = <<>> /\ ui.mode.kind \in AclMode
    BY <1>9 DEF In, AclMode
  <2>3. \A u : TodoOK(GrantAnd(e, p)) /\ QueueOK(u, GrantAnd(e, p), hist)
    BY <1>1, <2>1, GrantRequests, Zenon
  <2> QED
    BY <1>2, <1>9, <2>2, <2>3, AskKey, Zenon
<1> QED
  BY <1>4, <1>6, <1>7, <1>8, <1>9, Zenon DEF SubmitForm

\* The keys of the identities screen.
LEMMA OnKeyIdentitiesKeeps ==
  ASSUME ScreenInv, OnKeyIdentities
  PROVE  ScreenInv'
<1> DEFINE row == Row(ui.identities, ui.isel)
<1>1. ui \in UI /\ \A u : TodoOK(<<>>) /\ QueueOK(u, <<>>, hist)
  BY BetweenKeys, Zenon
<1>2. todo = <<>>
  BY DEF OnKeyIdentities, In
<1>3. CASE Do(Mode(Ask("AddIdentity")), <<>>)
  <2>1. /\ "AddIdentity" \in ModeKind \ {"EditSecret", "DeleteSecret"}
        /\ "AddIdentity" \notin AclMode
    BY DEF ModeKind, AclMode
  <2> QED
    BY <1>1, <1>2, <1>3, <2>1, AskKey, Zenon
<1>4. CASE /\ HasRow(ui.identities, ui.isel)
           /\ \/ Do(Mode([Ask("RemoveIdentity") EXCEPT !.id = row[1]]), <<>>)
              \/ Do(Mode([Ask("SetServiceAdmin") EXCEPT !.id = row[1], !.flag = ~row[2]]),
                    <<>>)
  <2>1. ui.identities \in Seq(Identity \X BOOLEAN) /\ ui.isel \in Nat
    BY <1>1 DEF UI
  <2>2. ui.isel + 1 \in 1..Len(ui.identities)
    BY <1>4, <2>1 DEF HasRow
  <2>3. row \in Identity \X BOOLEAN
    BY <2>1, <2>2 DEF Row
  <2> HIDE DEF row
  <2> DEFINE e == row[1]
             f == ~row[2]
             m == [Ask("RemoveIdentity") EXCEPT !.id = e]
             n == [Ask("SetServiceAdmin") EXCEPT !.id = e, !.flag = f]
  <2>4. e \in Identity /\ f \in BOOLEAN
    <3>1. e \in Identity
      BY <2>3
    <3>2. f \in BOOLEAN
      BY Zenon
    <3> QED
      BY <3>1, <3>2
  <2>5. Do(Mode(m), <<>>) \/ Do(Mode(n), <<>>)
    BY <1>4, Zenon
  <2> HIDE DEF e, f
  <2>6. /\ Ask("RemoveIdentity") \in Req /\ Ask("RemoveIdentity").kind = "RemoveIdentity"
        /\ Ask("SetServiceAdmin") \in Req /\ Ask("SetServiceAdmin").kind = "SetServiceAdmin"
    BY AskFacts, Zenon DEF Kind, Changes
  <2>7. m \in Req /\ m.kind = "RemoveIdentity" /\ n \in Req /\ n.kind = "SetServiceAdmin"
    BY <2>4, <2>6, Zenon DEF Req
  <2> HIDE DEF m, n
  <2>8. /\ ModeType(m) /\ m.kind \notin {"EditSecret", "DeleteSecret"} /\ m.kind \notin AclMode
        /\ ModeType(n) /\ n.kind \notin {"EditSecret", "DeleteSecret"} /\ n.kind \notin AclMode
    BY <2>7 DEF ModeType, ModeKind, AclMode
  <2>9. CASE Do(Mode(m), <<>>)
    BY <1>1, <1>2, <2>8, <2>9, ModeKey, Zenon
  <2>10. CASE Do(Mode(n), <<>>)
    BY <1>1, <1>2, <2>8, <2>10, ModeKey, Zenon
  <2> QED
    BY <2>5, <2>9, <2>10
<1> QED
  BY <1>3, <1>4, Zenon DEF OnKeyIdentities

\* The keys of the ACL screen.
LEMMA OnKeyAclKeeps ==
  ASSUME ScreenInv, OnKeyAcl
  PROVE  ScreenInv'
<1> DEFINE row == Row(ui.acl, ui.asel)
<1>1. ui \in UI /\ ViewKept(ui, ui)
  BY BetweenKeys, Zenon
<1>2. todo = <<>> /\ ui.mode.kind = "Acl"
  BY DEF OnKeyAcl, In
<1>3. ASSUME HasRow(ui.acl, ui.asel),
             NEW p \in {Toggled(row[2], bit) : bit \in Perm} \cup {{}},
             Do(ui, GrantAnd(row[1], p))
      PROVE  ScreenInv'
  <2>1. ui.acl \in Seq(Identity \X SUBSET Perm) /\ ui.asel \in Nat
    BY <1>1 DEF UI
  <2>2. ui.asel + 1 \in 1..Len(ui.acl)
    BY <1>3, <2>1 DEF HasRow
  <2>3. row \in Identity \X SUBSET Perm
    BY <2>1, <2>2 DEF Row
  <2> HIDE DEF row
  <2>4. row[1] \in Identity /\ row[2] \in SUBSET Perm
    BY <2>3
  <2>5. p \in SUBSET Perm
    BY <2>4 DEF Toggled
  <2>6. TodoOK(GrantAnd(row[1], p)) /\ QueueOK(ui, GrantAnd(row[1], p), hist)
    BY <1>1, <2>4, <2>5, GrantRequests, Zenon
  <2> QED
    BY <1>1, <1>2, <1>3, <2>6, ViewKey, Zenon
<1>4. CASE Do(ui, <<Ask("ListIdentityNames")>>)
  <2> DEFINE r == Ask("ListIdentityNames")
  <2>1. r \in Req /\ r.kind = "ListIdentityNames"
    BY AskFacts, Zenon DEF Kind
  <2>2. Do(ui, <<r>>)
    BY <1>4, Zenon
  <2> HIDE DEF r
  <2>3. Sendable(r) /\ r.kind # "ListGroups"
    BY <2>1 DEF Sendable
  <2>4. TodoOK(<<r>>) /\ QueueOK(ui, <<r>>, hist)
    BY <1>2, <2>1, <2>3, OneRequest, Zenon
  <2> QED
    BY <1>1, <1>2, <2>2, <2>4, ViewKey, Zenon
<1> QED
  BY <1>3, <1>4, Zenon DEF OnKeyAcl

\* Enter in the grant picker.
LEMMA OnKeyGrantPickerKeeps ==
  ASSUME ScreenInv, OnKeyGrantPicker
  PROVE  ScreenInv'
<1> DEFINE e == Row(ui.candidates, ui.csel)
           m == [Ask("GrantEntry") EXCEPT !.id = e]
<1>1. ui \in UI /\ \A u : TodoOK(<<>>) /\ QueueOK(u, <<>>, hist)
  BY BetweenKeys, Zenon
<1>2. /\ todo = <<>> /\ ui.mode.kind \in AclMode /\ HasRow(ui.candidates, ui.csel)
      /\ Do(Mode(m), <<>>)
  BY DEF OnKeyGrantPicker, In, AclMode, GrantForm
<1>3. e \in Identity
  <2>1. ui.candidates \in Seq(Identity) /\ ui.csel \in Nat
    BY <1>1 DEF UI
  <2>2. ui.csel + 1 \in 1..Len(ui.candidates)
    BY <1>2, <2>1 DEF HasRow
  <2> QED
    BY <2>1, <2>2 DEF Row
<1>4. Ask("GrantEntry") \in Req /\ Ask("GrantEntry").kind = "GrantEntry"
  BY AskFacts, Zenon DEF Kind, ModeKind
<1> HIDE DEF e
<1>5. m \in Req /\ m.kind = "GrantEntry"
  BY <1>3, <1>4, Zenon DEF Req
<1> HIDE DEF m
<1>6. ModeType(m) /\ m.kind \notin {"EditSecret", "DeleteSecret"}
  BY <1>5 DEF ModeType, ModeKind
<1> QED
  BY <1>1, <1>2, <1>6, ModeKey, ZenonT(30)

-----------------------------------------------------------------------------
(* The invariant and the theorems *)

\* App::new, with the two lists still to be fetched.
LEMMA ScreenInit ==
  ASSUME Init
  PROVE  ScreenInv
<1>1. TablesOK(bunker)
  <2>1. PICK groups \in SUBSET Group, admin \in Identity : bunker = InitBunker(groups, admin)
    BY DEF Init
  <2>2. [life |-> 1, version |-> 1] \in Secret /\ Absent \in Secret
    BY DEF Secret, Absent
  <2> DEFINE sec == [g \in Group |-> [n \in Name |->
                       IF g \in groups THEN [life |-> 1, version |-> 1] ELSE Absent]]
             ac == [g \in Group |-> [e \in Identity |-> IF g \in groups THEN Perm ELSE {}]]
  <2>3. sec \in [Group -> [Name -> Secret]]
    BY <2>2, Zenon
  <2>4. ac \in [Group -> [Identity -> SUBSET Perm]]
    <3>1. Perm \in SUBSET Perm /\ {} \in SUBSET Perm
      OBVIOUS
    <3> QED
      BY <3>1, Zenon
  <2>5. bunker = [groups |-> groups, ids |-> Identity, admins |-> {admin},
                  secret |-> sec, acl |-> ac]
    BY <2>1, Zenon DEF InitBunker
  <2>6. Identity \in SUBSET Identity /\ {admin} \in SUBSET Identity
    OBVIOUS
  <2> HIDE DEF sec, ac
  <2>7. bunker \in Tables /\ bunker.ids = Identity /\ bunker.admins = {admin}
    BY <2>3, <2>4, <2>5, <2>6, Zenon DEF Tables
  <2> QED
    BY <2>7 DEF TablesOK
<1>2. /\ ModeType(Ask("Normal")) /\ Ask("Normal").kind = "Normal" /\ Ask("Normal") \in Req
  <2>1. "Normal" \in ModeKind \ {"EditSecret", "DeleteSecret"}
    BY DEF ModeKind
  <2> QED
    BY <2>1, AskMode, Zenon DEF ModeType
<1>3. /\ ui = [groups |-> <<>>, gsel |-> 0, secrets |-> <<>>, ssel |-> 0,
               identities |-> <<>>, isel |-> 0, acl |-> <<>>, asel |-> 0,
               aclGroup |-> 0, candidates |-> <<>>, csel |-> 0,
               focus |-> "Groups", serviceAdmin |-> FALSE, mode |-> Ask("Normal")]
      /\ todo = Lists /\ events = 0
      /\ hist = [pane |-> 0, behind |-> FALSE, acl |-> 0, aclBehind |-> FALSE,
                 replaced |-> {}]
  BY Zenon DEF Init
<1>4. /\ ui.groups = <<>> /\ ui.secrets = <<>> /\ ui.identities = <<>> /\ ui.acl = <<>>
      /\ ui.candidates = <<>> /\ ui.mode = Ask("Normal")
  BY <1>3, Zenon
<1>5. ui \in UI
  <2>1. \A S : <<>> \in Seq(S)
    OBVIOUS
  <2>2. 0 \in Nat
    OBVIOUS
  <2> QED
    BY <1>2, <1>3, <2>1, <2>2, Zenon DEF UI
<1>6. ScreenOK(ui)
  <2>1. Listed(<<>>)
    BY DEF Listed
  <2> QED
    BY <1>2, <1>4, <1>5, <2>1, Zenon DEF ScreenOK, InRange
<1>7. TodoOK(todo) /\ QueueOK(ui, todo, hist)
  BY <1>3, AskPlain, ListRequests, Zenon
<1>8. ModeOK(ui, todo, hist) /\ PaneOK(ui, todo, hist) /\ AclOK(ui, todo, hist)
  BY <1>2, <1>4 DEF ModeOK, PaneOK, AclOK, AclMode
<1>9. hist \in Hist /\ hist.replaced = {}
  <2>1. {} \in SUBSET Replaced
    OBVIOUS
  <2> QED
    BY <1>3, <2>1, Zenon DEF Hist
<1>10. events \in 0..MaxEvents
  BY <1>3, TuiConstants
<1>11. ReplacesOnlyWhatWasShown
  BY <1>9, Zenon DEF ReplacesOnlyWhatWasShown
<1> QED
  BY <1>1, <1>6, <1>7, <1>8, <1>9, <1>10, <1>11, ZenonT(30) DEF ScreenInv, Consistent

\* Every step of the UI, the node and the others keeps the invariant.
LEMMA ScreenStep ==
  ASSUME ScreenInv, [Next]_vars
  PROVE  ScreenInv'
<1>1. CASE Key
  BY <1>1, MoveSelectionKeeps, RefreshKeeps, OnKeyNormalKeeps, OnSecretKeeps,
     OnKeyConfirmKeeps, LeaveKeeps, SubmitFormKeeps, OnKeyIdentitiesKeeps,
     OnKeyAclKeeps, OnKeyGrantPickerKeeps, ZenonT(30) DEF Key
<1>2. CASE UNCHANGED vars
  <2>1. bunker' = bunker /\ ui' = ui /\ todo' = todo /\ hist' = hist /\ events' = events
    BY <1>2 DEF vars
  <2> QED
    BY <2>1, Zenon DEF ScreenInv, ReplacesOnlyWhatWasShown
<1> QED
  BY <1>1, <1>2, RequestKeeps, TransportErrorKeeps, OtherClientKeeps, Zenon DEF Next

\* The requests in hand, the screen and what was fetched for it always go
\* together: the invariant the theorems below follow from.
THEOREM ScreenInvariant == Spec => []ScreenInv
<1>1. Init => ScreenInv
  BY ScreenInit, Zenon
<1>2. ScreenInv /\ [Next]_vars => ScreenInv'
  BY ScreenStep, Zenon
<1> QED
  BY <1>1, <1>2, PTL DEF Spec

\* The fields of App and the tables have their types, whatever is typed and
\* whatever others change.
THEOREM TuiTypes == Spec => []TypeOK
<1>1. ScreenInv => TypeOK
  <2> SUFFICES ASSUME ScreenInv PROVE TypeOK
    OBVIOUS
  <2>1. /\ bunker \in Tables /\ bunker.admins \subseteq bunker.ids /\ ui \in UI
        /\ ModeType(ui.mode) /\ Listed(ui.secrets) /\ events \in 0..MaxEvents
    BY DEF ScreenInv, Consistent, ScreenOK, TablesOK
  <2>2. /\ bunker.groups \subseteq Group /\ bunker.ids \subseteq Identity
        /\ bunker.secret \in [Group -> [Name -> Secret]]
        /\ bunker.acl \in [Group -> [Identity -> SUBSET Perm]]
    BY <2>1 DEF Tables
  <2>3. ui.groups \in Seq(Group) /\ ui.focus \in {"Groups", "Secrets"}
    BY <2>1 DEF UI
  <2>4. \A i \in DOMAIN ui.groups : ui.groups[i] \in Group
    BY <2>3
  <2>5. \A i \in DOMAIN ui.secrets :
          ui.secrets[i][1] \in Name /\ ui.secrets[i][2].version > 0
    BY <2>1 DEF Listed
  <2>6. ui.mode.kind \in ModeKind
    BY <2>1 DEF ModeType
  <2> QED
    BY <2>1, <2>2, <2>3, <2>4, <2>5, <2>6, Zenon DEF TypeOK, ModeKind
<1> QED
  BY <1>1, ScreenInvariant, PTL

\* Every selection is an index of its list, unless the list is empty.
THEOREM SelectionsStayInRange == Spec => []SelectionsInRange
<1>1. ScreenInv => SelectionsInRange
  BY Zenon DEF ScreenInv, Consistent, ScreenOK, InRange, SelectionsInRange
<1> QED
  BY <1>1, ScreenInvariant, PTL

\* Between two keys the pane lists secrets of the selected group, unless it is
\* known to be behind.
THEOREM PaneFollowsSelection == Spec => []PaneIsOfSelectedGroup
<1>1. ScreenInv => PaneIsOfSelectedGroup
  <2>1. ~Carries(<<>>, "List")
    BY DEF Carries
  <2> QED
    BY <2>1, Zenon DEF ScreenInv, Consistent, PaneOK, PaneIsOfSelectedGroup
<1> QED
  BY <1>1, ScreenInvariant, PTL

\* The rows on the ACL screen are rows of the group that permissions are granted
\* on, unless they are known to be behind.
THEOREM AclFollowsItsGroup == Spec => []AclIsOfItsGroup
<1>1. ScreenInv => AclIsOfItsGroup
  <2>1. ~Carries(<<>>, "GroupAcl")
    BY DEF Carries
  <2> QED
    BY <2>1, Zenon DEF ScreenInv, Consistent, AclOK, AclIsOfItsGroup, AclMode
<1> QED
  BY <1>1, ScreenInvariant, PTL

\* A Put or a Delete that goes through replaces the secret that was on the
\* screen, in the group it was shown for, up to the two exceptions the property
\* names.
THEOREM OnlyTheShownIsReplaced == Spec => []ReplacesOnlyWhatWasShown
<1>1. ScreenInv => ReplacesOnlyWhatWasShown
  BY DEF ScreenInv
<1> QED
  BY <1>1, ScreenInvariant, PTL

=============================================================================
