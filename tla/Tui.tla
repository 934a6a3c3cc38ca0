-------------------------------- MODULE Tui --------------------------------
(***************************************************************************)
(* The terminal UI (src/tui.rs): lists that were fetched at some point,    *)
(* selections by index into them, and requests made from both while other  *)
(* clients change the bunker.                                              *)
(*                                                                         *)
(* A key handler runs on a blocking thread and makes its requests one at a *)
(* time; the bunker may change between two of them, and each may fail with *)
(* a transport error, before or after the bunker has acted on it.  `todo'  *)
(* holds the requests the handler still has to make.  What a key types     *)
(* into a form is chosen when the form is submitted.                       *)
(***************************************************************************)
EXTENDS Naturals, Sequences, FiniteSets

CONSTANTS Group, Name, Identity, \* names, as numbers: every list is ORDER BY name
          Me,                    \* who runs the UI
          Typed,                 \* the permissions typed into forms
          MaxEvents              \* bound: changes asked for in the UI or by
                                 \* other clients, and transport errors

ASSUME TuiConstants ==
  /\ Group \subseteq Nat \ {0} /\ Name \subseteq Nat \ {0}
  /\ Identity \subseteq Nat \ {0} /\ Me \in Identity
  /\ IsFiniteSet(Group) /\ IsFiniteSet(Name) /\ IsFiniteSet(Identity)
  /\ Typed \subseteq SUBSET {"read", "write", "admin"}
  /\ MaxEvents \in Nat

VARIABLES bunker, \* the tables of the node the UI talks to
          ui,     \* the fields of App
          todo,   \* requests the running handler has still to make
          hist,   \* history: what the lists on the screen were fetched for
          events

vars == <<bunker, ui, todo, hist, events>>

Perm == {"read", "write", "admin"}

\* A secret is its version number and, for the properties only, the life it is
\* in: a name that is deleted and put again starts over at version 1.
Secret == [life : Nat, version : Nat]
Absent == [life |-> 0, version |-> 0]

\* A request, and what a form or a question was opened for.  `from' is history:
\* the group on whose screen it began.
Blank == [kind |-> "", group |-> 0, name |-> 0, id |-> 0, shown |-> Absent,
          perms |-> {}, flag |-> FALSE, from |-> 0]
Ask(kind) == [Blank EXCEPT !.kind = kind]

TypeOK ==
  /\ bunker.groups \subseteq Group /\ bunker.ids \subseteq Identity
  /\ bunker.admins \subseteq bunker.ids
  /\ bunker.secret \in [Group -> [Name -> Secret]]
  /\ bunker.acl \in [Group -> [Identity -> SUBSET Perm]]
  /\ \A i \in DOMAIN ui.groups : ui.groups[i] \in Group
  /\ \A i \in DOMAIN ui.secrets :
       ui.secrets[i][1] \in Name /\ ui.secrets[i][2].version > 0
  /\ ui.focus \in {"Groups", "Secrets"}
  /\ ui.mode.kind \in {"Normal", "Help", "ViewSecret", "NewGroup", "NewSecret",
                     "EditSecret", "AddIdentity", "GrantEntry", "DeleteSecret",
                     "RemoveIdentity", "RotateDek", "SetServiceAdmin",
                     "Identities", "Acl", "GrantPicker", "Quit"}
  /\ events \in 0..MaxEvents

-----------------------------------------------------------------------------
(* The node: what it answers, and what a request changes (see Bunker) *)

Holds(b, e, g, p) ==
  /\ e \in b.ids /\ g \in b.groups
  /\ e \in b.admins \/ p \in b.acl[g][e]

\* ORDER BY name
Sorted(S) == CHOOSE q \in [1..Cardinality(S) -> S] :
  \A i, j \in DOMAIN q : i < j => q[i] < q[j]

\* list_groups: a service admin sees every group, others where they hold a bit
Groups(b) == Sorted({g \in b.groups : Me \in b.admins \/ b.acl[g][Me] # {}})

\* mutant: a deleted name is listed at version 0
NamesWithDeleted(b, g) ==
  LET all == Sorted(Name)
  IN  [i \in DOMAIN all |-> <<all[i], b.secret[g][all[i]]>>]

\* list
Names(b, g) ==
  LET present == Sorted({n \in Name : b.secret[g][n].version > 0})
  IN  [i \in DOMAIN present |-> <<present[i], b.secret[g][present[i]]>>]

\* list_identities
Identities(b) ==
  LET all == Sorted(b.ids)
  IN  [i \in DOMAIN all |-> <<all[i], all[i] \in b.admins>>]

\* group_acl
AclOf(b, g) ==
  LET rows == Sorted({e \in b.ids : b.acl[g][e] # {}})
  IN  [i \in DOMAIN rows |-> <<rows[i], b.acl[g][rows[i]]>>]

LastOf(S, e) == S = {e}

\* put and delete compare the version and nothing else
Put(b, g, n, expected) ==
  LET s == b.secret[g][n] IN
  IF s.version # expected THEN b
  ELSE [b EXCEPT !.secret[g][n] =
          [life |-> IF expected = 0 THEN s.life + 1 ELSE s.life,
           version |-> expected + 1]]

Delete(b, g, n, expected) ==
  LET s == b.secret[g][n] IN
  IF s.version # expected \/ expected = 0 THEN b
  ELSE [b EXCEPT !.secret[g][n].version = 0]

Grant(b, g, e, perms) ==
  IF \/ e \notin b.ids
     \/ /\ "admin" \in b.acl[g][e] \ perms
        /\ LastOf({i \in b.ids : "admin" \in b.acl[g][i]}, e)
  THEN b
  ELSE [b EXCEPT !.acl[g][e] = perms]

\* the changes of identities, for a service admin
Registry(b, r) ==
  CASE r.kind = "CreateGroup" ->
         IF r.group \in b.groups THEN b
         ELSE [b EXCEPT !.groups = @ \cup {r.group}, !.acl[r.group][Me] = Perm]
    [] r.kind = "AddIdentity" ->
         IF r.id \in b.ids THEN b
         ELSE [b EXCEPT !.ids = @ \cup {r.id},
                        !.admins = IF r.flag THEN @ \cup {r.id} ELSE @]
    [] r.kind = "RemoveIdentity" ->
         IF r.id \notin b.ids \/ LastOf(b.admins, r.id) THEN b
         ELSE [b EXCEPT !.ids = @ \ {r.id}, !.admins = @ \ {r.id},
                        !.acl = [g \in Group |-> [@[g] EXCEPT ![r.id] = {}]]]
    [] r.kind = "SetServiceAdmin" ->
         IF r.id \notin b.ids \/ (~r.flag /\ LastOf(b.admins, r.id)) THEN b
         ELSE [b EXCEPT !.admins = IF r.flag THEN @ \cup {r.id} ELSE @ \ {r.id}]

\* the tables after a request of the UI's; a rotation changes nothing it shows
After(b, r) ==
  CASE r.kind = "Put" /\ Holds(b, Me, r.group, "write") ->
         Put(b, r.group, r.name, r.shown.version)
    [] r.kind = "Delete" /\ Holds(b, Me, r.group, "write") ->
         Delete(b, r.group, r.name, r.shown.version)
    [] r.kind = "Grant" /\ Holds(b, Me, r.group, "admin") ->
         Grant(b, r.group, r.id, r.perms)
    [] /\ r.kind \in {"CreateGroup", "AddIdentity", "RemoveIdentity", "SetServiceAdmin"}
       /\ Me \in b.admins -> Registry(b, r)
    [] OTHER -> b

Other(b) ==
  {Put(b, g, n, b.secret[g][n].version) : g \in b.groups, n \in Name}
  \cup {Delete(b, g, n, b.secret[g][n].version) : g \in b.groups, n \in Name}
  \cup {Grant(b, g, e, p) : g \in b.groups, e \in Identity, p \in Typed}

OtherClient ==
  /\ events < MaxEvents /\ events' = events + 1
  /\ bunker' \in Other(bunker) \ {bunker}
  /\ UNCHANGED <<ui, todo, hist>>

-----------------------------------------------------------------------------
(* req and the refreshes *)

Selected(u) == IF u.gsel < Len(u.groups) THEN u.groups[u.gsel + 1] ELSE 0
Row(list, sel) == list[sel + 1]
HasRow(list, sel) == sel < Len(list)

\* mutant: the index stays where it was
ClampNot(sel, list) == sel

\* sel.min(len.saturating_sub(1))
Clamp(sel, list) ==
  IF sel < Len(list) THEN sel ELSE IF list = <<>> THEN 0 ELSE Len(list) - 1

RefreshGroups(u, b) ==
  IF Me \notin b.ids THEN u
  ELSE [u EXCEPT !.serviceAdmin = Me \in b.admins,
                 !.groups = Groups(b), !.gsel = Clamp(@, Groups(b))]

RefreshSecrets(u, b) ==
  IF ~Holds(b, Me, Selected(u), "read") THEN [u EXCEPT !.secrets = <<>>]
  ELSE [u EXCEPT !.secrets = Names(b, Selected(u)),
                 !.ssel = Clamp(@, Names(b, Selected(u)))]

RefreshIdentities(u, b) ==
  IF Me \notin b.admins THEN u
  ELSE [u EXCEPT !.identities = Identities(b), !.isel = Clamp(@, Identities(b))]

\* mutant: a refused ACL leaves the screen open
RefreshAclStaying(u, b) ==
  IF ~Holds(b, Me, u.aclGroup, "admin") THEN u
  ELSE [u EXCEPT !.acl = AclOf(b, u.aclGroup),
                 !.asel = Clamp(@, AclOf(b, u.aclGroup))]

RefreshAcl(u, b) ==
  IF ~Holds(b, Me, u.aclGroup, "admin") THEN [u EXCEPT !.mode = Ask("Normal")]
  ELSE [u EXCEPT !.acl = AclOf(b, u.aclGroup),
                 !.asel = Clamp(@, AclOf(b, u.aclGroup))]

GrantForm(e) == [Ask("GrantEntry") EXCEPT !.id = e]

\* open_grant_picker; a node that refuses the names leaves it to typing
OpenGrantPicker(u, b) ==
  LET free == Sorted({e \in b.ids : \A i \in DOMAIN u.acl : u.acl[i][1] # e})
  IN  CASE ~Holds(b, Me, u.aclGroup, "admin") -> [u EXCEPT !.mode = GrantForm(0)]
        [] Holds(b, Me, u.aclGroup, "admin") /\ free = <<>> ->
             [u EXCEPT !.candidates = free]
        [] Holds(b, Me, u.aclGroup, "admin") /\ free # <<>> ->
             [u EXCEPT !.candidates = free, !.csel = 0,
                       !.mode = Ask("GrantPicker")]

\* view_selected_secret and edit_selected_secret once Get is answered
Got(u, b, r) ==
  IF \/ ~Holds(b, Me, r.group, "read")
     \/ b.secret[r.group][r.name].version = 0
  THEN u
  ELSE [u EXCEPT !.mode = [r EXCEPT !.shown = b.secret[r.group][r.name]]]

\* the fields of App after an answer; a change only sets the status line
Answered(u, b, r) ==
  CASE r.kind = "ListGroups" -> RefreshGroups(u, b)
    [] r.kind = "List" -> RefreshSecrets(u, b)
    [] r.kind = "ListIdentities" -> RefreshIdentities(u, b)
    [] r.kind = "GroupAcl" -> RefreshAcl(u, b)
    [] r.kind = "ListIdentityNames" -> OpenGrantPicker(u, b)
    [] r.kind \in {"ViewSecret", "EditSecret"} -> Got(u, b, r)
    [] OTHER -> u

Replaces(r) == r.kind = "Delete" \/ (r.kind = "Put" /\ r.shown.version > 0)

\* history: the group a list on the screen is of, and why it may be another
\* than the one its title names; the secret that a request replaced
Recorded(r) ==
  CASE r.kind = "List" ->
         [hist EXCEPT !.pane = Selected(ui), !.behind = FALSE]
    [] r.kind = "ListGroups" -> [hist EXCEPT !.behind = @ \/ r.flag]
    [] r.kind = "GroupAcl" /\ Holds(bunker, Me, ui.aclGroup, "admin") ->
         [hist EXCEPT !.acl = ui.aclGroup, !.aclBehind = FALSE]
    [] Replaces(r) /\ After(bunker, r) # bunker ->
         [hist EXCEPT !.replaced =
            {[asked |-> r, found |-> bunker.secret[r.group][r.name],
              behind |-> hist.behind]}]
    [] OTHER -> hist

Request ==
  /\ todo # <<>>
  /\ ui' = Answered(ui, bunker, Head(todo))
  /\ bunker' = After(bunker, Head(todo))
  /\ hist' = Recorded(Head(todo))
  /\ todo' = Tail(todo)
  /\ UNCHANGED events

\* a transport error, or the Failed of an internal error: the lists stay as
\* they are and the handler goes on
TransportError ==
  /\ todo # <<>> /\ events < MaxEvents /\ events' = events + 1
  /\ Head(todo).kind = "List" => Selected(ui) # 0
  /\ bunker' \in {bunker, After(bunker, Head(todo))}
  /\ hist' = [hist EXCEPT !.behind = @ \/ Head(todo).kind = "List",
                          !.aclBehind = @ \/ Head(todo).kind = "GroupAcl"]
  /\ todo' = Tail(todo)
  /\ UNCHANGED ui

-----------------------------------------------------------------------------
(* Keys.  A handler runs when the one before has made all its requests. *)

Changes == {"Put", "Delete", "CreateGroup", "Grant", "RotateDek",
            "AddIdentity", "RemoveIdentity", "SetServiceAdmin"}

In(kinds) == todo = <<>> /\ ui.mode.kind \in kinds

\* what a handler leaves in App before its first request, and its requests
Do(u, requests) ==
  /\ ui' = u /\ todo' = requests
  /\ events' = events + Cardinality({i \in DOMAIN requests : requests[i].kind \in Changes})
  /\ events' <= MaxEvents
  /\ hist' = [hist EXCEPT !.replaced = {}]
  /\ UNCHANGED bunker

Mode(m) == [ui EXCEPT !.mode = m]
Moved(sel, d, list) == (sel + Len(list) + d) % Len(list)
Lists == <<Ask("ListGroups"), Ask("List")>>

\* move_selection, and j and k of the three screens with a list
MoveSelection ==
  \E d \in {1, 0 - 1} :
    \/ /\ In({"Normal"}) /\ ui.focus = "Groups" /\ ui.groups # <<>>
       /\ Do([ui EXCEPT !.gsel = Moved(@, d, ui.groups), !.ssel = 0],
             <<Ask("List")>>)
    \/ /\ In({"Normal"}) /\ ui.focus = "Secrets" /\ ui.secrets # <<>>
       /\ Do([ui EXCEPT !.ssel = Moved(@, d, ui.secrets)], <<>>)
    \/ /\ In({"Identities"}) /\ ui.identities # <<>>
       /\ Do([ui EXCEPT !.isel = Moved(@, d, ui.identities)], <<>>)
    \/ /\ In({"Acl"}) /\ ui.acl # <<>>
       /\ Do([ui EXCEPT !.asel = Moved(@, d, ui.acl)], <<>>)
    \/ /\ In({"GrantPicker"}) /\ ui.candidates # <<>>
       /\ Do([ui EXCEPT !.csel = Moved(@, d, ui.candidates)], <<>>)

\* mutant: r fetches the groups alone
RefreshGroupsOnly ==
  \/ In({"Normal"}) /\ Do(ui, <<Ask("ListGroups")>>)
  \/ In({"Normal"}) /\ ui.focus = "Groups" /\ Do(ui, <<Ask("List")>>)

\* r, and Enter on a group
Refresh ==
  \/ In({"Normal"}) /\ Do(ui, Lists)
  \/ In({"Normal"}) /\ ui.focus = "Groups" /\ Do(ui, <<Ask("List")>>)

\* the keys of the browser that open something
OnKeyNormal ==
  /\ In({"Normal"})
  /\ \/ Do(Mode(Ask("Quit")), <<>>)
     \/ Do(Mode(Ask("Help")), <<>>)
     \/ Do([ui EXCEPT !.focus = IF @ = "Groups" THEN "Secrets" ELSE "Groups"], <<>>)
     \/ /\ ui.serviceAdmin
        /\ Do(Mode(Ask("Identities")), <<Ask("ListIdentities")>>)
     \/ /\ ui.focus = "Groups" /\ ui.serviceAdmin
        /\ Do(Mode(Ask("NewGroup")), <<>>)
     \/ /\ ui.focus = "Secrets" /\ Selected(ui) # 0
        /\ Do(Mode(Ask("NewSecret")), <<>>)
     \/ /\ Selected(ui) # 0
        /\ Do([ui EXCEPT !.aclGroup = Selected(ui), !.mode = Ask("Acl")],
              <<Ask("GroupAcl")>>)
     \/ /\ Selected(ui) # 0
        /\ Do(Mode([Ask("RotateDek") EXCEPT !.group = Selected(ui)]), <<>>)

\* v, e and d on a secret
OnSecret ==
  /\ In({"Normal"})
  /\ ui.focus = "Secrets" /\ HasRow(ui.secrets, ui.ssel)
  /\ LET row == Row(ui.secrets, ui.ssel) IN
     \/ /\ Selected(ui) # 0
        /\ \E kind \in {"ViewSecret", "EditSecret"} :
             Do(ui, <<[Ask(kind) EXCEPT !.group = Selected(ui), !.name = row[1],
                                        !.from = Selected(ui)]>>)
     \/ Do(Mode([Ask("DeleteSecret") EXCEPT !.name = row[1], !.shown = row[2],
                                            !.from = hist.pane]), <<>>)

\* y: the secret's group is the one selected now
OnKeyConfirm ==
  \/ /\ In({"DeleteSecret"})
     /\ Do(Mode(Ask("Normal")),
           IF Selected(ui) = 0 THEN <<>>
           ELSE <<[ui.mode EXCEPT !.kind = "Delete", !.group = Selected(ui)],
                  Ask("List")>>)
  \/ In({"RotateDek"}) /\ Do(Mode(Ask("Normal")), <<ui.mode>>)
  \/ /\ In({"RemoveIdentity", "SetServiceAdmin"})
     /\ Do(Mode(Ask("Identities")), <<ui.mode, Ask("ListIdentities")>>)

\* n and Esc, and Esc, Enter and q of the screens without a question
Leave ==
  \/ /\ In({"Help", "ViewSecret", "NewGroup", "NewSecret", "EditSecret",
            "DeleteSecret", "RotateDek", "Identities", "Acl"})
     /\ Do(Mode(Ask("Normal")), <<>>)
  \/ /\ In({"AddIdentity", "RemoveIdentity", "SetServiceAdmin"})
     /\ Do(Mode(Ask("Identities")), <<>>)
  \/ In({"GrantEntry", "GrantPicker"}) /\ Do(Mode(Ask("Acl")), <<>>)

\* mutant: the version to replace is looked up when the form is submitted
PutOverCurrent(m) ==
  [m EXCEPT !.kind = "Put", !.group = Selected(ui),
            !.shown = bunker.secret[Selected(ui)][m.name]]

\* the Put of an edit form: the version is the one the form was opened with
PutOver(m) == [m EXCEPT !.kind = "Put", !.group = Selected(ui)]

\* the requests of the ACL screen after a change; the secrets are not fetched
GrantAnd(e, perms) ==
  <<[Ask("Grant") EXCEPT !.group = ui.aclGroup, !.id = e, !.perms = perms],
    Ask("GroupAcl"), [Ask("ListGroups") EXCEPT !.flag = TRUE]>>

\* Enter on the last field, with the fields filled in (the rest is as Esc)
SubmitForm ==
  \/ /\ In({"NewGroup"})
     /\ \E g \in Group :
          Do(Mode(Ask("Normal")),
             <<[Ask("CreateGroup") EXCEPT !.group = g]>> \o Lists)
  \/ /\ In({"NewSecret"}) /\ Selected(ui) # 0
     /\ \E n \in Name :
          Do(Mode(Ask("Normal")),
             <<PutOver([Ask("Put") EXCEPT !.name = n]), Ask("List")>>)
  \/ /\ In({"EditSecret"}) /\ Selected(ui) # 0
     /\ Do(Mode(Ask("Normal")), <<PutOver(ui.mode), Ask("List")>>)
  \/ /\ In({"AddIdentity"})
     /\ \E e \in Identity, admin \in BOOLEAN :
          Do(Mode(Ask("Identities")),
             <<[Ask("AddIdentity") EXCEPT !.id = e, !.flag = admin],
               Ask("ListIdentities")>>)
  \/ /\ In({"GrantEntry"})
     /\ \E e \in Identity, perms \in Typed :
          /\ ui.mode.id # 0 => e = ui.mode.id
          /\ Do(Mode(Ask("Acl")), GrantAnd(e, perms))

OnKeyIdentities ==
  /\ In({"Identities"})
  /\ \/ Do(Mode(Ask("AddIdentity")), <<>>)
     \/ /\ HasRow(ui.identities, ui.isel)
        /\ LET row == Row(ui.identities, ui.isel) IN
           \/ Do(Mode([Ask("RemoveIdentity") EXCEPT !.id = row[1]]), <<>>)
           \/ Do(Mode([Ask("SetServiceAdmin") EXCEPT !.id = row[1],
                                                     !.flag = ~row[2]]), <<>>)

\* perms ^ bit
Toggled(perms, bit) == (perms \cup {bit}) \ (perms \cap {bit})

\* r, w, a and x on a row of the ACL, and n
OnKeyAcl ==
  \/ /\ In({"Acl"}) /\ HasRow(ui.acl, ui.asel)
     /\ LET row == Row(ui.acl, ui.asel) IN
        \E perms \in {Toggled(row[2], bit) : bit \in Perm} \cup {{}} :
          Do(ui, GrantAnd(row[1], perms))
  \/ In({"Acl"}) /\ Do(ui, <<Ask("ListIdentityNames")>>)

OnKeyGrantPicker ==
  /\ In({"GrantPicker"})
  /\ HasRow(ui.candidates, ui.csel)
  /\ Do(Mode(GrantForm(Row(ui.candidates, ui.csel))), <<>>)

Key == MoveSelection \/ Refresh \/ OnKeyNormal \/ OnSecret \/ OnKeyConfirm
       \/ Leave \/ SubmitForm \/ OnKeyIdentities \/ OnKeyAcl \/ OnKeyGrantPicker

-----------------------------------------------------------------------------
\* everybody holds every bit on the groups there are; one is service admin
InitBunker(groups, admin) ==
  [groups |-> groups, ids |-> Identity, admins |-> {admin},
   secret |-> [g \in Group |-> [n \in Name |->
     IF g \in groups THEN [life |-> 1, version |-> 1] ELSE Absent]],
   acl |-> [g \in Group |-> [e \in Identity |->
     IF g \in groups THEN Perm ELSE {}]]]

\* App::new, and the two refreshes run begins with
Init ==
  /\ \E groups \in SUBSET Group \ {{}}, admin \in Identity :
       bunker = InitBunker(groups, admin)
  /\ ui = [groups |-> <<>>, gsel |-> 0, secrets |-> <<>>, ssel |-> 0,
           identities |-> <<>>, isel |-> 0, acl |-> <<>>, asel |-> 0,
           aclGroup |-> 0, candidates |-> <<>>, csel |-> 0,
           focus |-> "Groups", serviceAdmin |-> FALSE, mode |-> Ask("Normal")]
  /\ todo = Lists
  /\ hist = [pane |-> 0, behind |-> FALSE, acl |-> 0, aclBehind |-> FALSE,
             replaced |-> {}]
  /\ events = 0

Next == Key \/ Request \/ TransportError \/ OtherClient

Spec == Init /\ [][Next]_vars

-----------------------------------------------------------------------------
\* Whatever was added to or taken from a list since, every selection is an
\* index of the list it selects from, unless the list is empty: after each
\* refresh, with the list of another group, and on screens opened again later.
SelectionsInRange ==
  /\ ui.gsel < Len(ui.groups) \/ ui.groups = <<>>
  /\ ui.ssel < Len(ui.secrets) \/ ui.secrets = <<>>
  /\ ui.isel < Len(ui.identities) \/ ui.identities = <<>>
  /\ ui.asel < Len(ui.acl) \/ ui.acl = <<>>
  /\ ui.csel < Len(ui.candidates) \/ ui.candidates = <<>>

\* Between two keys the pane on the right lists secrets of the group selected on
\* the left, although selections are indices and groups come and go; but not
\* after a failed List, nor after a change on the ACL screen, which fetches the
\* groups and not the secrets (on_key_acl, submit_form).
PaneIsOfSelectedGroup ==
  todo = <<>> /\ ~hist.behind /\ ui.secrets # <<>> => hist.pane = Selected(ui)

\* The rows on the ACL screen, from which r, w, a and x compute the permissions
\* they grant, are rows of the group they are granted on; but not after a
\* failed GroupAcl.  Once the group is no longer ours to administer the screen
\* is left (refresh_acl).
AclIsOfItsGroup ==
  todo = <<>> /\ ~hist.aclBehind
    /\ ui.mode.kind \in {"Acl", "GrantPicker", "GrantEntry"}
  => hist.acl = ui.aclGroup

\* A Put or Delete that goes through replaces the very secret that was on the
\* screen when the form or the question was opened, in the group it was shown
\* for, whatever other clients did in between.  Two exceptions: a name deleted
\* and put again is taken for the old one at the same version number, and a
\* Delete asked from a pane that is behind goes to the group selected now.
ReplacesOnlyWhatWasShown ==
  \A r \in hist.replaced :
    /\ r.asked.from = r.asked.group \/ (r.asked.kind = "Delete" /\ r.behind)
    /\ r.asked.from = r.asked.group =>
         r.found = r.asked.shown \/ r.found.life # r.asked.shown.life

=============================================================================
