------------------------- MODULE EventBridgeProofs -------------------------
(***************************************************************************)
(* The types of EventBridge, RenderedAsSpecified, NoMissedWakeup and       *)
(* StaleIsReported for every number of groups, keys, contents, specs and   *)
(* changes and every channel capacity.  Three arguments meet.  The loops   *)
(* of render go through runs, one accumulator after each assignment, and   *)
(* what a run leaves is known from what its steps set (RenderKeeps).       *)
(* render depends on the referenced groups alone (RenderReads).  A result  *)
(* that differs from the mirror has an event of some referenced group on   *)
(* its way (Awake).                                                        *)
(***************************************************************************)
EXTENDS EventBridge, FiniteSetTheorems, WellFoundedInduction, TLAPS

-----------------------------------------------------------------------------
(* Least and greatest members *)

\* A set of natural numbers that is not empty has a least element.
LEMMA LeastExists ==
  ASSUME NEW T \in SUBSET Nat, T # {}
  PROVE  \E m \in T : \A n \in T : m <= n
<1> DEFINE R == OpToRel(<, Nat)
<1>1. IsWellFoundedOn(R, Nat)
  BY NatLessThanWellFounded, Zenon
<1>2. \A x, y \in Nat : <<x, y>> \in R <=> x < y
  BY DEF OpToRel
<1> HIDE DEF R
<1>3. PICK x \in T : \A y \in T : <<y, x>> \notin R
  BY <1>1, WFMin, Zenon
<1>4. \A y \in T : ~(y < x)
  BY <1>2, <1>3, Zenon
<1> QED BY <1>4

\* What holds of 0 and passes from every number below n to the next, holds of
\* all numbers up to n: the numbers it holds of are a set.
LEMMA UpTo ==
  ASSUME NEW n \in Nat, NEW H, 0 \in H,
         \A k \in 0..(n - 1) : k \in H => k + 1 \in H
  PROVE  \A k \in 0..n : k \in H
<1> SUFFICES ASSUME NEW k \in 0..n, k \notin H PROVE FALSE
  OBVIOUS
<1> DEFINE T == {i \in 0..n : i \notin H}
<1>1. k \in T /\ T \in SUBSET Nat
  OBVIOUS
<1>2. PICK m \in T : \A i \in T : m <= i
  BY <1>1, LeastExists, Zenon
<1>3. m \in 1..n /\ m - 1 \in 0..(n - 1) /\ m - 1 \notin T /\ (m - 1) + 1 = m
  BY <1>2
<1> QED BY <1>3

\* The greatest index of a part of a sequence is an index of that part.
LEMMA MaxIsIndex ==
  ASSUME NEW n \in Nat, NEW s \in SUBSET (1..n), s # {}
  PROVE  Max(s) \in s /\ \A y \in s : y <= Max(s)
<1> DEFINE T == {k \in Nat : \A x \in s : x <= k}
<1>1. n \in T /\ T \in SUBSET Nat
  OBVIOUS
<1>2. PICK m \in T : \A k \in T : m <= k
  BY <1>1, LeastExists, Zenon
<1>3. m \in s
  <2> SUFFICES ASSUME m \notin s PROVE FALSE
    OBVIOUS
  <2>1. \A x \in s : x \in Nat /\ x # m /\ x <= m
    BY <1>2
  <2>2. PICK y \in s : TRUE
    BY Zenon
  <2>3. m - 1 \in T
    BY <2>1, <2>2
  <2> QED BY <1>2, <2>3
<1>4. \E x \in s : \A y \in s : x >= y
  BY <1>2, <1>3
<1>5. Max(s) \in s /\ \A y \in s : Max(s) >= y
  BY <1>4, Zenon DEF Max
<1> QED BY <1>5


-----------------------------------------------------------------------------
(* The loops of render, unfolded *)

\* The loop over the assignments of an entry.
AssignAll(b, d) == FoldLeft(Assign, b, d)

\* The bodies of the three loops: over the assignments of an entry, over the
\* entries of a sp, and over the keys to find those of a set.
Body(loop, par, a, x) ==
  IF loop = "assign" THEN Assign(a, x)
  ELSE IF loop = "entry" THEN AssignAll(a, Assignments(par, x))
  ELSE IF x \in par THEN Append(a, x) ELSE a

\* One unfolding of the recursive function behind FoldLeft.
Unfold(loop, par, f, I, b, d) ==
  [s \in SUBSET I |-> IF s = {} THEN b
                      ELSE Body(loop, par, f[s \ {Max(s)}], d[Max(s)])]

\* What a loop makes of b.
Loop(loop, par, b, d) ==
  (CHOOSE f : f = Unfold(loop, par, f, DOMAIN d, b, d))[DOMAIN d]

\* c is its run: what it has after each member of d.
Run(c, n, loop, par, b, d) ==
  /\ c[0] = b /\ c[n] = Loop(loop, par, b, d)
  /\ \A i \in 1..n : c[i] = Body(loop, par, c[i - 1], d[i])

\* The recursive function behind a loop exists.
LEMMA LoopExists ==
  ASSUME NEW n \in Nat, NEW loop, NEW par, NEW b, NEW d
  PROVE  \E f : f = Unfold(loop, par, f, 1..n, b, d)
<1> DEFINE H == {k \in 0..n : \E f : f = Unfold(loop, par, f, 1..k, b, d)}
<1>1. 0 \in H
  <2> DEFINE f0 == [s \in SUBSET (1..0) |-> b]
  <2>1. f0 = Unfold(loop, par, f0, 1..0, b, d)
    <3>1. \A s \in SUBSET (1..0) : s = {}
      OBVIOUS
    <3> QED BY <3>1, Zenon DEF Unfold
  <2> QED BY <2>1
<1>2. ASSUME NEW k \in 0..(n - 1), k \in H PROVE k + 1 \in H
  <2>1. PICK f : f = Unfold(loop, par, f, 1..k, b, d)
    BY <1>2
  <2> DEFINE h == Unfold(loop, par, f, 1..(k + 1), b, d)
  <2>2. \A s \in SUBSET (1..k) : h[s] = f[s]
    <3>1. \A s \in SUBSET (1..k) : s \in SUBSET (1..(k + 1))
      OBVIOUS
    <3>2. \A s \in SUBSET (1..k) : Unfold(loop, par, f, 1..k, b, d)[s] = h[s]
      BY <3>1, Zenon DEF Unfold
    <3> QED BY <2>1, <3>2, Zenon
  <2>3. \A s \in SUBSET (1..(k + 1)) : s # {} => s \ {Max(s)} \in SUBSET (1..k)
    <3> SUFFICES ASSUME NEW s \in SUBSET (1..(k + 1)), s # {}
                 PROVE  s \ {Max(s)} \in SUBSET (1..k)
      OBVIOUS
    <3>1. Max(s) \in s /\ \A y \in s : y <= Max(s)
      BY MaxIsIndex, k + 1 \in Nat, Zenon
    <3>2. \A m \in 1..(k + 1), y \in 1..(k + 1) : y <= m /\ y # m => y \in 1..k
      OBVIOUS
    <3> QED BY <3>1, <3>2, Zenon
  <2> HIDE DEF h
  <2>4. \A s \in SUBSET (1..(k + 1)) : s # {} => h[s \ {Max(s)}] = f[s \ {Max(s)}]
    BY <2>2, <2>3, Zenon
  <2>5. Unfold(loop, par, h, 1..(k + 1), b, d) = Unfold(loop, par, f, 1..(k + 1), b, d)
    BY <2>4, Zenon DEF Unfold
  <2>6. h = Unfold(loop, par, h, 1..(k + 1), b, d)
    BY <2>5 DEF h
  <2>7. k + 1 \in 0..n
    OBVIOUS
  <2> QED BY <2>6, <2>7
<1>3. n \in H
  <2> HIDE DEF H
  <2> QED BY <1>1, <1>2, UpTo
<1> QED BY <1>3

\* A loop goes through its run, member by member.
LEMMA LoopRuns ==
  ASSUME NEW n \in Nat, NEW loop, NEW par, NEW b, NEW d, DOMAIN d = 1..n
  PROVE  \E c : Run(c, n, loop, par, b, d)
<1> DEFINE it == CHOOSE f : f = Unfold(loop, par, f, 1..n, b, d)
           c == [i \in 0..n |-> it[1..i]]
<1>1. it = Unfold(loop, par, it, 1..n, b, d)
  BY LoopExists
<1>2. Loop(loop, par, b, d) = it[1..n]
  BY DEF Loop
<1> HIDE DEF it
<1>3. it[{}] = b
  BY <1>1 DEF Unfold
<1>4. ASSUME NEW i \in 1..n PROVE it[1..i] = Body(loop, par, it[1..(i - 1)], d[i])
  <2>1. 1..i \in SUBSET (1..n) /\ 1..i # {}
    OBVIOUS
  <2>2. Max(1..i) \in 1..i /\ \A y \in 1..i : y <= Max(1..i)
    BY <2>1, MaxIsIndex, Zenon
  <2>3. Max(1..i) = i
    BY <2>2
  <2>4. (1..i) \ {i} = 1..(i - 1)
    OBVIOUS
  <2>5. it[1..i] = Body(loop, par, it[(1..i) \ {Max(1..i)}], d[Max(1..i)])
    BY <1>1, <2>1, Zenon DEF Unfold
  <2> QED BY <2>3, <2>4, <2>5, Zenon
<1>5. c[0] = b /\ c[n] = it[1..n]
  <2>1. 1..0 = {} /\ 0 \in 0..n /\ n \in 0..n
    OBVIOUS
  <2> QED BY <1>3, <2>1, Zenon
<1>6. \A i \in 1..n : c[i] = Body(loop, par, c[i - 1], d[i])
  BY <1>4
<1> QED BY <1>2, <1>5, <1>6, Zenon DEF Run

\* The loop over the entries of a sp.
Entries(m, b, d) == FoldLeft(LAMBDA a, e : AssignAll(a, Assignments(m, e)), b, d)

\* The folds of the model are these loops.
LEMMA FoldsAreLoops ==
  /\ \A b, d : AssignAll(b, d) = Loop("assign", {}, b, d)
  /\ \A m, b, d : Entries(m, b, d) = Loop("entry", m, b, d)
  /\ \A S : Ascending(S) = Loop("keep", S, <<>>, KeyOrder)
<1> DEFINE A(f, b, d) == [s \in SUBSET DOMAIN d |-> IF s = {} THEN b
                            ELSE Assign(f[s \ {Max(s)}], d[Max(s)])]
           E(f, m, b, d) == [s \in SUBSET DOMAIN d |-> IF s = {} THEN b
                               ELSE AssignAll(f[s \ {Max(s)}], Assignments(m, d[Max(s)]))]
           K(f, S) == [s \in SUBSET DOMAIN KeyOrder |-> IF s = {} THEN <<>>
                         ELSE IF KeyOrder[Max(s)] \in S
                         THEN Append(f[s \ {Max(s)}], KeyOrder[Max(s)])
                         ELSE f[s \ {Max(s)}]]
<1>1. \A f, b, d : A(f, b, d) = Unfold("assign", {}, f, DOMAIN d, b, d)
  BY DEF Unfold, Body
<1>2. \A f, m, b, d : E(f, m, b, d) = Unfold("entry", m, f, DOMAIN d, b, d)
  BY DEF Unfold, Body
<1>3. \A f, S : K(f, S) = Unfold("keep", S, f, DOMAIN KeyOrder, <<>>, KeyOrder)
  BY DEF Unfold, Body
<1>4. \A b, d : AssignAll(b, d) = (CHOOSE f : f = A(f, b, d))[DOMAIN d]
  BY DEF AssignAll, FoldLeft, MapThenFoldSet
<1>5. \A m, b, d : Entries(m, b, d) = (CHOOSE f : f = E(f, m, b, d))[DOMAIN d]
  BY DEF Entries, FoldLeft, MapThenFoldSet
<1>6. \A S : Ascending(S) = (CHOOSE f : f = K(f, S))[DOMAIN KeyOrder]
  BY DEF Ascending, FoldLeft, MapThenFoldSet
<1> HIDE DEF A, E, K
<1>7. \A b, d : AssignAll(b, d) = Loop("assign", {}, b, d)
  BY <1>1, <1>4 DEF Loop
<1>8. \A m, b, d : Entries(m, b, d) = Loop("entry", m, b, d)
  BY <1>2, <1>5 DEF Loop
<1>9. \A S : Ascending(S) = Loop("keep", S, <<>>, KeyOrder)
  BY <1>3, <1>6 DEF Loop
<1> QED BY <1>7, <1>8, <1>9, Zenon


\* render, with its loop by name.
LEMMA RenderIs ==
  ASSUME NEW sp, NEW m
  PROVE  render(sp, m) =
           LET all == Entries(m, Start, sp.dataFrom \o sp.data)
           IN  IF all.error # "" THEN Err(all.error)
               ELSE IF all.invalid # {} THEN Err("InvalidKey")
               ELSE Ok(all.out)
BY Zenon DEF render, Entries, AssignAll

-----------------------------------------------------------------------------
(* render looks at the groups its spec refers to, and at no others *)

\* An entry reads the group it names.
LEMMA EntryReads ==
  ASSUME NEW m1, NEW m2, NEW e, m1[e.group] = m2[e.group]
  PROVE  Assignments(m1, e) = Assignments(m2, e)
<1>1. \A n : Get(m1, e.group, n) = Get(m2, e.group, n)
  BY Zenon DEF Get
<1>2. List(m1, e.group) = List(m2, e.group)
  BY Zenon DEF List
<1>3. WholeGroup(m1, e) = WholeGroup(m2, e)
  BY <1>1, <1>2, Zenon DEF WholeGroup
<1>4. Extract(m1, e) = Extract(m2, e)
  <2> DEFINE Of(got) ==
               LET fields == Fields(got.value)
                   ks == Ascending(DOMAIN fields.value)
               IN  IF ~got.ok THEN Fails(got)
                   ELSE IF ~fields.ok THEN Fails(fields)
                   ELSE [i \in DOMAIN ks |-> [key |-> ks[i], got |-> Ok(fields.value[ks[i]])]]
  <2>1. \A m : Extract(m, e) = Of(Get(m, e.group, e.name))
    BY ZenonT(30) DEF Extract
  <2> HIDE DEF Of
  <2> QED BY <1>1, <2>1, Zenon
<1>5. Explicit(m1, e) = Explicit(m2, e)
  <2> DEFINE Of(got) == <<[key |-> e.key,
                           got |-> IF ~got.ok \/ e.property = None THEN got
                                   ELSE Property(got.value, e.property)]>>
  <2>1. \A m : Explicit(m, e) = Of(Get(m, e.group, e.name))
    BY ZenonT(30) DEF Explicit
  <2> HIDE DEF Of
  <2> QED BY <1>1, <2>1, Zenon
<1> QED BY <1>3, <1>4, <1>5 DEF Assignments

\* x is a sequence
IsList(x) == \E A : x \in Seq(A)

\* d is a list whose members are members of x or of y
IsJoin(d, x, y) ==
  /\ Len(d) \in Nat /\ DOMAIN d = 1..Len(d)
  /\ \A i \in 1..Len(d) : \/ \E j \in DOMAIN x : d[i] = x[j]
                          \/ \E j \in DOMAIN y : d[i] = y[j]

\* A member of two lists joined is a member of one of them.
LEMMA Joined ==
  ASSUME NEW x, NEW y, IsList(x), IsList(y)
  PROVE  IsJoin(x \o y, x, y)
<1>0. PICK A, B : x \in Seq(A) /\ y \in Seq(B)
  BY Zenon DEF IsList
<1>1. Len(x \o y) = Len(x) + Len(y) /\ DOMAIN (x \o y) = 1..Len(x \o y) /\ Len(x \o y) \in Nat
  BY <1>0
<1>2. \A i \in 1..Len(x \o y) :
        /\ i <= Len(x) => i \in DOMAIN x /\ (x \o y)[i] = x[i]
        /\ ~(i <= Len(x)) => i - Len(x) \in DOMAIN y /\ (x \o y)[i] = y[i - Len(x)]
  BY <1>0
<1> QED BY <1>1, <1>2, Zenon DEF IsJoin

\* render gives the same from two mirrors that agree on the groups
\* referenced_groups lists: what the bridge wakes a resource for is all it reads.
LEMMA RenderReads ==
  ASSUME NEW sp, NEW m1, NEW m2, IsList(sp.dataFrom), IsList(sp.data),
         \A g \in ReferencedGroups(sp) : m1[g] = m2[g]
  PROVE  render(sp, m1) = render(sp, m2)
<1> DEFINE d == sp.dataFrom \o sp.data
           n == Len(d)
<1>1. /\ n \in Nat /\ DOMAIN d = 1..n
      /\ \A i \in 1..n : \/ \E j \in DOMAIN sp.dataFrom : d[i] = sp.dataFrom[j]
                         \/ \E j \in DOMAIN sp.data : d[i] = sp.data[j]
  <2>1. IsJoin(d, sp.dataFrom, sp.data)
    BY Joined, Zenon
  <2> HIDE DEF d
  <2> QED BY <2>1, Zenon DEF IsJoin
<1>2. \A i \in 1..n : d[i].group \in ReferencedGroups(sp)
  <2>1. /\ \A j \in DOMAIN sp.dataFrom : sp.dataFrom[j].group \in ReferencedGroups(sp)
        /\ \A j \in DOMAIN sp.data : sp.data[j].group \in ReferencedGroups(sp)
    BY Zenon DEF ReferencedGroups
  <2> HIDE DEF d, n
  <2> QED BY <1>1, <2>1, Zenon
<1> HIDE DEF d, n
<1>3. \A i \in 1..n : Assignments(m1, d[i]) = Assignments(m2, d[i])
  <2>1. \A i \in 1..n : m1[d[i].group] = m2[d[i].group]
    BY <1>2, Zenon
  <2> SUFFICES ASSUME NEW i \in 1..n PROVE Assignments(m1, d[i]) = Assignments(m2, d[i])
    BY Zenon
  <2> DEFINE e == d[i]
  <2>2. m1[e.group] = m2[e.group]
    BY <2>1, Zenon
  <2> HIDE DEF e
  <2>3. Assignments(m1, e) = Assignments(m2, e)
    BY <2>2, EntryReads, Zenon
  <2> QED BY <2>3, Zenon DEF e
<1>4. \A s \in SUBSET (1..n) : s # {} => Max(s) \in 1..n
  BY <1>1, MaxIsIndex, Zenon
<1>5. \A f : Unfold("entry", m1, f, 1..n, Start, d) = Unfold("entry", m2, f, 1..n, Start, d)
  <2>1. \A a : \A i \in 1..n : Body("entry", m1, a, d[i]) = Body("entry", m2, a, d[i])
    <3>1. \A m, a, x : Body("entry", m, a, x) = AssignAll(a, Assignments(m, x))
      BY DEF Body
    <3> QED BY <1>3, <3>1, Zenon
  <2> QED BY <1>4, <2>1, Zenon DEF Unfold
<1>6. Loop("entry", m1, Start, d) = Loop("entry", m2, Start, d)
  <2> DEFINE F(m, f) == Unfold("entry", m, f, 1..n, Start, d)
  <2>1. \A m : Loop("entry", m, Start, d) = (CHOOSE f : f = F(m, f))[1..n]
    BY <1>1, Zenon DEF Loop
  <2>2. \A f : F(m1, f) = F(m2, f)
    BY <1>5, Zenon
  <2> HIDE DEF F
  <2>3. (CHOOSE f : f = F(m1, f)) = (CHOOSE f : f = F(m2, f))
    BY <2>2
  <2> QED BY <2>1, <2>3, Zenon
<1>7. Entries(m1, Start, d) = Entries(m2, Start, d)
  BY <1>6, FoldsAreLoops, Zenon
<1> QED BY <1>7, RenderIs, ZenonT(30) DEF d

-----------------------------------------------------------------------------
(* The events of a commit *)

\* Times repeats an event as often as the set has members.
LEMMA TimesRepeats ==
  ASSUME NEW g \in Group, NEW S, IsFiniteSet(S)
  PROVE  /\ Times(g, S) \in Seq(Event)
         /\ S # {} => \E i \in DOMAIN Times(g, S) : Times(g, S)[i] = g
<1>1. Cardinality(S) \in Nat /\ (S # {} => Cardinality(S) > 0)
  BY FS_CardinalityType, FS_EmptySet
<1>2. g \in Event
  BY DEF Event
<1>3. Times(g, S) \in Seq(Event)
  BY <1>1, <1>2, SMTT(20) DEF Times
<1>4. S # {} => 1 \in DOMAIN Times(g, S) /\ Times(g, S)[1] = g
  BY <1>1, SMTT(20) DEF Times
<1> QED BY <1>3, <1>4

\* apply_group_state tells of a group whenever what it holds becomes different.
LEMMA EventsTell ==
  ASSUME NEW g \in Group, NEW old \in Content \cup {None}, NEW new \in Content
  PROVE  /\ EventsOf(g, old, new) \in Seq(Event)
         /\ old # new => \E i \in DOMAIN EventsOf(g, old, new) : EventsOf(g, old, new)[i] = g
<1>1. CASE old = None
  <2>1. Times(g, DOMAIN new) \in Seq(Event)
    BY TimesRepeats, BridgeValues
  <2>2. EventsOf(g, old, new) = <<g>> \o Times(g, DOMAIN new)
    BY <1>1 DEF EventsOf
  <2>3. <<g>> \in Seq(Event) /\ Len(<<g>>) = 1 /\ <<g>>[1] = g
    BY DEF Event
  <2>4. EventsOf(g, old, new) \in Seq(Event)
    BY <2>1, <2>2, <2>3
  <2>5. 1 \in DOMAIN EventsOf(g, old, new) /\ EventsOf(g, old, new)[1] = g
    BY <2>1, <2>2, <2>3
  <2> QED BY <2>4, <2>5
<1>2. CASE old # None
  <2>1. EventsOf(g, old, new) = Times(g, Changed(old, new))
    BY <1>2 DEF EventsOf
  <2>2. IsFiniteSet(DOMAIN old) /\ IsFiniteSet(DOMAIN new)
    BY <1>2, BridgeValues
  <2>3. IsFiniteSet(Changed(old, new))
    <3>1. IsFiniteSet(DOMAIN old \cup DOMAIN new)
      BY <2>2, FS_Union, ZenonT(30)
    <3>2. Changed(old, new) \subseteq DOMAIN old \cup DOMAIN new
      BY DEF Changed
    <3> QED BY <3>1, <3>2, FS_Subset
  <2>4. Changed(old, new) = {} => old = new
    <3> SUFFICES ASSUME Changed(old, new) = {} PROVE old = new
      OBVIOUS
    <3>1. old = [n \in DOMAIN old |-> old[n]] /\ new = [n \in DOMAIN new |-> new[n]]
      BY <1>2, BridgeValues
    <3>2. DOMAIN old = DOMAIN new /\ \A n \in DOMAIN old : old[n] = new[n]
      BY DEF Changed
    <3> QED BY <3>1, <3>2
  <2> QED BY <2>1, <2>3, <2>4, TimesRepeats, SMTT(20)
<1> QED BY <1>1, <1>2, SMTT(20)

-----------------------------------------------------------------------------
(* Types *)

\* What the invariants say of the sequences.
Queues == outbox \in Seq(Event \cup {Touch}) /\ ch \in Seq(Event) /\ Len(ch) <= Capacity

\* Sending into a full channel drops its oldest event, so the bound holds.
LEMMA QueuesInductive ==
  ASSUME Types, [Next]_vars
  PROVE  Queues'
<1>0. /\ mirror \in [Group -> Content \cup {None}]
      /\ outbox \in Seq(Event \cup {Touch}) /\ ch \in Seq(Event) /\ Len(ch) <= Capacity
      /\ Capacity \in Nat /\ Capacity > 0
  BY BridgeBounds DEF Types, TypeOK, Mirror
<1>1. ASSUME UNCHANGED ch, outbox' \in Seq(Event \cup {Touch}) PROVE Queues'
  BY <1>0, <1>1 DEF Queues
<1>2. \A q \in Seq(Event) : q \in Seq(Event \cup {Touch})
  OBVIOUS
<1>3. CASE ApplyGroup
  <2>1. PICK g \in Group, c \in Content :
          outbox' = EventsOf(g, mirror[g], c) \o <<Touch>>
    BY <1>3 DEF ApplyGroup
  <2>2. EventsOf(g, mirror[g], c) \in Seq(Event \cup {Touch})
    BY <1>0, <1>2, EventsTell
  <2>3. outbox' \in Seq(Event \cup {Touch})
    BY <2>1, <2>2
  <2> QED BY <1>1, <1>3, <2>3 DEF ApplyGroup, channel
<1>4. CASE DropGroup
  <2>1. outbox' \in Seq(Event \cup {Touch})
    BY <1>4 DEF DropGroup, Event
  <2> QED BY <1>1, <1>4, <2>1 DEF DropGroup, channel
<1>5. CASE Flip
  <2>1. outbox' \in Seq(Event \cup {Touch})
    BY <1>5 DEF Flip, Event
  <2> QED BY <1>1, <1>5, <2>1 DEF Flip, channel
<1>6. CASE ResyncDone
  <2>1. outbox' \in Seq(Event \cup {Touch})
    BY <1>6 DEF ResyncDone
  <2> QED BY <1>1, <1>6, <2>1 DEF ResyncDone, channel
<1>7. CASE Emit
  <2>1. /\ Head(outbox) \in Event \cup {Touch}
        /\ outbox' \in Seq(Event \cup {Touch})
    BY <1>0, <1>7 DEF Emit
  <2>2. CASE Head(outbox) = Touch
    BY <1>1, <1>7, <2>1, <2>2, SMTT(20) DEF Emit
  <2>3. CASE Head(outbox) # Touch
    <3> DEFINE kept == IF Len(ch) = Capacity THEN Tail(ch) ELSE ch
    <3>1. Head(outbox) \in Event /\ Send(Head(outbox))
      BY <1>7, <2>1, <2>3 DEF Emit
    <3>2. kept \in Seq(Event) /\ Len(kept) < Capacity
      BY <1>0
    <3>3. CASE subscribed
      <4>1. ch' = Append(kept, Head(outbox))
        BY <3>1, <3>3 DEF Send
      <4> HIDE DEF kept
      <4> QED BY <1>0, <2>1, <3>1, <3>2, <4>1, SMTT(20) DEF Queues
    <3>4. CASE ~subscribed
      BY <1>0, <2>1, <3>1, <3>4 DEF Send, Queues
    <3> QED BY <3>3, <3>4
  <2> QED BY <2>2, <2>3
<1>8. CASE RecvEvent
  <2>1. ch # <<>> /\ ch' = Tail(ch) /\ UNCHANGED outbox
    BY <1>8 DEF RecvEvent, engine
  <2> QED BY <1>0, <2>1 DEF Queues
<1>9. CASE Subscribe \/ Lagged \/ Tick \/ ThresholdPasses \/ EditSpec \/ Watch
  BY <1>0, <1>9 DEF Queues, Subscribe, Lagged, Tick, ThresholdPasses, EditSpec, Watch,
    engine, channel
<1>10. CASE StartReconcile \/ ReadOn \/ FailReconcile \/ FinishReconcile \/ RetryTimer
             \/ UNCHANGED vars
  <2>1. UNCHANGED <<ch, outbox>>
    BY <1>10 DEF StartReconcile, ReadOn, FailReconcile, FinishReconcile, RetryTimer, vars,
      engine, channel
  <2> QED BY <1>0, <2>1, SMTT(20) DEF Queues
<1> QED BY <1>3, <1>4, <1>5, <1>6, <1>7, <1>8, <1>9, <1>10 DEF Next

\* The variables of the engine and of the bridge keep their types.
LEMMA EngineTypesInductive ==
  ASSUME TypeOK, [Next]_vars
  PROVE  /\ mirror' \in Mirror /\ up' \in BOOLEAN /\ synced' \in BOOLEAN
         /\ subscribed' \in BOOLEAN /\ lagged' \in BOOLEAN
         /\ clock' \in {"up", "fresh", "ticked", "stale"} /\ wasStale' \in BOOLEAN
<1>0. /\ mirror \in Mirror /\ up \in BOOLEAN /\ synced \in BOOLEAN
      /\ subscribed \in BOOLEAN /\ lagged \in BOOLEAN
      /\ clock \in {"up", "fresh", "ticked", "stale"} /\ wasStale \in BOOLEAN
  BY DEF TypeOK
<1>1. CASE UNCHANGED mirror /\ UNCHANGED <<up, synced>> /\ UNCHANGED <<subscribed, lagged>>
           /\ UNCHANGED <<clock, wasStale>>
  BY <1>0, <1>1
<1>2. CASE ApplyGroup \/ DropGroup
  <2>1. mirror' \in Mirror
    BY <1>0, <1>2 DEF ApplyGroup, DropGroup, Mirror
  <2> QED BY <1>0, <1>2, <2>1, ZenonT(30) DEF ApplyGroup, DropGroup, channel, staleness
<1>3. CASE Flip \/ ResyncDone \/ Subscribe
  BY <1>0, <1>3, Zenon DEF Flip, ResyncDone, Subscribe, channel, staleness, engine
<1>4. CASE Emit
  <2>1. synced' \in BOOLEAN /\ lagged' \in BOOLEAN
    BY <1>0, <1>4, Zenon DEF Emit, Send
  <2> QED BY <1>0, <1>4, <2>1, ZenonT(30) DEF Emit, staleness
<1>5. CASE Lagged
  BY <1>0, <1>5, ZenonT(30) DEF Lagged, engine, staleness
<1>6. CASE RecvEvent \/ Tick \/ ThresholdPasses
  <2>1. clock' \in {"up", "fresh", "ticked", "stale"}
    BY <1>0, <1>6 DEF RecvEvent, SetConnected, Tick, ThresholdPasses
  <2>2. wasStale' \in BOOLEAN
    BY <1>0, <1>6, Zenon DEF RecvEvent, Tick, ThresholdPasses
  <2> QED BY <1>0, <1>6, <2>1, <2>2, ZenonT(30) DEF RecvEvent, Tick, ThresholdPasses, engine,
            channel
<1>7. CASE EditSpec \/ Watch
  BY <1>0, <1>7, ZenonT(30) DEF EditSpec, Watch, engine, channel, staleness
<1>8. CASE StartReconcile \/ ReadOn \/ FailReconcile \/ FinishReconcile \/ RetryTimer
            \/ UNCHANGED vars
  BY <1>0, <1>8, Zenon DEF StartReconcile, ReadOn, FailReconcile, FinishReconcile,
    RetryTimer, vars, engine, channel, staleness
<1> QED BY <1>2, <1>3, <1>4, <1>5, <1>6, <1>7, <1>8, ZenonT(30) DEF Next

\* So do the resource, the controller and the counter of changes.
LEMMA ControllerTypesInductive ==
  ASSUME Types, Awake, [Next]_vars
  PROVE  /\ spec' \in CrSpec /\ cached' \in CrSpec \cup {None}
         /\ due' \in BOOLEAN /\ retry' \in BOOLEAN
         /\ job' \in CrSpec \cup {None} /\ (job' = None => view' = None)
         /\ job' # None => view' = [g \in Group |-> view'[g]]
         /\ changes' \in 0..MaxChanges
<1> DEFINE C == /\ spec \in CrSpec /\ cached \in CrSpec \cup {None}
                /\ due \in BOOLEAN /\ retry \in BOOLEAN
                /\ changes \in 0..MaxChanges
           J == /\ job \in CrSpec \cup {None} /\ (job = None => view = None)
                /\ job # None => view = [g \in Group |-> view[g]]
<1>0. C /\ J
  BY DEF Types, TypeOK
<1>1. changes' \in 0..MaxChanges
  <2>1. Change => changes' \in 0..MaxChanges
    BY <1>0, BridgeBounds DEF Change
  <2>2. Change \/ UNCHANGED changes
    BY Zenon DEF Next, ApplyGroup, DropGroup, Flip, ResyncDone, Emit, Subscribe, Lagged,
      RecvEvent, Tick, ThresholdPasses, EditSpec, Watch, StartReconcile, ReadOn,
      FailReconcile, FinishReconcile, RetryTimer, vars
  <2> QED BY <1>0, <2>1, <2>2
<1>2. CASE ApplyGroup \/ DropGroup \/ Flip \/ ResyncDone \/ Emit \/ Subscribe
            \/ ThresholdPasses \/ EditSpec \/ UNCHANGED vars
  <2>1. spec' \in CrSpec
    BY <1>0, <1>2 DEF ApplyGroup, DropGroup, Flip, ResyncDone, Emit, Subscribe,
      ThresholdPasses, EditSpec, vars
  <2>2. UNCHANGED <<cached, due, retry, job, view>>
    BY <1>2, Zenon DEF ApplyGroup, DropGroup, Flip, ResyncDone, Emit, Subscribe,
      ThresholdPasses, EditSpec, vars, controller
  <2> QED BY <1>0, <1>1, <2>1, <2>2, ZenonT(30)
<1>3. CASE Lagged \/ RecvEvent \/ Tick \/ Watch \/ RetryTimer
  <2>1. due' \in BOOLEAN
    BY <1>0, <1>3, Zenon DEF Lagged, RecvEvent, Tick, Watch, RetryTimer, TriggerAll
  <2>2. retry' \in BOOLEAN /\ UNCHANGED <<spec, job, view>> /\ cached' \in {cached, spec}
    BY <1>0, <1>3, ZenonT(30) DEF Lagged, RecvEvent, Tick, Watch, RetryTimer, TriggerAll
  <2> QED BY <1>0, <1>1, <2>1, <2>2, ZenonT(30)
<1>4. CASE StartReconcile
  <2>1. due' \in BOOLEAN /\ retry' \in BOOLEAN
    BY <1>4, Zenon DEF StartReconcile, Report
  <2>2. UNCHANGED <<spec, cached>>
    BY <1>4 DEF StartReconcile
  <2>3. CASE UNCHANGED <<job, view>>
    BY <1>0, <1>1, <2>1, <2>2, <2>3, ZenonT(30)
  <2>4. CASE job' = cached /\ view' = mirror
    <3>1. cached \in CrSpec /\ cached # None
      BY <1>0, <1>4 DEF StartReconcile, Awake
    <3>2. mirror = [g \in Group |-> mirror[g]]
      BY DEF Types, TypeOK, Mirror
    <3> QED BY <1>0, <1>1, <2>1, <2>2, <2>4, <3>1, <3>2, ZenonT(30)
  <2> QED BY <1>4, <2>3, <2>4 DEF StartReconcile
<1>5. CASE ReadOn
  <2>1. UNCHANGED <<spec, cached, due, retry, job>> /\ job # None
    BY <1>5 DEF ReadOn
  <2>2. PICK g \in Group : \E x : view' = [view EXCEPT ![g] = x]
    BY <1>5, Zenon DEF ReadOn
  <2>3. view' = [h \in Group |-> view'[h]]
    BY <1>0, <2>1, <2>2, Zenon
  <2> QED BY <1>0, <1>1, <2>1, <2>3, ZenonT(30)
<1>6. CASE FailReconcile \/ FinishReconcile
  <2>1. due' \in BOOLEAN /\ retry' \in BOOLEAN
    BY <1>0, <1>6, Zenon DEF FailReconcile, FinishReconcile, Report
  <2>2. UNCHANGED <<spec, cached>> /\ job' = None /\ view' = None
    BY <1>6, Zenon DEF FailReconcile, FinishReconcile
  <2> QED BY <1>0, <1>1, <2>1, <2>2, Zenon
<1> QED BY <1>2, <1>3, <1>4, <1>5, <1>6, ZenonT(30) DEF Next

-----------------------------------------------------------------------------
(* No event of a group is lost on its way *)

\* The engine's emit hands the event over, or pushes an older one out of a full
\* channel, and then the receiver lags.
LEMMA EmitKeepsComing ==
  ASSUME Types, Emit, subscribed, NEW g \in Group, Coming(g)
  PROVE  Coming(g)'
<1>0. /\ outbox \in Seq(Event \cup {Touch}) /\ outbox # <<>> /\ outbox' = Tail(outbox)
      /\ ch \in Seq(Event) /\ Len(ch) <= Capacity /\ Capacity \in Nat /\ Capacity > 0
  BY BridgeBounds DEF Types, TypeOK, Emit
<1>1. \A i \in DOMAIN outbox : i # 1 => /\ i - 1 \in DOMAIN outbox'
                                        /\ outbox'[i - 1] = outbox[i]
  BY <1>0
<1>2. outbox[1] = Head(outbox)
  BY <1>0
<1>3. CASE Head(outbox) = Touch
  <2>1. UNCHANGED <<ch, lagged>>
    BY <1>3 DEF Emit
  <2>2. ASSUME NEW i \in DOMAIN outbox, outbox[i] = g PROVE Coming(g)'
    <3>1. i # 1
      BY <1>2, <1>3, <2>2, BridgeValues, SMTT(20)
    <3> QED BY <1>1, <2>2, <3>1 DEF Coming
  <2> QED BY <2>1, <2>2, Zenon DEF Coming
<1>4. CASE Head(outbox) # Touch
  <2> DEFINE kept == IF Len(ch) = Capacity THEN Tail(ch) ELSE ch
  <2>1. /\ ch' = Append(kept, Head(outbox))
        /\ lagged' = (lagged \/ (subscribed /\ Len(ch) = Capacity))
    BY <1>4, Zenon DEF Emit, Send
  <2>2. CASE Len(ch) = Capacity
    <3>1. lagged'
      BY <2>1, <2>2, ZenonT(30)
    <3> QED BY <3>1 DEF Coming
  <2>3. CASE Len(ch) # Capacity
    <3>1. ch' = Append(ch, Head(outbox))
      BY <2>1, <2>3
    <3>2. /\ \A i \in DOMAIN ch : i \in DOMAIN ch' /\ ch'[i] = ch[i]
          /\ Len(ch) + 1 \in DOMAIN ch' /\ ch'[Len(ch) + 1] = Head(outbox)
      BY <1>0, <3>1
    <3>3. CASE lagged
      <4>1. lagged'
        BY <2>1, <3>3, ZenonT(30)
      <4> QED BY <4>1 DEF Coming
    <3>4. ASSUME NEW i \in DOMAIN outbox, outbox[i] = g PROVE Coming(g)'
      <4>1. CASE i = 1
        BY <1>2, <3>2, <3>4, <4>1, SMTT(20) DEF Coming
      <4>2. CASE i # 1
        BY <1>1, <3>4, <4>2, SMTT(20) DEF Coming
      <4> QED BY <4>1, <4>2
    <3>5. ASSUME NEW i \in DOMAIN ch, ch[i] = g PROVE Coming(g)'
      BY <3>2, <3>5 DEF Coming
    <3> QED BY <3>3, <3>4, <3>5, ZenonT(30) DEF Coming
  <2> QED BY <2>2, <2>3
<1> QED BY <1>3, <1>4

\* The bridge takes one event out of the channel.
LEMMA RecvKeepsComing ==
  ASSUME Types, RecvEvent, NEW g \in Group, Coming(g), Head(ch) # g
  PROVE  Coming(g)'
<1>0. /\ ch \in Seq(Event) /\ ch # <<>> /\ ch' = Tail(ch) /\ ~lagged
      /\ UNCHANGED outbox
  BY DEF Types, RecvEvent, engine
<1>1. \A i \in DOMAIN ch : i # 1 => i - 1 \in DOMAIN ch' /\ ch'[i - 1] = ch[i]
  BY <1>0
<1>2. ch[1] = Head(ch)
  BY <1>0
<1>3. ASSUME NEW i \in DOMAIN ch, ch[i] = g PROVE Coming(g)'
  <2>1. i # 1
    BY <1>2, <1>3
  <2> QED BY <1>1, <1>3, <2>1 DEF Coming
<1> QED BY <1>0, <1>3, ZenonT(30) DEF Coming

\* A commit changes the mirror only in a group it has an event for, and keeps what
\* is on its way.
LEMMA CommitKeepsComing ==
  ASSUME Types, ApplyGroup \/ DropGroup \/ Flip \/ ResyncDone, NEW g \in Group
  PROVE  /\ Coming(g) => Coming(g)'
         /\ mirror'[g] # mirror[g] => Coming(g)'
<1>0. mirror \in [Group -> Content \cup {None}]
  BY DEF Types, TypeOK, Mirror
<1>1. outbox = <<>> /\ UNCHANGED <<ch, lagged>>
  BY DEF ApplyGroup, DropGroup, Flip, ResyncDone, channel
<1>2. Coming(g) => Coming(g)'
  BY <1>1 DEF Coming
<1>3. ASSUME mirror'[g] # mirror[g] PROVE Coming(g)'
  <2>1. CASE ApplyGroup
    <3>1. PICK h \in Group, c \in Content :
            /\ mirror' = [mirror EXCEPT ![h] = c]
            /\ outbox' = EventsOf(h, mirror[h], c) \o <<Touch>>
      BY <2>1, Zenon DEF ApplyGroup
    <3>2. h = g /\ c # mirror[g]
      BY <1>0, <1>3, <3>1
    <3>3. /\ EventsOf(g, mirror[g], c) \in Seq(Event)
          /\ \E i \in DOMAIN EventsOf(g, mirror[g], c) : EventsOf(g, mirror[g], c)[i] = g
      BY <1>0, <3>2, EventsTell, Zenon
    <3> DEFINE evs == EventsOf(g, mirror[g], c)
    <3>4. evs \in Seq(Event) /\ outbox' = evs \o <<Touch>>
      BY <3>1, <3>2, <3>3
    <3>5. PICK i \in DOMAIN evs : evs[i] = g
      BY <3>3
    <3> HIDE DEF evs
    <3>6. i \in DOMAIN outbox' /\ outbox'[i] = evs[i]
      BY <3>4
    <3> QED BY <3>5, <3>6, SMTT(40) DEF Coming
  <2>2. CASE DropGroup
    <3>1. PICK h \in Group : mirror' = [mirror EXCEPT ![h] = None] /\ outbox' = <<h>>
      BY <2>2, Zenon DEF DropGroup
    <3>2. h = g
      BY <1>0, <1>3, <3>1
    <3>3. 1 \in DOMAIN outbox' /\ outbox'[1] = g
      BY <3>1, <3>2
    <3> QED BY <3>3 DEF Coming
  <2>3. CASE Flip \/ ResyncDone
    BY <1>3, <2>3 DEF Flip, ResyncDone
  <2> QED BY <2>1, <2>2, <2>3
<1> QED BY <1>2, <1>3

-----------------------------------------------------------------------------
(* Awake and Ticking are inductive *)

\* A reconcile that has read the referenced groups as the mirror has them renders
\* what a fresh one would.
LEMMA SameRender ==
  ASSUME NEW r \in CrSpec, NEW m1, NEW m2, \A g \in ReferencedGroups(r) : m1[g] = m2[g]
  PROVE  render(r, m1) = render(r, m2)
<1>1. IsList(r.dataFrom) /\ IsList(r.data)
  BY BridgeSpecs, Zenon DEF IsList
<1> QED BY <1>1, RenderReads, Zenon

\* Steps of the engine: what has been rendered or read stays right unless an event
\* says otherwise.
LEMMA EngineKeepsAwake ==
  ASSUME Types, Awake,
         ApplyGroup \/ DropGroup \/ Flip \/ ResyncDone \/ Emit
  PROVE  Awake'
<1>0. /\ UNCHANGED <<cached, subscribed, due, retry, job, view, result>>
      /\ cached \in CrSpec \cup {None}
  BY DEF Types, TypeOK, ApplyGroup, DropGroup, Flip, ResyncDone, Emit, channel, controller
<1>1. cached # None => cached \in CrSpec /\ ReferencedGroups(cached) \subseteq Group
  BY <1>0, BridgeSpecs
<1>2. ASSUME NEW g \in Group, cached # None
      PROVE  /\ Coming(g) => Coming(g)'
             /\ mirror'[g] # mirror[g] => Coming(g)'
  <2>1. CASE Emit
    <3>1. UNCHANGED mirror /\ subscribed
      BY <1>2, <2>1 DEF Emit, Awake
    <3> QED BY <2>1, <3>1, EmitKeepsComing, SMTT(20)
  <2> QED BY <2>1, CommitKeepsComing
<1>3. ASSUME ~due', job' # None
      PROVE  /\ job' = cached'
             /\ \A g \in ReferencedGroups(cached') : view'[g] = mirror'[g] \/ Coming(g)'
  <2>1. ~due /\ job # None
    BY <1>0, <1>3, SMTT(20)
  <2>2. /\ job = cached /\ cached # None
        /\ \A g \in ReferencedGroups(cached) : view[g] = mirror[g] \/ Coming(g)
    BY <2>1 DEF Awake
  <2>3. ASSUME NEW g \in ReferencedGroups(cached)
        PROVE  view[g] = mirror'[g] \/ Coming(g)'
    BY <1>1, <1>2, <2>2, SMTT(20)
  <2> QED BY <1>0, <2>2, <2>3
<1>4. ASSUME ~due', ~retry', job' = None, cached' # None
      PROVE  \/ result'.data = render(cached', mirror')
             \/ \E g \in ReferencedGroups(cached') : Coming(g)'
  <2>1. ~due /\ ~retry /\ job = None /\ cached # None
    BY <1>0, <1>4
  <2>2. CASE \E g \in ReferencedGroups(cached) : Coming(g)
    BY <1>0, <1>1, <1>2, <2>1, <2>2, SMTT(40)
  <2>3. CASE \E g \in ReferencedGroups(cached) : mirror'[g] # mirror[g]
    BY <1>0, <1>1, <1>2, <2>1, <2>3, SMTT(20)
  <2>4. CASE /\ result.data = render(cached, mirror)
             /\ \A g \in ReferencedGroups(cached) : mirror'[g] = mirror[g]
    <3>1. render(cached, mirror) = render(cached, mirror')
      BY <1>1, <2>1, <2>4, SameRender
    <3> QED BY <1>0, <2>4, <3>1
  <2> QED BY <2>1, <2>2, <2>3, <2>4, SMTT(20) DEF Awake
<1>5. /\ due' \/ retry' \/ job' # None => cached' # None
      /\ cached' # None => subscribed'
  BY <1>0, SMTT(20) DEF Awake
<1> QED BY <1>3, <1>4, <1>5, ZenonT(30) DEF Awake

\* Steps of the bridge: an event that is taken out of the channel wakes the
\* resource up if it refers to the group.
LEMMA BridgeKeepsAwake ==
  ASSUME Types, Awake, Subscribe \/ Lagged \/ RecvEvent \/ Tick \/ ThresholdPasses
  PROVE  Awake'
<1>0. /\ UNCHANGED <<mirror, cached, retry, job, view, result, outbox>>
      /\ cached \in CrSpec \cup {None}
  BY DEF Types, TypeOK, Subscribe, Lagged, RecvEvent, Tick, ThresholdPasses, engine,
    controller
<1>1. cached # None => cached \in CrSpec /\ ReferencedGroups(cached) \subseteq Group
  BY <1>0, BridgeSpecs
<1>2. /\ due => due'
      /\ due' => due \/ cached # None
      /\ subscribed => subscribed'
  <2>1. CASE Subscribe \/ ThresholdPasses
    <3>1. UNCHANGED due /\ (subscribed' = TRUE \/ UNCHANGED subscribed)
      BY <2>1 DEF Subscribe, ThresholdPasses, channel, controller
    <3> QED BY <3>1
  <2>2. CASE Lagged
    BY <2>2, Zenon DEF Lagged, TriggerAll
  <2>3. CASE RecvEvent
    BY <2>3, Zenon DEF RecvEvent
  <2>4. CASE Tick
    BY <2>4, Zenon DEF Tick, TriggerAll, channel
  <2> QED BY <2>1, <2>2, <2>3, <2>4, ZenonT(30)
<1>3. ASSUME ~due', cached # None, NEW g \in ReferencedGroups(cached), Coming(g)
      PROVE  Coming(g)'
  <2>1. CASE Lagged
    BY <1>3, <2>1, Zenon DEF Lagged, TriggerAll
  <2>2. CASE RecvEvent
    <3>1. g \in Group
      BY <1>1, <1>3
    <3>2. g \notin {Connected, Disconnected}
      BY <3>1, BridgeValues
    <3>3. Head(ch) # g
      BY <1>3, <2>2, <3>2, Zenon DEF RecvEvent
    <3> QED BY <1>3, <2>2, <3>1, <3>3, RecvKeepsComing, SMTT(20)
  <2>3. CASE Subscribe \/ Tick \/ ThresholdPasses
    <3>1. UNCHANGED <<ch, lagged>>
      BY <2>3, ZenonT(30) DEF Subscribe, Tick, ThresholdPasses, channel
    <3> QED BY <1>0, <1>3, <3>1, Zenon DEF Coming
  <2> QED BY <2>1, <2>2, <2>3
<1>4. ASSUME ~due', job' # None
      PROVE  /\ job' = cached'
             /\ \A g \in ReferencedGroups(cached') : view'[g] = mirror'[g] \/ Coming(g)'
  <2>1. ~due /\ job # None /\ cached # None
    BY <1>0, <1>2, <1>4, SMTT(20) DEF Awake
  <2>2. job = cached /\ \A g \in ReferencedGroups(cached) : view[g] = mirror[g] \/ Coming(g)
    BY <2>1 DEF Awake
  <2> QED BY <1>0, <1>3, <1>4, <2>1, <2>2, SMTT(20)
<1>5. ASSUME ~due', ~retry', job' = None, cached' # None
      PROVE  \/ result'.data = render(cached', mirror')
             \/ \E g \in ReferencedGroups(cached') : Coming(g)'
  <2>1. ~due /\ ~retry /\ job = None /\ cached # None
    BY <1>0, <1>2, <1>5
  <2>2. CASE \E g \in ReferencedGroups(cached) : Coming(g)
    BY <1>0, <1>3, <1>5, <2>1, <2>2, SMTT(20)
  <2>3. CASE result.data = render(cached, mirror)
    BY <1>0, <2>3
  <2> QED BY <2>1, <2>2, <2>3 DEF Awake
<1>6. /\ due' \/ retry' \/ job' # None => cached' # None
      /\ cached' # None => subscribed'
  BY <1>0, <1>2, ZenonT(30) DEF Awake
<1> QED BY <1>4, <1>5, <1>6, Zenon DEF Awake

\* Steps of the resource and the controller: a reconcile starts from the mirror as
\* it is, and one that ends leaves a wake-up behind unless what it read still holds.
LEMMA ControllerKeepsAwake ==
  ASSUME Types, Awake,
         \/ EditSpec \/ Watch \/ StartReconcile \/ ReadOn \/ FailReconcile
         \/ FinishReconcile \/ RetryTimer
  PROVE  Awake'
<1>0. /\ UNCHANGED <<mirror, subscribed, outbox, ch, lagged>>
      /\ cached \in CrSpec \cup {None} /\ spec \in CrSpec /\ None \notin CrSpec
  BY BridgeSpecs DEF Types, TypeOK, EditSpec, Watch, StartReconcile, ReadOn, FailReconcile,
    FinishReconcile, RetryTimer, engine, channel
<1>1. \A g : Coming(g)' = Coming(g)
  BY <1>0, Zenon DEF Coming
<1>2. CASE EditSpec
  <2>1. UNCHANGED <<cached, due, retry, job, view, result>>
    BY <1>2 DEF EditSpec, controller
  <2> QED BY <1>0, <1>1, <2>1, ZenonT(30) DEF Awake
<1>3. CASE Watch
  <2>1. due' = TRUE /\ cached' # None /\ subscribed
    BY <1>0, <1>3 DEF Watch
  <2> QED BY <1>0, <2>1, Zenon DEF Awake
<1>4. CASE StartReconcile
  <2>1. due /\ job = None /\ cached # None /\ UNCHANGED cached
    BY <1>4 DEF StartReconcile, Awake
  <2>2. CASE job' = cached /\ view' = mirror
    BY <1>0, <2>1, <2>2, ZenonT(30) DEF Awake
  <2>3. CASE retry' = TRUE /\ UNCHANGED job
    BY <1>0, <2>1, <2>3, ZenonT(30) DEF Awake
  <2> QED BY <1>4, <2>2, <2>3, ZenonT(30) DEF StartReconcile
<1>5. CASE ReadOn
  <2>1. UNCHANGED <<cached, due, retry, job, result>> /\ job # None
    BY <1>5 DEF ReadOn
  <2>2. PICK g \in Group : view[g] # mirror[g] /\ \E x : view' = [view EXCEPT ![g] = x]
    BY <1>5, Zenon DEF ReadOn
  <2>3. \A h \in Group : h # g => view'[h] = view[h]
    BY <2>1, <2>2, SMTT(20) DEF Types
  <2>4. ASSUME ~due PROVE /\ job = cached
                          /\ \A h \in ReferencedGroups(cached) :
                               view'[h] = mirror[h] \/ Coming(h)
    <3>1. /\ job = cached
          /\ \A h \in ReferencedGroups(cached) : view[h] = mirror[h] \/ Coming(h)
      BY <2>1, <2>4 DEF Awake
    <3>2. ReferencedGroups(cached) \subseteq Group
      BY <1>0, <2>1, <3>1, BridgeSpecs, SMTT(20)
    <3> QED BY <2>2, <2>3, <3>1, <3>2, SMTT(20)
  <2>5. cached # None /\ subscribed
    BY <2>1 DEF Awake
  <2> QED BY <1>0, <1>1, <2>1, <2>4, <2>5, ZenonT(30) DEF Awake
<1>6. CASE FailReconcile
  <2>1. retry' = TRUE /\ job' = None /\ job # None /\ UNCHANGED cached
    BY <1>6 DEF FailReconcile
  <2>2. cached # None /\ subscribed
    BY <2>1 DEF Awake
  <2> QED BY <1>0, <2>1, <2>2, ZenonT(30) DEF Awake
<1>7. CASE FinishReconcile
  <2>1. /\ job # None /\ job' = None /\ UNCHANGED cached
        /\ result'.data = render(job, view)
    BY <1>7 DEF FinishReconcile, Report
  <2>2. ~due' => ~due
    BY <1>7, <2>1, ZenonT(30) DEF FinishReconcile, Report
  <2>3. cached # None /\ subscribed
    BY <2>1 DEF Awake
  <2>4. ASSUME ~due' PROVE \/ result'.data = render(cached, mirror)
                           \/ \E g \in ReferencedGroups(cached) : Coming(g)
    <3>1. /\ job = cached
          /\ \A g \in ReferencedGroups(cached) : view[g] = mirror[g] \/ Coming(g)
      BY <2>1, <2>2, <2>4, SMTT(20) DEF Awake
    <3>2. CASE \A g \in ReferencedGroups(cached) : view[g] = mirror[g]
      <4>1. render(cached, view) = render(cached, mirror)
        BY <1>0, <2>3, <3>2, SameRender, SMTT(20)
      <4> QED BY <2>1, <3>1, <4>1, SMTT(20)
    <3> QED BY <3>1, <3>2, SMTT(20)
  <2> QED BY <1>0, <1>1, <2>1, <2>3, <2>4, ZenonT(30) DEF Awake
<1>8. CASE RetryTimer
  <2>1. retry /\ due' = TRUE /\ UNCHANGED <<cached, job>>
    BY <1>8 DEF RetryTimer
  <2>2. cached # None /\ subscribed
    BY <2>1 DEF Awake
  <2> QED BY <1>0, <2>1, <2>2, ZenonT(30) DEF Awake
<1> QED BY <1>2, <1>3, <1>4, <1>5, <1>6, <1>7, <1>8, SMTT(20)

\* The staleness ticker: steps that do not touch the clock, the controller and the
\* reflector's copy keep Ticking, and each of the others wakes the resource up or
\* reports what the clock says.
LEMMA TickingInductive ==
  ASSUME Types, Awake, Ticking, [Next]_vars
  PROVE  Ticking'
<1>0. wasStale \in BOOLEAN /\ due \in BOOLEAN
  BY DEF Types, TypeOK
<1>1. CASE \/ ApplyGroup \/ DropGroup \/ Flip \/ ResyncDone \/ Emit \/ Subscribe
           \/ EditSpec \/ ReadOn \/ UNCHANGED vars
  <2>1. UNCHANGED <<clock, wasStale, cached, due, retry, result>> /\ UNCHANGED job
    BY <1>1, Zenon DEF ApplyGroup, DropGroup, Flip, ResyncDone, Emit, Subscribe, EditSpec,
      ReadOn, vars, staleness, controller
  <2> QED BY <2>1, Zenon DEF Ticking
<1>2. CASE Lagged
  <2>1. UNCHANGED <<clock, wasStale, cached, retry, result, job>> /\ (due => due')
    BY <1>2, Zenon DEF Lagged, TriggerAll, staleness
  <2> QED BY <2>1, Zenon DEF Ticking
<1>3. CASE RecvEvent
  <2>1. UNCHANGED <<wasStale, cached, retry, result, job>> /\ (due => due')
    BY <1>3, Zenon DEF RecvEvent
  <2>2. clock' \in {clock, "up", "fresh"}
    BY <1>3, Zenon DEF RecvEvent, SetConnected
  <2>3. clock' # clock => clock' # "stale" /\ clock' # "ticked"
    BY <2>2
  <2> QED BY <2>1, <2>3, Zenon DEF Ticking
<1>4. CASE Tick
  <2>1. UNCHANGED <<cached, retry, result, job>> /\ (due => due')
    BY <1>4, Zenon DEF Tick, TriggerAll
  <2>2. CASE clock = "stale"
    <3>1. wasStale' = TRUE /\ clock' = "stale"
      BY <1>4, <2>2, Zenon DEF Tick
    <3>2. CASE wasStale
      BY <2>1, <2>2, <3>1, <3>2, ZenonT(30) DEF Ticking
    <3>3. CASE ~wasStale
      <4>1. cached # None => due'
        BY <1>0, <1>4, <3>1, <3>3, ZenonT(30) DEF Tick, TriggerAll
      <4> QED BY <2>1, <3>1, <4>1, ZenonT(30) DEF Ticking
    <3> QED BY <3>2, <3>3
  <2>3. CASE clock # "stale"
    <3>1. wasStale' = FALSE
      BY <1>4, <2>3, ZenonT(30) DEF Tick
    <3> QED BY <3>1, Zenon DEF Ticking
  <2> QED BY <2>2, <2>3
<1>5. CASE ThresholdPasses
  <2>1. clock = "ticked" /\ clock' = "stale" /\ UNCHANGED wasStale
    BY <1>5 DEF ThresholdPasses
  <2>2. ~wasStale
    BY <2>1 DEF Ticking
  <2> QED BY <2>1, <2>2, ZenonT(30) DEF Ticking
<1>6. CASE Watch \/ RetryTimer
  <2>1. due' = TRUE /\ UNCHANGED <<clock, wasStale>>
    BY <1>6 DEF Watch, RetryTimer, staleness
  <2> QED BY <2>1, ZenonT(30) DEF Ticking
<1>7. CASE StartReconcile
  <2>1. due /\ job = None /\ cached # None /\ UNCHANGED <<clock, wasStale>>
    BY <1>7 DEF StartReconcile, staleness, Awake
  <2>2. job' # None \/ retry' = TRUE
    BY <1>7, <2>1, ZenonT(30) DEF StartReconcile
  <2> QED BY <2>1, <2>2, ZenonT(30) DEF Ticking
<1>8. CASE FailReconcile
  <2>1. retry' = TRUE /\ UNCHANGED <<clock, wasStale>>
    BY <1>8 DEF FailReconcile, staleness
  <2> QED BY <2>1, ZenonT(30) DEF Ticking
<1>9. CASE FinishReconcile
  <2>1. /\ UNCHANGED <<clock, wasStale>>
        /\ result' = [data |-> render(job, view),
                      stale |-> render(job, view).ok /\ clock = "stale"]
    BY <1>9 DEF FinishReconcile, Report, staleness
  <2>2. clock = "stale" => result'.stale \/ ~result'.data.ok
    BY <2>1, ZenonT(30)
  <2> QED BY <2>1, <2>2, ZenonT(30) DEF Ticking
<1> QED BY <1>1, <1>2, <1>3, <1>4, <1>5, <1>6, <1>7, <1>8, <1>9, ZenonT(30) DEF Next

-----------------------------------------------------------------------------
(* The theorems *)

\* The inductive invariant holds in every reachable state.
LEMMA BridgeInvHolds == Spec => []BridgeInv
<1>1. Init => BridgeInv
  <2> SUFFICES ASSUME Init PROVE BridgeInv
    OBVIOUS
  <2>1. outbox = <<>> /\ ch = <<>> /\ outbox \in Seq(Event \cup {Touch}) /\ ch \in Seq(Event)
        /\ Len(ch) = 0 /\ 0 <= Capacity /\ 0 \in 0..MaxChanges
    BY BridgeBounds DEF Init
  <2>2. TypeOK
    <3>1. mirror \in Mirror
      BY BridgeValues DEF Init, Mirror
    <3>2. /\ \A i \in DOMAIN outbox : outbox[i] \in Event \cup {Touch}
          /\ \A i \in DOMAIN ch : ch[i] \in Event
          /\ Len(ch) <= Capacity
      BY <2>1
    <3>3. clock \in {"up", "fresh", "ticked", "stale"}
      BY DEF Init
    <3> QED BY <2>1, <3>1, <3>2, <3>3, ZenonT(30) DEF Init, TypeOK
  <2>3. Types
    BY <2>1, <2>2, ZenonT(30) DEF Init, Types
  <2>4. Awake
    BY Zenon DEF Init, Awake
  <2>5. Ticking
    BY Zenon DEF Init, Ticking
  <2> QED BY <2>3, <2>4, <2>5 DEF BridgeInv
<1>2. BridgeInv /\ [Next]_vars => BridgeInv'
  <2> SUFFICES ASSUME Types, Awake, Ticking, [Next]_vars PROVE BridgeInv'
    BY DEF BridgeInv
  <2>1. Types'
    <3>1. Queues'
      BY QueuesInductive
    <3>2. /\ mirror' \in Mirror /\ up' \in BOOLEAN /\ synced' \in BOOLEAN
          /\ subscribed' \in BOOLEAN /\ lagged' \in BOOLEAN
          /\ clock' \in {"up", "fresh", "ticked", "stale"} /\ wasStale' \in BOOLEAN
      <4>1. TypeOK
        BY DEF Types
      <4> QED BY <4>1, EngineTypesInductive
    <3>3. /\ spec' \in CrSpec /\ cached' \in CrSpec \cup {None}
          /\ due' \in BOOLEAN /\ retry' \in BOOLEAN
          /\ job' \in CrSpec \cup {None} /\ (job' = None => view' = None)
          /\ job' # None => view' = [g \in Group |-> view'[g]]
          /\ changes' \in 0..MaxChanges
      BY ControllerTypesInductive
    <3>4. /\ outbox' \in Seq(Event \cup {Touch}) /\ ch' \in Seq(Event) /\ Len(ch') <= Capacity
      BY <3>1 DEF Queues
    <3>5. /\ \A i \in DOMAIN outbox' : outbox'[i] \in Event \cup {Touch}
          /\ \A i \in DOMAIN ch' : ch'[i] \in Event
      BY <3>4
    <3>6. IF job' = None THEN view' = None ELSE DOMAIN view' = Group
      BY <3>3
    <3>7. TypeOK'
      BY <3>2, <3>3, <3>4, <3>5, <3>6, ZenonT(30) DEF TypeOK
    <3> QED BY <3>3, <3>4, <3>7, ZenonT(30) DEF Types
  <2>2. Awake'
    <3>1. CASE UNCHANGED vars
      <4>1. UNCHANGED <<cached, subscribed, due, retry, job, view, result, mirror, lagged>>
            /\ UNCHANGED <<outbox, ch>>
        BY <3>1, Zenon DEF vars, engine, channel, controller
      <4> QED BY <4>1, Zenon DEF Awake, Coming
    <3> QED BY <3>1, EngineKeepsAwake, BridgeKeepsAwake, ControllerKeepsAwake, ZenonT(30) DEF Next
  <2>3. Ticking'
    BY TickingInductive
  <2> QED BY <2>1, <2>2, <2>3, SMTT(20) DEF BridgeInv
<1> QED BY <1>1, <1>2, PTL DEF Spec

\* The receiver's part of the channel never holds more than EVENTS_CAPACITY
\* events, a reconcile under way has the mirror's groups in its view, and the
\* other variables keep their types (events.rs, replica.rs).
THEOREM BridgeTypes == Spec => []TypeOK
<1>1. BridgeInv => TypeOK
  BY DEF BridgeInv, Types
<1> QED BY <1>1, BridgeInvHolds, PTL

\* When no wake-up is on its way any more, the last reconcile rendered what the
\* mirror holds for the present spec, for every channel capacity, set of groups,
\* contents and specs, and however many commits, overflows, edits and reconciles
\* interleave (events.rs spawn_event_bridge, render.rs render).
THEOREM BridgeMissesNothing == Spec => []NoMissedWakeup
<1>1. BridgeInv => NoMissedWakeup
  <2> SUFFICES ASSUME Types, Awake, Settled PROVE result.data = render(spec, mirror)
    BY DEF BridgeInv, NoMissedWakeup
  <2>1. cached = spec /\ cached # None
    BY BridgeSpecs DEF Types, TypeOK, Settled
  <2>2. ~lagged /\ outbox = <<>> /\ ch = <<>>
    BY DEF Settled
  <2>3. \A g : ~Coming(g)
    BY <2>2, SMTT(20) DEF Coming
  <2> QED BY <2>1, <2>3, ZenonT(30) DEF Awake, Settled
<1> QED BY <1>1, BridgeInvHolds, PTL

\* Once the ticker has seen the threshold pass and no wake-up is on its way, the
\* resource reports StaleReplica unless its render fails (events.rs
\* spawn_event_bridge): a tick wakes every resource up, and between a
\* disconnect and the threshold one falls that forgets the earlier outage.
THEOREM BridgeReportsStale == Spec => []StaleIsReported
<1>1. BridgeInv => StaleIsReported
  <2> SUFFICES ASSUME Types, Ticking, Settled, clock = "stale", wasStale
               PROVE  result.stale \/ ~result.data.ok
    BY DEF BridgeInv, StaleIsReported
  <2>1. cached # None
    BY BridgeSpecs DEF Types, TypeOK, Settled
  <2> QED BY <2>1, ZenonT(30) DEF Ticking, Settled
<1> QED BY <1>1, BridgeInvHolds, PTL

-----------------------------------------------------------------------------
(* What the steps of a loop leave in the accumulator *)

IsAcc(a) == a = [out |-> a.out, invalid |-> a.invalid, error |-> a.error]

\* the render goes on, and can succeed
Clean(a) == a.error = "" /\ a.invalid = {}

\* From a to r a step stayed clean if it was good, and then set the keys K to
\* the values V and no others.
Sets(a, r, good, K, V) ==
  /\ IsAcc(r)
  /\ Clean(r) <=> Clean(a) /\ good
  /\ Clean(r) => /\ DOMAIN r.out = DOMAIN a.out \cup K
                 /\ \A k \in K : r.out[k] = V[k]
                 /\ \A k \in DOMAIN a.out \ K : r.out[k] = a.out[k]

\* i is the last of the first n sets that has k.
IsLast(i, n, K, k) == i \in 1..n /\ k \in K[i] /\ \A j \in (i + 1)..n : k \notin K[j]

\* What n such steps leave: clean if all were good, and every key has the value
\* of the last step that set it.
Steps(a, r, n, G, K, V) ==
  /\ IsAcc(r)
  /\ Clean(r) <=> Clean(a) /\ \A i \in 1..n : G[i]
  /\ Clean(r) => /\ \A k : k \in DOMAIN r.out <=>
                           k \in DOMAIN a.out \/ \E i \in 1..n : k \in K[i]
                 /\ \A k, i : IsLast(i, n, K, k) => r.out[k] = V[i][k]
                 /\ \A k \in DOMAIN a.out :
                      (\A i \in 1..n : k \notin K[i]) => r.out[k] = a.out[k]

\* A run of such steps does.
LEMMA Chain ==
  ASSUME NEW n \in Nat, NEW c, NEW G, NEW K, NEW V, IsAcc(c[0]),
         \A i \in 1..n : Sets(c[i - 1], c[i], G[i], K[i], V[i])
  PROVE  Steps(c[0], c[n], n, G, K, V)
<1> DEFINE H == {m \in 0..n : Steps(c[0], c[m], m, G, K, V)}
<1>1. 0 \in H
  <2>1. 1..0 = {} /\ 0 \in 0..n
    OBVIOUS
  <2> QED BY <2>1, Zenon DEF Steps, IsLast
<1>2. ASSUME NEW m \in 0..(n - 1), m \in H PROVE m + 1 \in H
  <2> DEFINE p == m + 1
             a == c[0]
             q == c[m]
             r == c[p]
  <2>1. /\ p \in 1..n /\ p \in 0..n /\ p - 1 = m /\ p \in 1..p /\ p \notin 1..m
        /\ \A i : i \in 1..p <=> i \in 1..m \/ i = p
        /\ (p + 1)..p = {} /\ \A i \in 1..m : p \in (i + 1)..p
        /\ \A i \in 1..m : \A j : j \in (i + 1)..p <=> j \in (i + 1)..m \/ j = p
    OBVIOUS
  <2>2. Steps(a, q, m, G, K, V) /\ Sets(q, r, G[p], K[p], V[p])
    <3>1. Sets(c[p - 1], c[p], G[p], K[p], V[p])
      BY <2>1, Zenon
    <3> QED BY <1>2, <2>1, <3>1, Zenon
  <2> HIDE DEF p, a, q, r
  <2>3. IsAcc(r) /\ (Clean(r) <=> Clean(a) /\ \A i \in 1..p : G[i])
    BY <2>1, <2>2, Zenon DEF Steps, Sets
  <2>4. ASSUME Clean(r)
        PROVE  /\ \A k : k \in DOMAIN r.out <=>
                         k \in DOMAIN a.out \/ \E i \in 1..p : k \in K[i]
               /\ \A k, i : IsLast(i, p, K, k) => r.out[k] = V[i][k]
               /\ \A k \in DOMAIN a.out :
                    (\A i \in 1..p : k \notin K[i]) => r.out[k] = a.out[k]
    <3>1. /\ DOMAIN r.out = DOMAIN q.out \cup K[p]
          /\ \A k \in K[p] : r.out[k] = V[p][k]
          /\ \A k \in DOMAIN q.out \ K[p] : r.out[k] = q.out[k]
      BY <2>2, <2>4, Zenon DEF Sets
    <3>2. /\ \A k : k \in DOMAIN q.out <=> k \in DOMAIN a.out \/ \E i \in 1..m : k \in K[i]
          /\ \A k, i : IsLast(i, m, K, k) => q.out[k] = V[i][k]
          /\ \A k \in DOMAIN a.out : (\A i \in 1..m : k \notin K[i]) => q.out[k] = a.out[k]
      BY <2>2, <2>4, Zenon DEF Sets, Steps
    <3>3. \A k : k \in DOMAIN r.out <=> k \in DOMAIN a.out \/ \E i \in 1..p : k \in K[i]
      BY <2>1, <3>1, <3>2, Zenon
    <3>4. ASSUME NEW k, NEW i, IsLast(i, p, K, k) PROVE r.out[k] = V[i][k]
      <4>1. CASE i = p
        BY <3>1, <3>4, <4>1, Zenon DEF IsLast
      <4>2. CASE i # p
        <5>1. i \in 1..m /\ k \in K[i] /\ k \notin K[p] /\ \A j \in (i + 1)..m : k \notin K[j]
          BY <2>1, <3>4, <4>2, Zenon DEF IsLast
        <5>2. IsLast(i, m, K, k) /\ k \in DOMAIN q.out \ K[p]
          BY <3>2, <5>1, Zenon DEF IsLast
        <5> QED BY <3>1, <3>2, <5>2, Zenon
      <4> QED BY <4>1, <4>2, Zenon
    <3>5. ASSUME NEW k \in DOMAIN a.out, \A i \in 1..p : k \notin K[i] PROVE r.out[k] = a.out[k]
      BY <2>1, <3>1, <3>2, <3>5, Zenon
    <3> QED BY <3>3, <3>4, <3>5, Zenon
  <2>5. Steps(a, r, p, G, K, V)
    BY <2>3, <2>4, Zenon DEF Steps
  <2> QED BY <2>1, <2>5, Zenon DEF a, r, p
<1>3. n \in H
  <2>1. n \in 0..n
    OBVIOUS
  <2> HIDE DEF H
  <2> QED BY <1>1, <1>2, <2>1, UpTo, Zenon
<1> QED BY <1>3, Zenon

\* A run whose steps do so once they start from an accumulator does.
LEMMA Follows ==
  ASSUME NEW n \in Nat, NEW c, NEW G, NEW K, NEW V, IsAcc(c[0]),
         \A i \in 1..n : IsAcc(c[i - 1]) => Sets(c[i - 1], c[i], G[i], K[i], V[i])
  PROVE  Steps(c[0], c[n], n, G, K, V)
<1>1. \A i \in 0..n : IsAcc(c[i])
  <2> DEFINE H == {i \in 0..n : IsAcc(c[i])}
  <2>1. 0 \in H
    BY 0 \in 0..n, Zenon
  <2>2. ASSUME NEW i \in 0..(n - 1), i \in H PROVE i + 1 \in H
    <3>1. i + 1 \in 1..n /\ i + 1 \in 0..n /\ (i + 1) - 1 = i
      OBVIOUS
    <3>2. Sets(c[i], c[i + 1], G[i + 1], K[i + 1], V[i + 1])
      BY <2>2, <3>1, Zenon
    <3> QED BY <3>1, <3>2, Zenon DEF Sets
  <2> HIDE DEF H
  <2>3. \A i \in 0..n : i \in H
    BY <2>1, <2>2, UpTo, Zenon
  <2> QED BY <2>3, Zenon DEF H
<1>2. \A i \in 1..n : Sets(c[i - 1], c[i], G[i], K[i], V[i])
  <2>1. \A i \in 1..n : i - 1 \in 0..n
    OBVIOUS
  <2> QED BY <1>1, <2>1, Zenon
<1> QED BY <1>2, Chain, Zenon

\* A key some step sets is set by a last one, and by one last one.
LEMMA LastExists ==
  ASSUME NEW n \in Nat, NEW K, NEW k
  PROVE  /\ (\E i \in 1..n : k \in K[i]) => \E i : IsLast(i, n, K, k)
         /\ \A i, j : IsLast(i, n, K, k) /\ IsLast(j, n, K, k) => i = j
<1>1. ASSUME NEW i0 \in 1..n, k \in K[i0] PROVE \E i : IsLast(i, n, K, k)
  <2> DEFINE I == {i \in 1..n : k \in K[i]}
  <2>1. I \in SUBSET (1..n) /\ I # {}
    BY <1>1, Zenon
  <2>2. Max(I) \in I /\ \A y \in I : y <= Max(I)
    <3> HIDE DEF I
    <3> QED BY <2>1, MaxIsIndex, Zenon
  <2>3. PICK i \in I : \A y \in I : y <= i
    BY <2>2, Zenon
  <2>4. \A j \in (i + 1)..n : j \in 1..n /\ ~(j <= i)
    BY <2>3
  <2> QED BY <2>3, <2>4, Zenon DEF IsLast
<1>2. ASSUME NEW i, NEW j, IsLast(i, n, K, k), IsLast(j, n, K, k) PROVE i = j
  <2>1. i \in 1..n /\ j \in 1..n /\ j \notin (i + 1)..n /\ i \notin (j + 1)..n
    BY <1>2, Zenon DEF IsLast
  <2> QED BY <2>1
<1> QED BY <1>1, <1>2, Zenon

\* an accumulator and its fields
Holds(r, o, i, e) == IsAcc(r) /\ r.out = o /\ r.invalid = i /\ r.error = e

\* changes of one field
WithOut(a, v) == [a EXCEPT !.out = v]
WithInvalid(a, v) == [a EXCEPT !.invalid = v]
WithError(a, v) == [a EXCEPT !.error = v]

\* A record with the three fields is an accumulator.
LEMMA AccFields ==
  ASSUME NEW o, NEW i, NEW e
  PROVE  Holds([out |-> o, invalid |-> i, error |-> e], o, i, e)
<1> DEFINE r == [out |-> o, invalid |-> i, error |-> e]
<1>1. r.out = o /\ r.invalid = i /\ r.error = e
  OBVIOUS
<1> QED BY <1>1, Zenon DEF IsAcc, Holds

\* Changing one field leaves the others.
LEMMA AccEdits ==
  ASSUME NEW a, IsAcc(a), NEW v
  PROVE  /\ Holds(WithOut(a, v), v, a.invalid, a.error)
         /\ Holds(WithInvalid(a, v), a.out, v, a.error)
         /\ Holds(WithError(a, v), a.out, a.invalid, v)
<1>1. PICK o, i, e : a = [out |-> o, invalid |-> i, error |-> e]
  BY Zenon DEF IsAcc
<1>2. a.out = o /\ a.invalid = i /\ a.error = e
  BY <1>1
<1>3. /\ WithOut(a, v) = [out |-> v, invalid |-> i, error |-> e]
      /\ WithInvalid(a, v) = [out |-> o, invalid |-> v, error |-> e]
      /\ WithError(a, v) = [out |-> o, invalid |-> i, error |-> v]
  BY <1>1 DEF WithOut, WithInvalid, WithError
<1>4. Holds(WithOut(a, v), v, i, e)
  BY <1>3, AccFields
<1>5. Holds(WithInvalid(a, v), o, v, e)
  BY <1>3, AccFields
<1>6. Holds(WithError(a, v), o, i, v)
  BY <1>3, AccFields
<1> QED BY <1>2, <1>4, <1>5, <1>6, Zenon

\* A step after which the render cannot succeed.
LEMMA SpoiledSets ==
  ASSUME NEW a, NEW r, IsAcc(r), ~Clean(r), NEW good, ~(Clean(a) /\ good), NEW K, NEW V
  PROVE  Sets(a, r, good, K, V)
BY Zenon DEF Sets

\* what an assignment got: a value, or an error with its reason
Got(x) == x.got.ok \in BOOLEAN /\ (x.got.ok \/ x.got.reason # "")

\* it got a value, for a key Kubernetes accepts
Good(x) == x.got.ok /\ x.key \in ValidKey

\* One assignment.
LEMMA AssignSets ==
  ASSUME NEW a, IsAcc(a), NEW x, Got(x)
  PROVE  Sets(a, Assign(a, x), Good(x), {x.key}, [k \in {x.key} |-> x.got.value])
<1> DEFINE r == Assign(a, x)
           k == x.key
           v == x.got.value
           V == [y \in {k} |-> v]
           o == a.out
           no == [y \in DOMAIN o \cup {k} |-> IF y = k THEN v ELSE o[y]]
           good == Good(x)
           rs == x.got.reason
           ni == a.invalid \cup {k}
<1>1. (Good(x) <=> x.got.ok /\ k \in ValidKey) /\ (x.got.ok \/ rs # "")
  BY Zenon DEF Good, Got
<1>2. DOMAIN no = DOMAIN o \cup {k} /\ no[k] = v /\ \A y \in DOMAIN o \ {k} : no[y] = o[y]
  BY Zenon
<1>3. CASE a.error # ""
  <2>1. r = a /\ ~Clean(a)
    BY <1>3, Zenon DEF Assign, Clean
  <2> HIDE DEF r, V, k
  <2> QED BY <2>1, SpoiledSets, Zenon DEF r, V, k
<1>4. CASE a.error = "" /\ ~x.got.ok
  <2>1. r = WithError(a, rs)
    BY <1>4, Zenon DEF Assign, WithError
  <2>2. rs # ""
    BY <1>1, <1>4, Zenon
  <2> HIDE DEF r, V, k, rs
  <2>3. IsAcc(r) /\ r.error = rs
    <3>1. Holds(r, a.out, a.invalid, rs)
      BY <2>1, AccEdits, Zenon
    <3> QED BY <3>1, Zenon DEF Holds
  <2>4. ~Clean(r)
    BY <2>2, <2>3, Zenon DEF Clean
  <2> QED BY <1>1, <1>4, <2>3, <2>4, SpoiledSets, Zenon DEF r, V, k
<1>5. CASE a.error = "" /\ x.got.ok /\ k \notin ValidKey
  <2>1. r = WithInvalid(a, ni)
    BY <1>5, Zenon DEF Assign, Insert, WithInvalid
  <2>2. ni # {}
    BY Zenon
  <2> HIDE DEF r, V, k, ni
  <2>3. IsAcc(r) /\ r.invalid = ni
    <3>1. Holds(r, a.out, ni, a.error)
      BY <2>1, AccEdits, Zenon
    <3> QED BY <3>1, Zenon DEF Holds
  <2>4. ~Clean(r)
    BY <2>2, <2>3, Zenon DEF Clean
  <2> QED BY <1>1, <1>5, <2>3, <2>4, SpoiledSets, Zenon DEF r, V, k
<1>6. CASE a.error = "" /\ x.got.ok /\ k \in ValidKey
  <2>1. r = WithOut(a, no)
    BY <1>6, Zenon DEF Assign, Insert, WithOut
  <2> HIDE DEF r, o, no
  <2>3. IsAcc(r) /\ r.out = no /\ r.invalid = a.invalid /\ r.error = a.error
    <3>1. Holds(r, no, a.invalid, a.error)
      BY <2>1, AccEdits, Zenon
    <3> QED BY <3>1, Zenon DEF Holds
  <2>4. V[k] = v
    BY Zenon
  <2> HIDE DEF V, k, v
  <2>5. /\ Clean(r) <=> Clean(a) /\ good
        /\ DOMAIN r.out = DOMAIN a.out \cup {k}
        /\ \A y \in {k} : r.out[y] = V[y]
        /\ \A y \in DOMAIN a.out \ {k} : r.out[y] = a.out[y]
    BY <1>1, <1>2, <1>6, <2>3, <2>4, Zenon DEF Clean, o
  <2>6. Sets(a, r, good, {k}, V)
    BY <2>3, <2>5, Zenon DEF Sets
  <2> QED BY <2>6, Zenon DEF r, V, k, v
<1> QED BY <1>3, <1>4, <1>5, <1>6, Zenon

\* The loop over assignments.
LEMMA AssignSteps ==
  ASSUME NEW b, IsAcc(b), NEW n \in Nat, NEW d, DOMAIN d = 1..n, \A i \in 1..n : Got(d[i])
  PROVE  Steps(b, AssignAll(b, d), n, [i \in 1..n |-> Good(d[i])], [i \in 1..n |-> {d[i].key}],
               [i \in 1..n |-> [k \in {d[i].key} |-> d[i].got.value]])
<1> DEFINE G == [i \in 1..n |-> Good(d[i])]
           K == [i \in 1..n |-> {d[i].key}]
           V == [i \in 1..n |-> [k \in {d[i].key} |-> d[i].got.value]]
<1>1. PICK c : Run(c, n, "assign", {}, b, d)
  BY LoopRuns, Zenon
<1>2. c[0] = b /\ c[n] = AssignAll(b, d) /\ \A i \in 1..n : c[i] = Assign(c[i - 1], d[i])
  <2>1. \A a, x : Body("assign", {}, a, x) = Assign(a, x)
    BY Zenon DEF Body
  <2> QED BY <1>1, <2>1, FoldsAreLoops, Zenon DEF Run
<1>3. \A i \in 1..n : IsAcc(c[i - 1]) => Sets(c[i - 1], c[i], G[i], K[i], V[i])
  <2> SUFFICES ASSUME NEW i \in 1..n, IsAcc(c[i - 1])
               PROVE  Sets(c[i - 1], c[i], G[i], K[i], V[i])
    BY Zenon
  <2>1. G[i] = Good(d[i]) /\ K[i] = {d[i].key} /\ V[i] = [k \in {d[i].key} |-> d[i].got.value]
    BY Zenon
  <2>2. Sets(c[i - 1], Assign(c[i - 1], d[i]), Good(d[i]), {d[i].key},
             [k \in {d[i].key} |-> d[i].got.value])
    BY AssignSets, Zenon
  <2> QED BY <1>2, <2>1, <2>2, Zenon
<1> HIDE DEF G, K, V
<1>4. Steps(c[0], c[n], n, G, K, V)
  BY <1>2, <1>3, Follows, Zenon
<1> QED BY <1>2, <1>4, Zenon DEF G, K, V

-----------------------------------------------------------------------------
(* The order of names *)

\* x comes before y
Before(x, y) ==
  \E i, j \in DOMAIN KeyOrder : i < j /\ KeyOrder[i] = x /\ KeyOrder[j] = y

Sorted(q) == \A i, j \in DOMAIN q : i < j => Before(q[i], q[j])

\* q has the members of S among the first n keys, in order.
Lists(q, S, n) ==
  /\ q \in Seq(Key)
  /\ \A x : (\E j \in DOMAIN q : q[j] = x) <=> x \in S /\ \E i \in 1..n : KeyOrder[i] = x
  /\ Sorted(q)

\* It is a strict order.
LEMMA BeforeOrders == \A x, y : Before(x, y) => ~Before(y, x)
<1>1. /\ DOMAIN KeyOrder \subseteq Nat
      /\ \A i, j \in DOMAIN KeyOrder : KeyOrder[i] = KeyOrder[j] => i = j
  BY RenderKeys
<1>2. \A i, j \in Nat : i < j => ~(j < i)
  OBVIOUS
<1> SUFFICES ASSUME NEW x, NEW y, Before(x, y), Before(y, x) PROVE FALSE
  BY Zenon
<1>3. PICK i, j \in DOMAIN KeyOrder : i < j /\ KeyOrder[i] = x /\ KeyOrder[j] = y
  BY Zenon DEF Before
<1>4. PICK k, l \in DOMAIN KeyOrder : k < l /\ KeyOrder[k] = y /\ KeyOrder[l] = x
  BY Zenon DEF Before
<1>5. i = l /\ j = k
  BY <1>1, <1>3, <1>4, Zenon
<1> QED BY <1>1, <1>2, <1>3, <1>4, <1>5, Zenon

\* Ascending lists a set of keys.
LEMMA AscendingFacts ==
  ASSUME NEW S \in SUBSET Key
  PROVE  /\ Ascending(S) \in Seq(Key) /\ Sorted(Ascending(S))
         /\ \A x : (\E j \in DOMAIN Ascending(S) : Ascending(S)[j] = x) <=> x \in S
<1> DEFINE n == Len(KeyOrder)
<1>1. /\ n \in Nat /\ DOMAIN KeyOrder = 1..n /\ \A i \in 1..n : KeyOrder[i] \in Key
  BY RenderKeys
<1>2. \A x \in Key : \E i \in 1..n : KeyOrder[i] = x
  BY <1>1, RenderKeys DEF Range
<1> HIDE DEF n
<1>3. PICK c : Run(c, n, "keep", S, <<>>, KeyOrder)
  BY <1>1, LoopRuns, Zenon
<1>4. /\ c[0] = <<>> /\ c[n] = Ascending(S)
      /\ \A i \in 1..n : c[i] = IF KeyOrder[i] \in S THEN Append(c[i - 1], KeyOrder[i])
                                ELSE c[i - 1]
  <2>1. \A a, x : Body("keep", S, a, x) = IF x \in S THEN Append(a, x) ELSE a
    BY Zenon DEF Body
  <2> QED BY <1>3, <2>1, FoldsAreLoops, Zenon DEF Run
<1> DEFINE H == {m \in 0..n : Lists(c[m], S, m)}
<1>5. 0 \in H
  <2>1. <<>> \in Seq(Key) /\ DOMAIN <<>> = {} /\ 1..0 = {} /\ 0 \in 0..n
    BY <1>1
  <2> QED BY <1>4, <2>1, Zenon DEF Lists, Sorted
<1>6. ASSUME NEW m \in 0..(n - 1), m \in H PROVE m + 1 \in H
  <2> DEFINE p == m + 1
             q == c[m]
             x == KeyOrder[p]
  <2>1. /\ p \in 1..n /\ p \in 0..n /\ p - 1 = m /\ \A i : i \in 1..p <=> i \in 1..m \/ i = p
        /\ \A i \in 1..m : i < p /\ i \in 1..n
    BY <1>1
  <2>2. Lists(q, S, m) /\ x \in Key
    BY <1>1, <1>6, <2>1, Zenon
  <2>3. (x \in S => c[p] = Append(q, x)) /\ (x \notin S => c[p] = q)
    BY <1>4, <2>1, Zenon
  <2> HIDE DEF p, q, x
  <2>4. CASE x \notin S
    <3>1. Lists(q, S, p)
      BY <2>1, <2>2, <2>4, Zenon DEF Lists, x
    <3> QED BY <2>1, <2>3, <2>4, <3>1, Zenon DEF p
  <2>5. CASE x \in S
    <3> DEFINE r == Append(q, x)
               l == Len(q)
    <3>1. q \in Seq(Key)
      BY <2>2, Zenon DEF Lists
    <3>2. /\ r \in Seq(Key) /\ l \in Nat /\ DOMAIN q = 1..l /\ r[l + 1] = x
          /\ \A i : i \in DOMAIN r <=> i \in DOMAIN q \/ i = l + 1
          /\ \A i \in DOMAIN q : r[i] = q[i] /\ i # l + 1 /\ ~(l + 1 < i)
      BY <2>2, <3>1
    <3>3. \A i \in DOMAIN q : Before(q[i], x)
      <4> SUFFICES ASSUME NEW i \in DOMAIN q PROVE Before(q[i], x)
        OBVIOUS
      <4>1. PICK j \in 1..m : KeyOrder[j] = q[i]
        BY <2>2, Zenon DEF Lists
      <4> QED BY <1>1, <2>1, <4>1, Zenon DEF Before, x
    <3> HIDE DEF r, l
    <3>4. Sorted(r)
      <4> SUFFICES ASSUME NEW i \in DOMAIN r, NEW j \in DOMAIN r, i < j
                   PROVE  Before(r[i], r[j])
        BY Zenon DEF Sorted
      <4>1. CASE j = l + 1
        <5>1. i \in DOMAIN q
          BY <3>2, <4>1
        <5> QED BY <3>2, <3>3, <4>1, <5>1, Zenon
      <4>2. CASE j \in DOMAIN q
        <5>1. i \in DOMAIN q
          BY <3>2, <4>2
        <5> QED BY <2>2, <3>2, <4>2, <5>1, Zenon DEF Lists, Sorted
      <4> QED BY <3>2, <4>1, <4>2, Zenon
    <3>5. \A y : (\E j \in DOMAIN r : r[j] = y) <=> (\E j \in DOMAIN q : q[j] = y) \/ y = x
      BY <3>2, Zenon
    <3>6. \A y : (\E j \in DOMAIN r : r[j] = y) <=> y \in S /\ \E i \in 1..p : KeyOrder[i] = y
      BY <2>1, <2>2, <2>5, <3>5, Zenon DEF Lists, x
    <3>7. Lists(r, S, p)
      BY <3>2, <3>4, <3>6, Zenon DEF Lists
    <3> QED BY <2>1, <2>3, <2>5, <3>7, Zenon DEF p, r
  <2> QED BY <2>4, <2>5, Zenon
<1>7. n \in H
  <2>1. n \in 0..n
    BY <1>1
  <2> HIDE DEF H
  <2> QED BY <1>1, <1>5, <1>6, <2>1, UpTo, Zenon
<1>8. Lists(Ascending(S), S, n)
  BY <1>4, <1>7, Zenon
<1> QED BY <1>2, <1>8, Zenon DEF Lists

\* The last of a set of names is the last of them in any larger list.
LEMMA LastOfAscending ==
  ASSUME NEW S \in SUBSET Key, NEW T \in SUBSET S, NEW j \in DOMAIN Ascending(S),
         Ascending(S)[j] \in T,
         \A i \in DOMAIN Ascending(S) : i > j => Ascending(S)[i] \notin T
  PROVE  Ascending(T)[Len(Ascending(T))] = Ascending(S)[j]
<1> DEFINE q == Ascending(S)
           t == Ascending(T)
           y == t[Len(t)]
<1>1. /\ q \in Seq(Key) /\ Sorted(q) /\ \A x : (\E i \in DOMAIN q : q[i] = x) <=> x \in S
      /\ t \in Seq(Key) /\ Sorted(t) /\ \A x : (\E i \in DOMAIN t : t[i] = x) <=> x \in T
  <2>1. T \in SUBSET Key
    BY Zenon
  <2> QED BY <2>1, AscendingFacts, Zenon
<1>2. /\ j \in DOMAIN q /\ q[j] \in T /\ \A i \in DOMAIN q : i > j => q[i] \notin T
  BY Zenon
<1> HIDE DEF q, t
<1>3. PICK l \in DOMAIN t : t[l] = q[j]
  BY <1>1, <1>2, Zenon
<1>4. Len(t) \in DOMAIN t /\ (l = Len(t) \/ l < Len(t))
  BY <1>1, <1>3
<1>5. y \in T
  BY <1>1, <1>4, Zenon
<1>6. PICK i \in DOMAIN q : q[i] = y
  BY <1>1, <1>5, Zenon
<1>7. i = j \/ i < j
  <2>1. ~(i > j)
    BY <1>2, <1>5, <1>6, Zenon
  <2> QED BY <1>1, <1>2, <1>6, <2>1
<1>8. ~(i < j)
  <2> SUFFICES ASSUME i < j PROVE FALSE
    OBVIOUS
  <2>1. Before(y, q[j])
    BY <1>1, <1>2, <1>6, Zenon DEF Sorted
  <2>2. l = Len(t) \/ Before(q[j], y)
    BY <1>1, <1>3, <1>4, Zenon DEF Sorted
  <2> QED BY <1>3, <2>1, <2>2, BeforeOrders, Zenon
<1>9. y = q[j]
  BY <1>6, <1>7, <1>8, Zenon
<1> QED BY <1>9, Zenon DEF q, t

-----------------------------------------------------------------------------
(* What the entries assign *)

\* an error, a value
IsErr(x) == x.ok = FALSE /\ x.reason # ""
IsOk(x, v) == x.ok = TRUE /\ x.value = v

\* The assignments A, n of them, are what the entry e promises: they fail when
\* it cannot be read, and otherwise set its keys, each to its value at last.
Means(A, n, m, e) ==
  /\ n \in Nat /\ DOMAIN A = 1..n
  /\ \A i \in 1..n : Got(A[i])
  /\ (\A i \in 1..n : Good(A[i])) <=> EntryReadable(m, e) /\ EntryKeys(m, e) \subseteq ValidKey
  /\ EntryReadable(m, e) =>
       /\ \A k : k \in EntryKeys(m, e) <=> \E i \in 1..n : A[i].key = k
       /\ \A i \in 1..n :
            (\A j \in (i + 1)..n : A[j].key # A[i].key)
              => A[i].got.value = EntryValue(m, e, A[i].key)

\* Ok and Err.
LEMMA Results ==
  /\ \A v : IsOk(Ok(v), v)
  /\ IsErr(Err("MissingGroup")) /\ IsErr(Err("MissingSecret"))
  /\ IsErr(Err("NotYetSynced")) /\ IsErr(Err("JsonError"))
<1>1. \A v : Ok(v).ok = TRUE /\ Ok(v).value = v
  BY DEF Ok
<1>2. \A r : Err(r).ok = FALSE /\ Err(r).reason = r
  BY DEF Err
<1> HIDE DEF Ok, Err
<1>3. "MissingGroup" # "" /\ "MissingSecret" # "" /\ "NotYetSynced" # "" /\ "JsonError" # ""
  OBVIOUS
<1> QED BY <1>1, <1>2, <1>3, Zenon DEF IsOk, IsErr

\* the assignment x has these parts
IsPart(x, key, got) == x = [key |-> key, got |-> got]

\* An assignment from its parts.
LEMMA Parts ==
  ASSUME NEW x, NEW key, NEW got, IsPart(x, key, got)
  PROVE  /\ x.key = key
         /\ IsErr(got) => Got(x) /\ ~Good(x)
         /\ \A v : IsOk(got, v) => Got(x) /\ (Good(x) <=> key \in ValidKey) /\ x.got.value = v
<1>1. x.key = key /\ x.got = got
  BY DEF IsPart
<1>2. IsErr(got) => Got(x) /\ ~Good(x)
  BY <1>1, Zenon DEF IsErr, Got, Good
<1>3. \A v : IsOk(got, v) => Got(x) /\ (Good(x) <=> key \in ValidKey) /\ x.got.value = v
  BY <1>1, Zenon DEF IsOk, Got, Good
<1> QED BY <1>1, <1>2, <1>3, Zenon

\* What Get finds.
LEMMA GetFinds ==
  ASSUME NEW m, NEW g, NEW n
  PROVE  /\ m[g] = None \/ n \notin DOMAIN m[g] \/ m[g][n] = Locked => IsErr(Get(m, g, n))
         /\ m[g] # None /\ n \in DOMAIN m[g] /\ m[g][n] # Locked => IsOk(Get(m, g, n), m[g][n])
<1>1. \/ Get(m, g, n) = Err("MissingGroup") /\ m[g] = None
      \/ Get(m, g, n) = Err("MissingSecret") /\ m[g] # None /\ n \notin DOMAIN m[g]
      \/ Get(m, g, n) = Err("NotYetSynced") /\ m[g] # None /\ n \in DOMAIN m[g] /\ m[g][n] = Locked
      \/ Get(m, g, n) = Ok(m[g][n]) /\ m[g] # None /\ n \in DOMAIN m[g] /\ m[g][n] # Locked
  BY Zenon DEF Get
<1> QED BY <1>1, Results, Zenon

\* One assignment.
LEMMA OneMeans ==
  ASSUME NEW key, NEW got, NEW m, NEW e,
         \/ IsErr(got) /\ ~EntryReadable(m, e)
         \/ /\ EntryReadable(m, e) /\ EntryKeys(m, e) = {key}
            /\ IsOk(got, EntryValue(m, e, key))
  PROVE  Means(<<[key |-> key, got |-> got]>>, 1, m, e)
<1> DEFINE x == [key |-> key, got |-> got]
           A == <<x>>
<1>1. 1 \in Nat /\ DOMAIN A = 1..1 /\ A[1] = x /\ \A i : i \in 1..1 <=> i = 1
  OBVIOUS
<1>2. /\ x.key = key
      /\ IsErr(got) => Got(x) /\ ~Good(x)
      /\ \A v : IsOk(got, v) => Got(x) /\ (Good(x) <=> key \in ValidKey) /\ x.got.value = v
  <2>1. IsPart(x, key, got)
    BY Zenon DEF IsPart
  <2> HIDE DEF x
  <2> QED BY <2>1, Parts, Zenon
<1> HIDE DEF x, A
<1>3. CASE IsErr(got) /\ ~EntryReadable(m, e)
  BY <1>1, <1>2, <1>3, Zenon DEF Means, A, x
<1>4. CASE EntryReadable(m, e) /\ EntryKeys(m, e) = {key} /\ IsOk(got, EntryValue(m, e, key))
  <2>1. Got(x) /\ (Good(x) <=> key \in ValidKey) /\ x.got.value = EntryValue(m, e, key)
    BY <1>2, <1>4, Zenon
  <2>2. (\A i \in 1..1 : Good(A[i])) <=> EntryKeys(m, e) \subseteq ValidKey
    BY <1>1, <1>4, <2>1, Zenon
  <2>3. Means(A, 1, m, e)
    BY <1>1, <1>2, <1>4, <2>1, <2>2, Zenon DEF Means
  <2> QED BY <2>3, Zenon DEF A, x
<1> QED BY <1>3, <1>4, Zenon

\* A whole group.
LEMMA WholeGroupMeans ==
  ASSUME NEW m, NEW e, e.type = "group", m[e.group] # None => DOMAIN m[e.group] \subseteq Key
  PROVE  \E n : Means(WholeGroup(m, e), n, m, e)
<1> DEFINE g == e.group
           D == DOMAIN m[g]
           q == Ascending(D)
           n == Len(q)
           B == [i \in DOMAIN q |-> [key |-> Rewritten(e, q[i]), got |-> Get(m, g, q[i])]]
           T(k) == {x \in D : Rewritten(e, x) = k}
<1>1. /\ EntryKeys(m, e) = {Rewritten(e, x) : x \in D}
      /\ \A k : EntryValue(m, e, k) = m[g][Ascending(T(k))[Len(Ascending(T(k)))]]
      /\ EntryReadable(m, e) <=> m[g] # None /\ \A x \in D : m[g][x] # Locked
  BY DEF EntryKeys, EntryValue, EntryReadable
<1>2. CASE m[g] = None
  <2>1. WholeGroup(m, e) = Fails(Err("MissingGroup"))
    <3>1. List(m, g) = Err("MissingGroup") /\ ~Err("MissingGroup").ok
      BY <1>2, Results, Zenon DEF List, IsErr
    <3> QED BY <3>1, Zenon DEF WholeGroup
  <2>2. Means(Fails(Err("MissingGroup")), 1, m, e)
    BY <1>1, <1>2, OneMeans, Results, Zenon DEF Fails
  <2> QED BY <2>1, <2>2, Zenon
<1>3. CASE m[g] # None
  <2>1. WholeGroup(m, e) = B
    <3>1. List(m, g) = Ok(q) /\ Ok(q).ok /\ Ok(q).value = q
      BY <1>3, Results, Zenon DEF List, IsOk
    <3> QED BY <3>1, Zenon DEF WholeGroup
  <2>2. /\ q \in Seq(Key) /\ \A x : (\E j \in DOMAIN q : q[j] = x) <=> x \in D
    BY <1>3, AscendingFacts, Zenon
  <2>3. n \in Nat /\ DOMAIN q = 1..n
    BY <2>2
  <2>4. \A k : \A j \in DOMAIN q : q[j] \in T(k) /\ (\A i \in DOMAIN q : i > j => q[i] \notin T(k))
          => Ascending(T(k))[Len(Ascending(T(k)))] = q[j]
    <3>1. D \in SUBSET Key /\ \A k : T(k) \in SUBSET D
      BY <1>3, Zenon
    <3> QED BY <3>1, LastOfAscending, Zenon
  <2>5. \A i \in 1..n : B[i] = [key |-> Rewritten(e, q[i]), got |-> Get(m, g, q[i])]
    BY <2>3, Zenon
  <2>6. DOMAIN B = 1..n
    BY <2>3, Zenon
  <2> HIDE DEF B, q, n
  <2>7. \A i \in 1..n : q[i] \in D
    BY <2>2, <2>3, Zenon
  <2>8. \A i \in 1..n : \/ IsErr(Get(m, g, q[i])) /\ m[g][q[i]] = Locked
                        \/ IsOk(Get(m, g, q[i]), m[g][q[i]]) /\ m[g][q[i]] # Locked
    BY <1>3, <2>7, GetFinds, Zenon
  <2>9. \A i \in 1..n :
          /\ B[i].key = Rewritten(e, q[i]) /\ Got(B[i])
          /\ Good(B[i]) <=> m[g][q[i]] # Locked /\ Rewritten(e, q[i]) \in ValidKey
          /\ m[g][q[i]] # Locked => B[i].got.value = m[g][q[i]]
    <3> SUFFICES ASSUME NEW i \in 1..n
                 PROVE  /\ B[i].key = Rewritten(e, q[i]) /\ Got(B[i])
                        /\ Good(B[i]) <=> m[g][q[i]] # Locked /\ Rewritten(e, q[i]) \in ValidKey
                        /\ m[g][q[i]] # Locked => B[i].got.value = m[g][q[i]]
      BY Zenon
    <3> DEFINE x == B[i]
               got == Get(m, g, q[i])
               v == m[g][q[i]]
    <3>1. IsPart(x, Rewritten(e, q[i]), got)
      BY <2>5, Zenon DEF IsPart
    <3>2. \/ IsErr(got) /\ v = Locked
          \/ IsOk(got, v) /\ v # Locked
      BY <2>8, Zenon
    <3> HIDE DEF x, got, v
    <3>3. /\ x.key = Rewritten(e, q[i]) /\ Got(x)
          /\ Good(x) <=> v # Locked /\ Rewritten(e, q[i]) \in ValidKey
          /\ v # Locked => x.got.value = v
      <4>1. /\ x.key = Rewritten(e, q[i])
            /\ IsErr(got) => Got(x) /\ ~Good(x)
            /\ IsOk(got, v) => /\ Got(x) /\ x.got.value = v
                               /\ Good(x) <=> Rewritten(e, q[i]) \in ValidKey
        BY <3>1, Parts, Zenon
      <4> QED BY <3>2, <4>1, Zenon
    <3> QED BY <3>3, Zenon DEF x, v
  <2>10. \A x : x \in D <=> \E i \in 1..n : q[i] = x
    BY <2>2, <2>3, Zenon
  <2>11. (\A i \in 1..n : Good(B[i])) <=> EntryReadable(m, e) /\ EntryKeys(m, e) \subseteq ValidKey
    <3>1. (\A i \in 1..n : Good(B[i]))
            <=> \A x \in D : m[g][x] # Locked /\ Rewritten(e, x) \in ValidKey
      <4> DEFINE Fine(x) == m[g][x] # Locked /\ Rewritten(e, x) \in ValidKey
      <4>1. \A i \in 1..n : Good(B[i]) <=> Fine(q[i])
        BY <2>9, Zenon
      <4> HIDE DEF Fine
      <4>2. (\A i \in 1..n : Good(B[i])) <=> \A x \in D : Fine(x)
        BY <2>10, <4>1, Zenon
      <4> QED BY <4>2, Zenon DEF Fine
    <3>2. (\A x \in D : Rewritten(e, x) \in ValidKey) <=> EntryKeys(m, e) \subseteq ValidKey
      BY <1>1, Zenon
    <3> QED BY <1>1, <1>3, <3>1, <3>2, Zenon
  <2>12. \A k : k \in EntryKeys(m, e) <=> \E i \in 1..n : B[i].key = k
    <3>1. \A i \in 1..n : B[i].key = Rewritten(e, q[i])
      BY <2>9, Zenon
    <3>2. \A k : k \in EntryKeys(m, e) <=> \E x \in D : Rewritten(e, x) = k
      BY <1>1, Zenon
    <3> HIDE DEF D
    <3>3. ASSUME NEW k, NEW x \in D, Rewritten(e, x) = k PROVE \E i \in 1..n : B[i].key = k
      BY <2>10, <3>1, <3>3, Zenon
    <3>4. ASSUME NEW k, NEW i \in 1..n, B[i].key = k PROVE \E x \in D : Rewritten(e, x) = k
      BY <2>10, <3>1, <3>4, Zenon
    <3> QED BY <3>2, <3>3, <3>4, Zenon
  <2>13. ASSUME EntryReadable(m, e), NEW i \in 1..n, \A j \in (i + 1)..n : B[j].key # B[i].key
         PROVE  B[i].got.value = EntryValue(m, e, B[i].key)
    <3> DEFINE k == B[i].key
    <3>1. B[i].got.value = m[g][q[i]]
      BY <1>1, <2>7, <2>9, <2>13, Zenon
    <3>2. q[i] \in T(k)
      BY <2>7, <2>9, Zenon
    <3>3. \A j \in DOMAIN q : j > i => q[j] \notin T(k)
      <4>1. \A j \in DOMAIN q : j > i => j \in (i + 1)..n
        BY <2>3
      <4> QED BY <2>3, <2>9, <2>13, <4>1, Zenon
    <3>4. Ascending(T(k))[Len(Ascending(T(k)))] = q[i]
      BY <2>3, <2>4, <3>2, <3>3, Zenon
    <3> QED BY <1>1, <3>1, <3>4, Zenon
  <2>14. Means(B, n, m, e)
    BY <2>3, <2>6, <2>9, <2>11, <2>12, <2>13, Zenon DEF Means
  <2> QED BY <2>1, <2>14, Zenon
<1> QED BY <1>2, <1>3, Zenon

\* A JSON object's fields.
LEMMA ExtractMeans ==
  ASSUME NEW m, NEW e, e.type = "extract"
  PROVE  \E n : Means(Extract(m, e), n, m, e)
<1> DEFINE v == m[e.group][e.name]
           got == Get(m, e.group, e.name)
           F == Object[v]
           q == Ascending(DOMAIN F)
           n == Len(q)
           B == [i \in DOMAIN q |-> [key |-> q[i], got |-> Ok(F[q[i]])]]
           found == m[e.group] # None /\ e.name \in DOMAIN m[e.group] /\ v # Locked
<1>1. /\ EntryKeys(m, e) = DOMAIN F
      /\ \A k : EntryValue(m, e, k) = F[k]
      /\ EntryReadable(m, e) <=> found /\ v \in DOMAIN Object
  BY DEF EntryKeys, EntryValue, EntryReadable
<1>2. /\ ~found => IsErr(got)
      /\ found => IsOk(got, v)
  BY GetFinds, Zenon
<1>3. CASE ~found
  <2>1. Extract(m, e) = Fails(got)
    BY <1>2, <1>3, Zenon DEF Extract, IsErr
  <2>2. Means(Fails(got), 1, m, e)
    <3> HIDE DEF got, found
    <3> QED BY <1>1, <1>2, <1>3, OneMeans, Zenon DEF Fails
  <2> QED BY <2>1, <2>2, Zenon
<1>4. CASE found /\ v \notin DOMAIN Object
  <2>1. Fields(v) = Err("JsonError") /\ ~Err("JsonError").ok
    BY <1>4, Results, Zenon DEF Fields, IsErr
  <2>2. got.ok /\ got.value = v
    BY <1>2, <1>4, Zenon DEF IsOk
  <2>3. Extract(m, e) = Fails(Err("JsonError"))
    BY <2>1, <2>2, Zenon DEF Extract
  <2>4. Means(Fails(Err("JsonError")), 1, m, e)
    <3> HIDE DEF found, v
    <3> QED BY <1>1, <1>4, OneMeans, Results, Zenon DEF Fails
  <2> QED BY <2>3, <2>4, Zenon
<1>5. CASE found /\ v \in DOMAIN Object
  <2>1. Extract(m, e) = B
    <3>1. Fields(v) = Ok(F) /\ Ok(F).ok /\ Ok(F).value = F
      BY <1>5, Results, Zenon DEF Fields, IsOk
    <3>2. got.ok /\ got.value = v
      BY <1>2, <1>5, Zenon DEF IsOk
    <3> QED BY <3>1, <3>2, Zenon DEF Extract
  <2>2. /\ q \in Seq(Key) /\ \A x : (\E j \in DOMAIN q : q[j] = x) <=> x \in DOMAIN F
    BY <1>5, AscendingFacts, RenderKeys, Zenon
  <2>3. n \in Nat /\ DOMAIN q = 1..n
    BY <2>2
  <2>4. \A i \in 1..n : B[i] = [key |-> q[i], got |-> Ok(F[q[i]])]
    BY <2>3, Zenon
  <2>5. DOMAIN B = 1..n
    BY <2>3, Zenon
  <2> HIDE DEF B, q, n, F, found
  <2>6. \A i \in 1..n : /\ B[i].key = q[i] /\ Got(B[i])
                        /\ Good(B[i]) <=> q[i] \in ValidKey
                        /\ B[i].got.value = F[q[i]]
    <3> SUFFICES ASSUME NEW i \in 1..n
                 PROVE  /\ B[i].key = q[i] /\ Got(B[i])
                        /\ Good(B[i]) <=> q[i] \in ValidKey
                        /\ B[i].got.value = F[q[i]]
      BY Zenon
    <3> DEFINE x == B[i]
               w == F[q[i]]
               y == Ok(w)
    <3>1. IsPart(x, q[i], y) /\ IsOk(y, w)
      BY <2>4, Results, Zenon DEF IsPart
    <3> HIDE DEF x, y, w
    <3>2. x.key = q[i] /\ Got(x) /\ (Good(x) <=> q[i] \in ValidKey) /\ x.got.value = w
      BY <3>1, Parts, Zenon
    <3> QED BY <3>2, Zenon DEF x, w
  <2>7. \A x : x \in DOMAIN F <=> \E i \in 1..n : q[i] = x
    BY <2>2, <2>3, Zenon
  <2>8. (\A i \in 1..n : Good(B[i])) <=> EntryReadable(m, e) /\ EntryKeys(m, e) \subseteq ValidKey
    <3>1. (\A i \in 1..n : Good(B[i])) <=> DOMAIN F \subseteq ValidKey
      BY <2>6, <2>7, Zenon
    <3> QED BY <1>1, <1>5, <3>1, Zenon
  <2>9. \A k : k \in EntryKeys(m, e) <=> \E i \in 1..n : B[i].key = k
    <3>1. \A i \in 1..n : B[i].key = q[i]
      BY <2>6, Zenon
    <3>2. \A k : (\E i \in 1..n : q[i] = k) <=> \E i \in 1..n : B[i].key = k
      BY <3>1, Zenon
    <3> QED BY <1>1, <2>7, <3>2, Zenon
  <2>10. \A i \in 1..n : B[i].got.value = EntryValue(m, e, B[i].key)
    BY <1>1, <2>6, Zenon
  <2>11. Means(B, n, m, e)
    BY <2>3, <2>5, <2>6, <2>8, <2>9, <2>10, Zenon DEF Means
  <2> QED BY <2>1, <2>11, Zenon
<1> QED BY <1>3, <1>4, <1>5, Zenon

\* An entry of data.
LEMMA ExplicitMeans ==
  ASSUME NEW m, NEW e, e.type = "data"
  PROVE  Means(Explicit(m, e), 1, m, e)
<1> DEFINE v == m[e.group][e.name]
           p == e.property
           got == Get(m, e.group, e.name)
           found == m[e.group] # None /\ e.name \in DOMAIN m[e.group] /\ v # Locked
           held == v \in DOMAIN Object /\ p \in DOMAIN Object[v]
           res == IF ~got.ok \/ p = None THEN got ELSE Property(got.value, p)
<1>1. /\ EntryKeys(m, e) = {e.key}
      /\ p = None => EntryValue(m, e, e.key) = v
      /\ p # None => EntryValue(m, e, e.key) = Object[v][p]
      /\ EntryReadable(m, e) <=> found /\ (p # None => held)
  BY DEF EntryKeys, EntryValue, EntryReadable
<1>2. /\ ~found => IsErr(got)
      /\ found => IsOk(got, v)
  BY GetFinds, Zenon
<1>3. Explicit(m, e) = <<[key |-> e.key, got |-> res]>>
  BY Zenon DEF Explicit
<1>4. CASE ~found
  <2>1. res = got
    BY <1>2, <1>4, Zenon DEF IsErr
  <2> HIDE DEF got, found, res
  <2> QED BY <1>1, <1>2, <1>3, <1>4, <2>1, OneMeans, Zenon
<1>5. CASE found /\ p = None
  <2>1. res = got
    BY <1>5, Zenon
  <2>2. EntryReadable(m, e) /\ IsOk(res, EntryValue(m, e, e.key))
    BY <1>1, <1>2, <1>5, <2>1, Zenon
  <2> HIDE DEF got, found, res
  <2> QED BY <1>1, <1>3, <2>2, OneMeans, Zenon
<1>6. CASE found /\ p # None
  <2>1. res = Property(v, p)
    BY <1>2, <1>6, Zenon DEF IsOk
  <2>2. CASE held
    <3>1. Property(v, p) = Ok(Object[v][p])
      BY <2>2, Zenon DEF Property
    <3>2. EntryReadable(m, e) /\ IsOk(res, EntryValue(m, e, e.key))
      BY <1>1, <1>6, <2>1, <2>2, <3>1, Results, Zenon
    <3> HIDE DEF got, found, res
    <3> QED BY <1>1, <1>3, <3>2, OneMeans, Zenon
  <2>3. CASE ~held
    <3>1. Property(v, p) = Err("JsonError")
      BY <2>3, Zenon DEF Property
    <3>2. ~EntryReadable(m, e) /\ IsErr(res)
      BY <1>1, <1>6, <2>1, <2>3, <3>1, Results, Zenon
    <3> HIDE DEF got, found, res
    <3> QED BY <1>3, <3>2, OneMeans, Zenon
  <2> QED BY <2>2, <2>3, Zenon
<1> QED BY <1>4, <1>5, <1>6, Zenon

\* an entry, and a mirror whose names are keys
EntryFits(m, e) ==
  /\ e.type \in {"group", "extract", "data"}
  /\ m[e.group] # None => DOMAIN m[e.group] \subseteq Key

\* What an entry assigns is what the CRD promises of it.
LEMMA EntryMeans ==
  ASSUME NEW m, NEW e, EntryFits(m, e)
  PROVE  \E n : Means(Assignments(m, e), n, m, e)
<1>1. CASE e.type = "group"
  <2>1. Assignments(m, e) = WholeGroup(m, e)
    BY <1>1 DEF Assignments
  <2> QED BY <1>1, <2>1, WholeGroupMeans, Zenon DEF EntryFits
<1>2. CASE e.type = "extract"
  <2>1. Assignments(m, e) = Extract(m, e)
    BY <1>2 DEF Assignments
  <2> QED BY <1>2, <2>1, ExtractMeans, Zenon
<1>3. CASE e.type = "data"
  <2>1. Assignments(m, e) = Explicit(m, e)
    BY <1>3 DEF Assignments
  <2> QED BY <1>3, <2>1, ExplicitMeans, Zenon
<1> QED BY <1>1, <1>2, <1>3, Zenon DEF EntryFits

\* the values an entry leaves
EntryValues(m, e) == [k \in EntryKeys(m, e) |-> EntryValue(m, e, k)]

\* an entry that can be read and sets keys Kubernetes accepts
EntryGood(m, e) == EntryReadable(m, e) /\ EntryKeys(m, e) \subseteq ValidKey

\* One entry.
LEMMA EntrySets ==
  ASSUME NEW m, NEW e, EntryFits(m, e), NEW a, IsAcc(a)
  PROVE  Sets(a, AssignAll(a, Assignments(m, e)), EntryGood(m, e), EntryKeys(m, e), EntryValues(m, e))
<1> DEFINE A == Assignments(m, e)
           r == AssignAll(a, A)
           E == EntryKeys(m, e)
           W == EntryValues(m, e)
<1>1. PICK n : Means(A, n, m, e)
  BY EntryMeans, Zenon
<1> DEFINE G == [i \in 1..n |-> Good(A[i])]
           K == [i \in 1..n |-> {A[i].key}]
           V == [i \in 1..n |-> [k \in {A[i].key} |-> A[i].got.value]]
<1>2. n \in Nat /\ DOMAIN A = 1..n /\ \A i \in 1..n : Got(A[i])
  BY <1>1, Zenon DEF Means
<1>3. Steps(a, r, n, G, K, V)
  <2> HIDE DEF A
  <2> QED BY <1>2, AssignSteps, Zenon
<1>4. \A i \in 1..n : /\ G[i] <=> Good(A[i])
                      /\ \A k : k \in K[i] <=> A[i].key = k
                      /\ V[i][A[i].key] = A[i].got.value
  BY Zenon
<1>5. \A k \in E : W[k] = EntryValue(m, e, k)
  BY Zenon DEF EntryValues
<1> HIDE DEF G, K, V, A, r, W
<1>6. (\A i \in 1..n : G[i]) <=> EntryGood(m, e)
  BY <1>1, <1>4, Zenon DEF Means, EntryGood
<1>7. IsAcc(r) /\ (Clean(r) <=> Clean(a) /\ EntryGood(m, e))
  BY <1>3, <1>6, Zenon DEF Steps
<1>8. ASSUME Clean(r)
      PROVE  /\ DOMAIN r.out = DOMAIN a.out \cup E
             /\ \A k \in E : r.out[k] = W[k]
             /\ \A k \in DOMAIN a.out \ E : r.out[k] = a.out[k]
  <2>1. /\ \A k : k \in DOMAIN r.out <=> k \in DOMAIN a.out \/ \E i \in 1..n : k \in K[i]
        /\ \A k, i : IsLast(i, n, K, k) => r.out[k] = V[i][k]
        /\ \A k \in DOMAIN a.out : (\A i \in 1..n : k \notin K[i]) => r.out[k] = a.out[k]
    BY <1>3, <1>8, Zenon DEF Steps
  <2>2. /\ \A k : k \in E <=> \E i \in 1..n : A[i].key = k
        /\ \A i \in 1..n : (\A j \in (i + 1)..n : A[j].key # A[i].key)
                             => A[i].got.value = EntryValue(m, e, A[i].key)
    BY <1>1, <1>7, <1>8, Zenon DEF Means, EntryGood
  <2> HIDE DEF E
  <2>3. \A k : k \in E <=> \E i \in 1..n : k \in K[i]
    <3>1. \A i \in 1..n : \A k : k \in K[i] <=> A[i].key = k
      BY <1>4, Zenon
    <3>2. \A k : (\E i \in 1..n : k \in K[i]) <=> \E i \in 1..n : A[i].key = k
      BY <3>1, Zenon
    <3> QED BY <2>2, <3>2, Zenon
  <2>4. DOMAIN r.out = DOMAIN a.out \cup E
    BY <2>1, <2>3, Zenon
  <2>5. ASSUME NEW k \in E PROVE r.out[k] = W[k]
    <3>1. PICK i : IsLast(i, n, K, k)
      BY <1>2, <2>3, LastExists, Zenon
    <3>2. i \in 1..n /\ A[i].key = k /\ \A j \in (i + 1)..n : k \notin K[j]
      BY <1>4, <3>1, Zenon DEF IsLast
    <3>3. \A j \in (i + 1)..n : j \in 1..n
      BY <1>2, <3>2
    <3>4. \A j \in (i + 1)..n : A[j].key # A[i].key
      BY <1>4, <3>2, <3>3, Zenon
    <3>5. A[i].got.value = EntryValue(m, e, k)
      BY <2>2, <3>2, <3>4, Zenon
    <3>6. r.out[k] = V[i][k] /\ W[k] = EntryValue(m, e, k)
      BY <1>5, <2>1, <3>1, Zenon DEF E
    <3>7. V[i][k] = A[i].got.value
      BY <1>4, <3>2, Zenon
    <3> QED BY <3>5, <3>6, <3>7, Zenon
  <2>6. \A k \in DOMAIN a.out \ E : r.out[k] = a.out[k]
    BY <2>1, <2>3, Zenon
  <2> QED BY <2>4, <2>5, <2>6, Zenon
<1>9. Sets(a, r, EntryGood(m, e), E, W)
  BY <1>7, <1>8, Zenon DEF Sets
<1> QED BY <1>9, Zenon DEF r, A, W

-----------------------------------------------------------------------------
(* What the fields of the CRD promise *)

\* a spec render is given
SpecFits(sp, m) ==
  /\ IsList(sp.dataFrom) /\ IsList(sp.data)
  /\ \A i \in DOMAIN (sp.dataFrom \o sp.data) : EntryFits(m, (sp.dataFrom \o sp.data)[i])

\* The loop over entries.
LEMMA EntriesSteps ==
  ASSUME NEW m, NEW b, IsAcc(b), NEW n \in Nat, NEW d, DOMAIN d = 1..n,
         \A i \in 1..n : EntryFits(m, d[i])
  PROVE  Steps(b, Entries(m, b, d), n, [i \in 1..n |-> EntryGood(m, d[i])],
               [i \in 1..n |-> EntryKeys(m, d[i])], [i \in 1..n |-> EntryValues(m, d[i])])
<1> DEFINE G == [i \in 1..n |-> EntryGood(m, d[i])]
           K == [i \in 1..n |-> EntryKeys(m, d[i])]
           V == [i \in 1..n |-> EntryValues(m, d[i])]
<1>1. PICK c : Run(c, n, "entry", m, b, d)
  BY LoopRuns, Zenon
<1>2. /\ c[0] = b /\ c[n] = Entries(m, b, d)
      /\ \A i \in 1..n : c[i] = AssignAll(c[i - 1], Assignments(m, d[i]))
  <2>1. \A a, x : Body("entry", m, a, x) = AssignAll(a, Assignments(m, x))
    BY DEF Body
  <2> QED BY <1>1, <2>1, FoldsAreLoops, Zenon DEF Run
<1>3. \A i \in 1..n : IsAcc(c[i - 1]) => Sets(c[i - 1], c[i], G[i], K[i], V[i])
  <2> SUFFICES ASSUME NEW i \in 1..n, IsAcc(c[i - 1])
               PROVE  Sets(c[i - 1], c[i], G[i], K[i], V[i])
    BY Zenon
  <2>1. G[i] = EntryGood(m, d[i]) /\ K[i] = EntryKeys(m, d[i]) /\ V[i] = EntryValues(m, d[i])
    BY Zenon
  <2>2. Sets(c[i - 1], AssignAll(c[i - 1], Assignments(m, d[i])), EntryGood(m, d[i]),
             EntryKeys(m, d[i]), EntryValues(m, d[i]))
    BY EntrySets, Zenon
  <2> QED BY <1>2, <2>1, <2>2, Zenon
<1> HIDE DEF G, K, V
<1>4. Steps(c[0], c[n], n, G, K, V)
  BY <1>2, <1>3, Follows, Zenon
<1> QED BY <1>2, <1>4, Zenon DEF G, K, V

\* render keeps the promise: it succeeds exactly when every entry can be read
\* and every key is accepted, and each key has the last entry's value.
LEMMA RenderKeeps ==
  ASSUME NEW sp, NEW m, SpecFits(sp, m)
  PROVE  LastEntryWins(sp, m)
<1> DEFINE d == sp.dataFrom \o sp.data
           I == DOMAIN d
           n == Len(d)
           readable == \A i \in I : EntryReadable(m, d[i])
           keys == UNION {EntryKeys(m, d[i]) : i \in I}
           last(k) == CHOOSE i \in I :
                        /\ k \in EntryKeys(m, d[i])
                        /\ \A j \in I : j > i => k \notin EntryKeys(m, d[j])
           res == render(sp, m)
           all == Entries(m, Start, d)
           G == [i \in 1..n |-> EntryGood(m, d[i])]
           K == [i \in 1..n |-> EntryKeys(m, d[i])]
           V == [i \in 1..n |-> EntryValues(m, d[i])]
<1>1. n \in Nat /\ I = 1..n
  <2>1. IsJoin(d, sp.dataFrom, sp.data)
    BY Joined, Zenon DEF SpecFits
  <2> HIDE DEF d
  <2> QED BY <2>1, Zenon DEF IsJoin
<1>2. IsAcc(Start) /\ Clean(Start) /\ DOMAIN Start.out = {}
  BY DEF IsAcc, Clean, Start
<1>3. Steps(Start, all, n, G, K, V)
  <2>1. \A i \in 1..n : EntryFits(m, d[i])
    BY <1>1, Zenon DEF SpecFits
  <2> HIDE DEF d, n
  <2> QED BY <1>1, <1>2, <2>1, EntriesSteps, Zenon
<1>4. \A i \in 1..n : /\ G[i] <=> EntryGood(m, d[i])
                      /\ K[i] = EntryKeys(m, d[i])
                      /\ \A k \in K[i] : V[i][k] = EntryValue(m, d[i], k)
  BY Zenon DEF EntryValues
<1>5. /\ Clean(all) => res.ok = TRUE /\ res.value = all.out
      /\ ~Clean(all) => res.ok = FALSE
  <2>1. /\ Clean(all) => res = Ok(all.out)
        /\ ~Clean(all) => \E e : res = Err(e)
    BY RenderIs, Zenon DEF Clean
  <2> HIDE DEF res, all
  <2>2. \A v : Ok(v).ok = TRUE /\ Ok(v).value = v
    BY DEF Ok
  <2>3. \A v : Err(v).ok = FALSE
    BY DEF Err
  <2> QED BY <2>1, <2>2, <2>3, Zenon
<1>6. LastEntryWins(sp, m) <=>
        /\ res.ok <=> readable /\ keys \subseteq ValidKey
        /\ res.ok =>
             /\ DOMAIN res.value = keys
             /\ \A k \in keys : res.value[k] = EntryValue(m, d[last(k)], k)
  BY Zenon DEF LastEntryWins
<1> HIDE DEF G, K, V, all, res, n
<1>7. Clean(all) <=> readable /\ keys \subseteq ValidKey
  <2>1. Clean(all) <=> \A i \in 1..n : EntryGood(m, d[i])
    BY <1>2, <1>3, <1>4, Zenon DEF Steps
  <2> HIDE DEF d
  <2> QED BY <1>1, <2>1, Zenon DEF EntryGood
<1>8. ASSUME Clean(all)
      PROVE  /\ DOMAIN all.out = keys
             /\ \A k \in keys : all.out[k] = EntryValue(m, d[last(k)], k)
  <2> HIDE DEF d
  <2>1. /\ \A k : k \in DOMAIN all.out <=> \E i \in 1..n : k \in K[i]
        /\ \A k, i : IsLast(i, n, K, k) => all.out[k] = V[i][k]
    BY <1>2, <1>3, <1>8, Zenon DEF Steps
  <2>2. \A k : k \in keys <=> \E i \in 1..n : k \in K[i]
    BY <1>1, <1>4, Zenon
  <2>3. ASSUME NEW k \in keys PROVE all.out[k] = EntryValue(m, d[last(k)], k)
    <3>1. PICK i : IsLast(i, n, K, k)
      BY <1>1, <2>2, <2>3, LastExists, Zenon
    <3> DEFINE P(x) == /\ k \in EntryKeys(m, d[x])
                       /\ \A j \in I : j > x => k \notin EntryKeys(m, d[j])
    <3>2. \A x \in I : P(x) <=> IsLast(x, n, K, k)
      <4> SUFFICES ASSUME NEW x \in 1..n PROVE P(x) <=> IsLast(x, n, K, k)
        BY <1>1, Zenon
      <4>1. \A j : j \in (x + 1)..n <=> j \in 1..n /\ j > x
        BY <1>1
      <4>2. \A j \in 1..n : K[j] = EntryKeys(m, d[j])
        BY <1>4, Zenon
      <4> QED BY <1>1, <4>1, <4>2, Zenon DEF IsLast
    <3>3. i \in I /\ P(i)
      BY <1>1, <3>1, <3>2, Zenon DEF IsLast
    <3>4. last(k) \in I /\ P(last(k))
      BY <3>3, Zenon
    <3> HIDE DEF P, last
    <3>5. last(k) = i
      BY <1>1, <3>1, <3>2, <3>4, LastExists, Zenon
    <3>6. all.out[k] = V[i][k] /\ i \in 1..n /\ k \in K[i]
      BY <2>1, <3>1, Zenon DEF IsLast
    <3> QED BY <1>4, <3>5, <3>6, Zenon
  <2>4. DOMAIN all.out = keys
    BY <2>1, <2>2, Zenon
  <2> QED BY <2>3, <2>4, Zenon
<1> QED BY <1>5, <1>6, <1>7, <1>8, Zenon

-----------------------------------------------------------------------------
(* What a reconcile reads *)

\* What a reconcile has read has the names of secrets: of the mirror as it was
\* when the reconcile began, or as it is now.
LEMMA ViewNamesHold == Spec => []ViewNames
<1>1. Init => ViewNames
  BY Zenon DEF Init, ViewNames
<1>2. Types /\ ViewNames /\ [Next]_vars => ViewNames'
  <2> SUFFICES ASSUME Types, ViewNames, [Next]_vars PROVE ViewNames'
    BY Zenon
  <2>1. \A g \in Group : mirror[g] # None => DOMAIN mirror[g] \subseteq Key
    <3>1. mirror \in [Group -> Content \cup {None}]
      BY Zenon DEF Types, TypeOK, Mirror
    <3>2. \A g \in Group : mirror[g] \in Content \/ mirror[g] = None
      BY <3>1, Zenon
    <3> QED BY <3>2, BridgeValues, Zenon
  <2>2. CASE UNCHANGED <<job, view>>
    BY <2>2, Zenon DEF ViewNames
  <2>3. CASE StartReconcile
    <3>1. CASE view' = mirror
      BY <2>1, <3>1, Zenon DEF ViewNames
    <3> QED BY <2>2, <2>3, <3>1, Zenon DEF StartReconcile
  <2>4. CASE ReadOn
    <3>1. job # None /\ job' = job
      BY <2>4, Zenon DEF ReadOn
    <3>2. view = [h \in Group |-> view[h]]
      BY <3>1, Zenon DEF Types
    <3>3. PICK g \in Group :
            IF view[g] = None \/ mirror[g] = None
            THEN view' = [view EXCEPT ![g] = mirror[g]]
            ELSE \E n \in Changed(view[g], mirror[g]) :
                   view' = [view EXCEPT ![g] =
                     [k \in (DOMAIN view[g] \ {n}) \cup (DOMAIN mirror[g] \cap {n})
                        |-> IF k = n THEN mirror[g][k] ELSE view[g][k]]]
      BY <2>4, Zenon DEF ReadOn
    <3>4. \E w : view' = [view EXCEPT ![g] = w] /\ (w # None => DOMAIN w \subseteq Key)
      <4>1. CASE view[g] = None \/ mirror[g] = None
        BY <2>1, <3>3, <4>1, Zenon
      <4>2. CASE view[g] # None /\ mirror[g] # None
        <5>1. PICK n : view' = [view EXCEPT ![g] =
                     [k \in (DOMAIN view[g] \ {n}) \cup (DOMAIN mirror[g] \cap {n})
                        |-> IF k = n THEN mirror[g][k] ELSE view[g][k]]]
          BY <3>3, <4>2, Zenon
        <5>2. DOMAIN view[g] \subseteq Key /\ DOMAIN mirror[g] \subseteq Key
          BY <2>1, <3>1, <4>2, Zenon DEF ViewNames
        <5> DEFINE w == [k \in (DOMAIN view[g] \ {n}) \cup (DOMAIN mirror[g] \cap {n})
                           |-> IF k = n THEN mirror[g][k] ELSE view[g][k]]
        <5>3. DOMAIN w \subseteq Key
          BY <5>2, Zenon
        <5> QED BY <5>1, <5>3, Zenon
      <4> QED BY <4>1, <4>2, Zenon
    <3>5. PICK w : view' = [view EXCEPT ![g] = w] /\ (w # None => DOMAIN w \subseteq Key)
      BY <3>4, Zenon
    <3>6. \A h \in Group : view'[h] = view[h] \/ view'[h] = w
      BY <3>2, <3>5, Zenon
    <3>7. \A h \in Group : view'[h] # None => DOMAIN view'[h] \subseteq Key
      BY <3>1, <3>5, <3>6, Zenon DEF ViewNames
    <3> QED BY <3>7, Zenon DEF ViewNames
  <2>5. CASE FailReconcile \/ FinishReconcile
    <3>1. job' = None
      BY <2>5, Zenon DEF FailReconcile, FinishReconcile
    <3> QED BY <3>1, Zenon DEF ViewNames
  <2>6. UNCHANGED <<job, view>> \/ StartReconcile \/ ReadOn \/ FailReconcile \/ FinishReconcile
    BY ZenonT(30) DEF Next, ApplyGroup, DropGroup, Flip, ResyncDone, Emit, Subscribe, Lagged,
      RecvEvent, Tick, ThresholdPasses, EditSpec, Watch, RetryTimer, TriggerAll, vars, controller
  <2> QED BY <2>2, <2>3, <2>4, <2>5, <2>6, Zenon
<1>3. BridgeInv => Types
  BY Zenon DEF BridgeInv
<1> QED BY <1>1, <1>2, <1>3, BridgeInvHolds, PTL DEF Spec

\* Whatever mixture of commits a reconcile reads, render succeeds exactly when
\* every entry of the spec can be read and every key is one Kubernetes accepts,
\* and then gives every key the value of the last entry that sets it, for every
\* spec, order of keys and rewrite (render.rs render, as crd.rs promises).
THEOREM RenderKeepsThePromise == Spec => []RenderedAsSpecified
<1>1. Types /\ ViewNames => RenderedAsSpecified
  <2> SUFFICES ASSUME Types, ViewNames, job # None PROVE LastEntryWins(job, view)
    BY Zenon DEF RenderedAsSpecified
  <2> DEFINE x == job.dataFrom
             y == job.data
             d == x \o y
  <2>1. job \in CrSpec
    BY Zenon DEF Types, TypeOK
  <2>2. /\ IsList(x) /\ IsList(y)
        /\ \A i \in DOMAIN x : x[i].type \in {"group", "extract"} /\ x[i].group \in Group
        /\ \A i \in DOMAIN y : y[i].type = "data" /\ y[i].group \in Group
    <3>1. /\ IsList(x) /\ IsList(y)
          /\ \A i \in DOMAIN x : x[i].type \in {"group", "extract"}
          /\ \A i \in DOMAIN y : y[i].type = "data"
          /\ ReferencedGroups(job) \subseteq Group
      BY <2>1, BridgeSpecs, Zenon DEF IsList
    <3>2. /\ \A i \in DOMAIN x : x[i].group \in ReferencedGroups(job)
          /\ \A i \in DOMAIN y : y[i].group \in ReferencedGroups(job)
      BY Zenon DEF ReferencedGroups
    <3> HIDE DEF x, y
    <3> QED BY <3>1, <3>2, Zenon
  <2>3. \A i \in DOMAIN d : (\E j \in DOMAIN x : d[i] = x[j]) \/ (\E j \in DOMAIN y : d[i] = y[j])
    <3>1. IsJoin(d, x, y)
      <4> HIDE DEF x, y
      <4> QED BY <2>2, Joined, Zenon
    <3> HIDE DEF d, x, y
    <3> QED BY <3>1, Zenon DEF IsJoin
  <2>4. \A g \in Group : view[g] # None => DOMAIN view[g] \subseteq Key
    BY Zenon DEF ViewNames
  <2>5. \A e : e.type \in {"group", "extract", "data"} /\ e.group \in Group => EntryFits(view, e)
    BY <2>4, Zenon DEF EntryFits
  <2>6. \A i \in DOMAIN d : EntryFits(view, d[i])
    <3>1. \A i \in DOMAIN x : EntryFits(view, x[i])
      <4>1. \A i \in DOMAIN x : x[i].type \in {"group", "extract", "data"} /\ x[i].group \in Group
        BY <2>2, Zenon
      <4> HIDE DEF x
      <4> QED BY <2>5, <4>1, Zenon
    <3>2. \A i \in DOMAIN y : EntryFits(view, y[i])
      <4>1. \A i \in DOMAIN y : y[i].type \in {"group", "extract", "data"} /\ y[i].group \in Group
        BY <2>2, Zenon
      <4> HIDE DEF y
      <4> QED BY <2>5, <4>1, Zenon
    <3> HIDE DEF d, x, y
    <3> QED BY <2>3, <3>1, <3>2, Zenon
  <2>7. SpecFits(job, view)
    BY <2>2, <2>6, Zenon DEF SpecFits
  <2> QED BY <2>7, RenderKeeps, Zenon
<1>2. BridgeInv => Types
  BY Zenon DEF BridgeInv
<1> QED BY <1>1, <1>2, BridgeInvHolds, ViewNamesHold, PTL

=============================================================================
