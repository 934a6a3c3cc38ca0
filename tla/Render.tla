------------------------------- MODULE Render -------------------------------
(***************************************************************************)
(* render (operator/src/render.rs): the data of the Kubernetes Secret that *)
(* a BunkerSecret's spec asks for, from what the mirror holds, and which   *)
(* groups a spec refers to (crd.rs).                                       *)
(*                                                                         *)
(* A mirror maps a group to None or to the secrets it holds.  A secret is  *)
(* an opaque value: Object says which values are JSON objects and what     *)
(* json_value_bytes makes of their fields.  Locked stands for a secret     *)
(* whose DEK cannot be opened.                                             *)
(***************************************************************************)
EXTENDS ListFolds, TLC

CONSTANTS Group, Key,  \* Key: names of secrets, fields and rendered keys
          KeyOrder,    \* the keys, ascending: BTreeMap's and list's order
          ValidKey,    \* those Kubernetes accepts
          Object, Locked, None

\* the names and keys have an order, and those of JSON fields are among them
ASSUME RenderKeys ==
  /\ KeyOrder \in Seq(Key) /\ Range(KeyOrder) = Key
  /\ \A i, j \in DOMAIN KeyOrder : KeyOrder[i] = KeyOrder[j] => i = j
  /\ \A v \in DOMAIN Object : DOMAIN Object[v] \subseteq Key

Ok(v) == [ok |-> TRUE, value |-> v]
Err(reason) == [ok |-> FALSE, reason |-> reason]

-----------------------------------------------------------------------------
(* ReplicaSource: the mirror as the render sees it *)

Ascending(S) ==
  FoldLeft(LAMBDA q, k : IF k \in S THEN Append(q, k) ELSE q, <<>>, KeyOrder)

List(mirror, g) ==
  IF mirror[g] = None THEN Err("MissingGroup")
  ELSE Ok(Ascending(DOMAIN mirror[g]))

Get(mirror, g, n) ==
  IF mirror[g] = None THEN Err("MissingGroup")
  ELSE IF n \notin DOMAIN mirror[g] THEN Err("MissingSecret")
  ELSE IF mirror[g][n] = Locked THEN Err("NotYetSynced")
  ELSE Ok(mirror[g][n])

-----------------------------------------------------------------------------
(* The loops.  An entry of a spec makes assignments, in order: a key and    *)
(* the value it gets, or the error that ends the render there.              *)

\* out, the invalid keys, and the error of an early return ("" for none)
Start == [out |-> <<>>, invalid |-> {}, error |-> ""]

\* mutant: a key that is there already keeps its value
InsertNew(acc, k, v) ==
  IF k \in ValidKey THEN [acc EXCEPT !.out = @ @@ (k :> v)]
  ELSE [acc EXCEPT !.invalid = @ \cup {k}]

Insert(acc, k, v) ==
  IF k \in ValidKey
  THEN [acc EXCEPT !.out = [x \in DOMAIN @ \cup {k} |-> IF x = k THEN v ELSE @[x]]]
  ELSE [acc EXCEPT !.invalid = @ \cup {k}]

Assign(acc, x) ==
  IF acc.error # "" THEN acc
  ELSE IF ~x.got.ok THEN [acc EXCEPT !.error = x.got.reason]
  ELSE Insert(acc, x.key, x.got.value)

\* an entry that fails before its first key
Fails(got) == <<[key |-> None, got |-> got]>>

-----------------------------------------------------------------------------
(* The entries *)

Rewritten(e, n) ==
  LET rules == SelectSeq(e.rewrite, LAMBDA r : r.source = n)
  IN  IF rules = <<>> THEN n ELSE rules[1].target

\* parse_json and as_object
Fields(v) ==
  IF v \in DOMAIN Object THEN Ok(Object[v])
  ELSE Err("JsonError")

\* parse_json and a pointer to one field; no pointer leads into a scalar
Property(v, p) ==
  IF v \in DOMAIN Object /\ p \in DOMAIN Object[v] THEN Ok(Object[v][p])
  ELSE Err("JsonError")

WholeGroup(mirror, e) ==
  LET names == List(mirror, e.group)
  IN  IF ~names.ok THEN Fails(names)
      ELSE [i \in DOMAIN names.value |->
              [key |-> Rewritten(e, names.value[i]),
               got |-> Get(mirror, e.group, names.value[i])]]

Extract(mirror, e) ==
  LET got == Get(mirror, e.group, e.name)
      fields == Fields(got.value)
      ks == Ascending(DOMAIN fields.value)
  IN  IF ~got.ok THEN Fails(got)
      ELSE IF ~fields.ok THEN Fails(fields)
      ELSE [i \in DOMAIN ks |-> [key |-> ks[i], got |-> Ok(fields.value[ks[i]])]]

\* an entry of data; property None takes the whole secret
Explicit(mirror, d) ==
  LET got == Get(mirror, d.group, d.name)
  IN  <<[key |-> d.key,
         got |-> IF ~got.ok \/ d.property = None THEN got
                 ELSE Property(got.value, d.property)]>>

Assignments(mirror, e) ==
  CASE e.type = "group" -> WholeGroup(mirror, e)
    [] e.type = "extract" -> Extract(mirror, e)
    [] e.type = "data" -> Explicit(mirror, e)

-----------------------------------------------------------------------------

\* dataFrom in the order of the list, then data
render(spec, mirror) ==
  LET entry(acc, e) == FoldLeft(Assign, acc, Assignments(mirror, e))
      all == FoldLeft(entry, Start, spec.dataFrom \o spec.data)
  IN  IF all.error # "" THEN Err(all.error)
      ELSE IF all.invalid # {} THEN Err("InvalidKey")
      ELSE Ok(all.out)

\* mutant: groups an extract names are forgotten
GroupsOfEntries(spec) ==
  {spec.data[i].group : i \in DOMAIN spec.data} \cup
  {spec.dataFrom[i].group : i \in {j \in DOMAIN spec.dataFrom :
                                     spec.dataFrom[j].type = "group"}}

\* BunkerSecret::referenced_groups
ReferencedGroups(spec) ==
  {spec.data[i].group : i \in DOMAIN spec.data} \cup
  {spec.dataFrom[i].group : i \in DOMAIN spec.dataFrom}

-----------------------------------------------------------------------------
(* What the fields of the CRD promise, without an order of evaluation *)

\* the keys an entry sets and, for each, the value it leaves there; a group
\* that rewrites two names to one key keeps the later name's secret
EntryKeys(mirror, e) ==
  CASE e.type = "group" -> {Rewritten(e, n) : n \in DOMAIN mirror[e.group]}
    [] e.type = "extract" -> DOMAIN Object[mirror[e.group][e.name]]
    [] e.type = "data" -> {e.key}

EntryValue(mirror, e, k) ==
  CASE e.type = "group" ->
         LET sources == Ascending({n \in DOMAIN mirror[e.group] :
                                     Rewritten(e, n) = k})
         IN  mirror[e.group][sources[Len(sources)]]
    [] e.type = "extract" -> Object[mirror[e.group][e.name]][k]
    [] e.type = "data" ->
         LET v == mirror[e.group][e.name]
         IN  IF e.property = None THEN v ELSE Object[v][e.property]

EntryReadable(mirror, e) ==
  /\ mirror[e.group] # None
  /\ IF e.type = "group"
     THEN \A n \in DOMAIN mirror[e.group] : mirror[e.group][n] # Locked
     ELSE /\ e.name \in DOMAIN mirror[e.group]
          /\ mirror[e.group][e.name] # Locked
          /\ e.type = "extract" \/ e.property # None
               => mirror[e.group][e.name] \in DOMAIN Object
          /\ e.type = "data" /\ e.property # None
               => e.property \in DOMAIN Object[mirror[e.group][e.name]]

\* data wins over dataFrom and a later entry over an earlier one; one entry
\* that cannot be read, or one key Kubernetes refuses, and nothing is rendered
LastEntryWins(spec, mirror) ==
  LET entries == spec.dataFrom \o spec.data
      I == DOMAIN entries
      readable == \A i \in I : EntryReadable(mirror, entries[i])
      keys == UNION {EntryKeys(mirror, entries[i]) : i \in I}
      last(k) == CHOOSE i \in I :
                   /\ k \in EntryKeys(mirror, entries[i])
                   /\ \A j \in I : j > i => k \notin EntryKeys(mirror, entries[j])
      result == render(spec, mirror)
  IN  /\ result.ok <=> readable /\ keys \subseteq ValidKey
      /\ result.ok =>
           /\ DOMAIN result.value = keys
           /\ \A k \in keys :
                result.value[k] = EntryValue(mirror, entries[last(k)], k)

=============================================================================
