---------------------------------- MODULE Uuids ----------------------------------
(***************************************************************************)
(* The uuids of RuleSets and their rules (internal/model: AssignUUIDs): the   *)
(* Config Manager gives one to what has none and keeps the one that the       *)
(* previous version of the file had for the same name, so that a rule can be   *)
(* tracked when it is renamed.                                                *)
(*                                                                         *)
(* An id, which the code does not have, says which rule or RuleSet a text is   *)
(* about for the one who wrote it.  A form copies the text when it is opened    *)
(* and sends it with the revision of the last poll, so it may overwrite what    *)
(* was saved in between (WebUI, NoLostUpdate): a request edits the text of any   *)
(* commit, and overwrote says that one of them was not the text of HEAD.       *)
(***************************************************************************)
EXTENDS Naturals, FiniteSets, Sequences, SequencesExt

CONSTANTS RuleSetNames, RuleNames,
          MaxRules,      \* rules in a RuleSet
          MaxTrees     \* bound of the history

UuidsAssumption == MaxRules \in Nat /\ MaxTrees \in Nat \ {0}

NoSet == <<>>     \* no such RuleSet
NoUuid == 0       \* the field is left out

VARIABLES trees,        \* the history: RuleSet -> NoSet or [uuid, id, rules]
          generated,    \* uuids that NewUUID has returned
          issued,         \* ids in use
          overwrote       \* a form has overwritten a text that it was not made from

uuidsVars == <<trees, generated, issued, overwrote>>

HeadTree == Last(trees)
HasSet(t, s) == t[s] # NoSet

\* A new rule, or RuleSet, as it is sent.
SentRule(name) == [name |-> name, uuid |-> NoUuid, id |-> issued + 1]
NewSet == [uuid |-> NoUuid, id |-> issued + 1, rules |-> <<>>]

-----------------------------------------------------------------------------
(* AssignUUIDs *)

KeepUUID(cur, prev) == IF prev # NoUuid THEN prev ELSE cur

UuidByName(rules, name) ==
  LET at == {i \in DOMAIN rules : rules[i].name = name} IN
  IF at = {} THEN NoUuid ELSE rules[CHOOSE i \in at : \A j \in at : j <= i].uuid

\* Mutant: a rule is matched with the rule that was at its place.
Mutant_KeptUuids(obj, prev) ==
  <<KeepUUID(obj.uuid, IF prev = NoSet THEN NoUuid ELSE prev.uuid)>>
    \o [i \in DOMAIN obj.rules |->
          KeepUUID(obj.rules[i].uuid,
                   IF prev # NoSet /\ i \in DOMAIN prev.rules THEN prev.rules[i].uuid ELSE NoUuid)]

\* What is kept for the RuleSet and for each of its rules.
KeptUuids(obj, prev) ==
  <<KeepUUID(obj.uuid, IF prev = NoSet THEN NoUuid ELSE prev.uuid)>>
    \o [i \in DOMAIN obj.rules |->
          KeepUUID(obj.rules[i].uuid,
                   IF prev = NoSet THEN NoUuid ELSE UuidByName(prev.rules, obj.rules[i].name))]

Missing(kept) == {k \in DOMAIN kept : kept[k] = NoUuid}

\* Where nothing is kept a new uuid, numbered in the order they are made.
AssignUUIDs(obj, prev) ==
  LET kept == KeptUuids(obj, prev)
      uuid(k) == IF kept[k] # NoUuid THEN kept[k]
                 ELSE generated + Cardinality({l \in Missing(kept) : l <= k})
  IN  [obj EXCEPT !.uuid = uuid(1),
                  !.rules = [i \in DOMAIN @ |-> [@[i] EXCEPT !.uuid = uuid(i + 1)]]]

-----------------------------------------------------------------------------
(* The Config Manager *)

\* duplicate-rule (DM-01).
DistinctNames(obj) == \A i, j \in DOMAIN obj.rules : obj.rules[i].name = obj.rules[j].name => i = j

\* Without a change there is no commit.
CommitTree(t) ==
  \/ t = HeadTree /\ UNCHANGED trees
  \/ t # HeadTree /\ Len(trees) < MaxTrees /\ trees' = Append(trees, t)

\* Putting an object whose text is obj; new is the number of ids it brings.
PutSet(s, obj, new) ==
  /\ DistinctNames(obj) /\ Len(obj.rules) <= MaxRules
  /\ CommitTree([HeadTree EXCEPT ![s] = AssignUUIDs(obj, HeadTree[s])])
  /\ generated' = generated + Cardinality(Missing(KeptUuids(obj, HeadTree[s])))
  /\ issued' = issued + new

\* The text of s that a form was opened on, sent with other rules.
EditSet(s, seen, rules, new) ==
  /\ PutSet(s, [seen EXCEPT !.rules = rules], new)
  /\ overwrote' = (overwrote \/ seen # HeadTree[s])
Seen(s) == {trees[k][s] : k \in DOMAIN trees} \ {NoSet}

CreateSet(s) == ~HasSet(HeadTree, s) /\ PutSet(s, NewSet, 1) /\ UNCHANGED overwrote
DeleteSet(s) ==
  /\ HasSet(HeadTree, s) /\ CommitTree([HeadTree EXCEPT ![s] = NoSet])
  /\ UNCHANGED <<generated, issued, overwrote>>

\* The form of the RuleSet, the editor of a rule and the question before a rule is
\* deleted send the rules they were opened on, with one change or none.  A row
\* that is dragged changes those on the page, which are those of its revision.
KeepItems(s, seen) == EditSet(s, seen, seen.rules, 0)
AddItem(s, seen, name) == EditSet(s, seen, Append(seen.rules, SentRule(name)), 1)
RenameItem(s, seen, i, name) == EditSet(s, seen, [seen.rules EXCEPT ![i].name = name], 0)
RemoveItem(s, seen, i) == EditSet(s, seen, RemoveAt(seen.rules, i), 0)
MoveItem(s, i, j) ==
  LET seen == HeadTree[s] IN EditSet(s, seen, InsertAt(RemoveAt(seen.rules, i), j, seen.rules[i]), 0)

Form(s) ==
  \/ CreateSet(s) \/ DeleteSet(s)
  \/ HasSet(HeadTree, s) /\ \E i, j \in DOMAIN HeadTree[s].rules : MoveItem(s, i, j)
  \/ \E seen \in Seen(s) :
       \/ KeepItems(s, seen)
       \/ \E name \in RuleNames : AddItem(s, seen, name)
       \/ \E i \in DOMAIN seen.rules :
            RemoveItem(s, seen, i) \/ \E name \in RuleNames : RenameItem(s, seen, i, name)

\* The YAML editor: one request renames a rule and adds another.
EditYaml(s) ==
  \E seen \in Seen(s) : \E i \in DOMAIN seen.rules, name, added \in RuleNames :
    EditSet(s, seen, Append([seen.rules EXCEPT ![i].name = name], SentRule(added)), 1)

\* Revert puts files back as they were.
RevertTree(k) == CommitTree(trees[k]) /\ UNCHANGED <<generated, issued, overwrote>>

\* importConfig with an archive of an earlier commit: an object with the same
\* name in HEAD is its previous version.
ImportTree(k) ==
  /\ CommitTree([s \in RuleSetNames |-> IF HasSet(trees[k], s) THEN AssignUUIDs(trees[k][s], HeadTree[s])
                                ELSE NoSet])
  /\ UNCHANGED <<generated, issued, overwrote>>

\* Open: the factory default, a RuleSet with a rule.
UuidsInit ==
  \E s \in RuleSetNames, n \in RuleNames :
    /\ trees = << [r \in RuleSetNames |-> IF r = s
                       THEN [uuid |-> 1, id |-> 1, rules |-> <<[name |-> n, uuid |-> 2, id |-> 2]>>]
                       ELSE NoSet] >>
    /\ generated = 2 /\ issued = 2 /\ overwrote = FALSE

FormNext == (\E s \in RuleSetNames : Form(s)) \/ \E k \in DOMAIN trees : RevertTree(k)
UuidsNext ==
  \/ FormNext
  \/ \E s \in RuleSetNames : EditYaml(s)
  \/ \E k \in DOMAIN trees : ImportTree(k)

FormSpec == UuidsInit /\ [][FormNext]_uuidsVars      \* what the pages do
UuidsSpec == UuidsInit /\ [][UuidsNext]_uuidsVars

-----------------------------------------------------------------------------
(* Properties *)

\* A RuleSet and its rules.
ItemsOf(o) == {<<o.id, o.uuid>>} \cup {<<r.id, r.uuid>> : r \in Range(o.rules)}
Items(t) == UNION {ItemsOf(t[s]) : s \in {r \in RuleSetNames : HasSet(t, r)}}
Everything == UNION {Items(t) : t \in Range(trees)}

\* The uuids that RuleSet s and its rules have had.
UuidsOf(s) == UNION {{x[2] : x \in ItemsOf(o)} : o \in Seen(s)}

UuidsTypeOK ==
  /\ generated \in Nat /\ issued \in Nat /\ overwrote \in BOOLEAN
  /\ Len(trees) \in 1..MaxTrees
  /\ \A x \in Everything : x[1] \in 1..issued /\ x[2] \in 1..generated

(***************************************************************************)
(* Through the forms and Revert no uuid is ever found in two RuleSets, and,    *)
(* until a form overwrites a text that it was not made from, a uuid tells a    *)
(* rule, or a RuleSet, from all others in all of the history, whatever is      *)
(* renamed, moved, deleted and made again under an old name.                  *)
(***************************************************************************)
OneUuidEach ==
  /\ \A r, s \in RuleSetNames : r # s => UuidsOf(r) \cap UuidsOf(s) = {}
  /\ ~overwrote => \A x, y \in Everything : x[1] = y[1] <=> x[2] = y[2]

\* common.schema.json:57: "Generated by the system on first save; never written
\* by hand. Lets the UI track renames": no two rules have the same.
NotShared == \A x, y \in Items(HeadTree) : x[2] = y[2] => x[1] = y[1]

\* tree.go:446-448: "keeping the uuid of the previous version (matched by name)
\* when there is one, so that a uuid never changes once assigned": a rule that is
\* in HEAD and in the commit after it has the same uuid in both.
NeverChanges ==
  [][\A x \in Items(HeadTree), y \in Items(HeadTree') : x[1] = y[1] => x[2] = y[2]]_uuidsVars
=============================================================================
