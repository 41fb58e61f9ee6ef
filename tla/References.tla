------------------------------- MODULE References -------------------------------
(***************************************************************************)
(* AddressNames and references (internal/validator: names, ref, groups, colors;    *)
(* internal/model: the lookups and the expansion of groups) and the rule by *)
(* which the API accepts a change (api/config.go: mutation, newErrors): it  *)
(* is refused for the errors HEAD did not have.  HEAD may be any tree that  *)
(* parses, for files are also edited by hand.                               *)
(*                                                                         *)
(* The address namespace stands for all: names are numbers, in their order; *)
(* an Address and an AddressGroup may wrongly share one.  One RuleSet, a    *)
(* list of rules with one source each, refers to them; it has a colour.     *)
(***************************************************************************)
EXTENDS Naturals, FiniteSets, Sequences, SequencesExt

CONSTANTS AddressNames,  \* names of Addresses and AddressGroups
          Members,       \* the lists of members of a group
          RuleSources,   \* the lists of sources of the RuleSet's rules
          ColorNames,
          ShippedHex,    \* the palette: name -> hex
          Hexes,
          None,          \* no such object
          Heads          \* what HEAD may be to begin with

ColorSpecs == [hex : Hexes, predefined : BOOLEAN]
Trees ==
  [addresses : SUBSET AddressNames, groups : [AddressNames -> Members \cup {None}], rules : RuleSources,
   colors : [ColorNames -> ColorSpecs \cup {None}], color : ColorNames \cup {None}]

ReferencesAssumption ==
  /\ AddressNames \subseteq Nat /\ ColorNames \subseteq Nat
  /\ \A l \in Members \cup RuleSources : l \in Seq(AddressNames)
  /\ ShippedHex \in [DOMAIN ShippedHex -> Hexes] /\ DOMAIN ShippedHex \subseteq ColorNames
  /\ None \notin Members \cup ColorSpecs \cup ColorNames
  /\ Heads \subseteq Trees

VARIABLE tree

-----------------------------------------------------------------------------
(* Lookups *)

GroupsOf(t) == {n \in AddressNames : t.groups[n] # None}
InNamespace(t, n) == n \in t.addresses \/ n \in GroupsOf(t)

\* ExpandAddresses: an Address hides a group of its name; what was seen is not
\* walked again.
ExpandAddresses(t, ref) ==
  LET walk[n \in AddressNames, w \in [seen : SUBSET AddressNames, out : Seq(AddressNames)]] ==
        IF n \in w.seen THEN w
        ELSE LET now == [w EXCEPT !.seen = @ \cup {n}] IN
             IF n \in t.addresses THEN [now EXCEPT !.out = Append(@, n)]
             ELSE IF n \in GroupsOf(t)
               THEN FoldLeft(LAMBDA v, m : walk[m, v], now, t.groups[n])
             ELSE now
  IN  walk[ref, [seen |-> {}, out |-> <<>>]].out

-----------------------------------------------------------------------------
(* The Validator.  A finding is [file, path, rule, reason]; *)
(* reason is the names it tells.                            *)

Finding(file, path, rule, reason) ==
  [file |-> file, path |-> path, rule |-> rule, reason |-> reason]

Dangling(t, file, list) ==
  {Finding(file, i, "dangling-ref", <<list[i]>>) : i \in {j \in DOMAIN list : ~InNamespace(t, list[j])}}

\* names: the second kind in kind order reports the name.
NameErrors(t) ==
  {Finding(<<"AddressGroup", n>>, 0, "unique-name", <<n>>) : n \in t.addresses \cap GroupsOf(t)}

RefErrors(t) ==
  Dangling(t, <<"RuleSet">>, t.rules)
    \cup UNION {Dangling(t, <<"AddressGroup", n>>, t.groups[n]) : n \in GroupsOf(t)}

\* The file the namespace has for a name.
FileOf(t, n) == <<IF n \in t.addresses THEN "Address" ELSE "AddressGroup", n>>

NamesInOrder == SetToSortSeq(AddressNames, <)

\* Mutant: a group that was left stays on the path.
Mutant_Left(s, n) == s

Entered(s, n) == [s EXCEPT !.color[n] = "grey"]
Left(s, n) == [s EXCEPT !.color[n] = "black"]

\* groups: the depth-first search, in the order of names and members.  A path
\* whose last group was on it before is a cycle.
Cycles(t) ==
  LET groupsIn(l) == SelectSeq(l, LAMBDA n : n \in GroupsOf(t))
      visit[path \in Seq(AddressNames),
            s \in [color : [AddressNames -> {"white", "grey", "black"}], found : SUBSET Seq(AddressNames)]] ==
        LET member(v, m) ==
              CASE v.color[m] = "grey"  -> [v EXCEPT !.found = @ \cup {Append(path, m)}]
                [] v.color[m] = "white" -> visit[Append(path, m), v]
                [] v.color[m] = "black" -> v
            n == Last(path)
        IN  Left(FoldLeft(member, Entered(s, n), groupsIn(t.groups[n])), n)
      start == [color |-> [n \in AddressNames |-> "white"], found |-> {}]
  IN  FoldLeft(LAMBDA s, n : IF s.color[n] = "white" THEN visit[<<n>>, s] ELSE s,
               start, groupsIn(NamesInOrder)).found

\* A cycle is reported at the group that closes it.
CycleErrors(t) == {Finding(FileOf(t, Last(Front(p))), 0, "group-cycle", p) : p \in Cycles(t)}

Colors(t) == {c \in ColorNames : t.colors[c] # None}

\* colorsCheck (DM-21, DM-33).
ColorErrors(t) ==
  LET file(c) == <<"Color", c>>
      hex(c) == t.colors[c].hex
      shipped == DOMAIN ShippedHex
      earlier(c) == {d \in Colors(t) : d < c /\ hex(d) = hex(c)}
  IN  {Finding(file(c), 1, "duplicate-hex", <<CHOOSE d \in earlier(c) : \A e \in earlier(c) : e <= d>>)
         : c \in {d \in Colors(t) : earlier(d) # {}}}
      \cup {Finding(file(c), 2, "predefined-unknown", <<c>>)
              : c \in {d \in Colors(t) : t.colors[d].predefined /\ d \notin shipped}}
      \cup {Finding(file(c), 1, "predefined-hex", <<c>>)
              : c \in {d \in Colors(t) \cap shipped : t.colors[d].predefined /\ ShippedHex[d] # hex(d)}}
      \cup {Finding(file(c), 2, "predefined-shadow", <<c>>)
              : c \in {d \in Colors(t) \cap shipped : ~t.colors[d].predefined}}
      \cup {Finding(file(c), 0, "predefined-missing", <<c>>) : c \in shipped \ Colors(t)}
      \cup {Finding(<<"RuleSet">>, -1, "dangling-ref", <<t.color>>)
              : c \in {d \in {t.color} : d # None /\ d \notin Colors(t)}}

TreeErrors(t) == NameErrors(t) \cup RefErrors(t) \cup CycleErrors(t) \cup ColorErrors(t)

-----------------------------------------------------------------------------
(* The API *)

\* Mutant: findings are told apart by file and rule only.
Mutant_ErrorKey(f) == <<f.file, f.rule>>

\* key: without the line of the file.
ErrorKey(f) == <<f.file, f.path, f.rule, f.reason>>

NewErrors(before, after) == {f \in after : \A g \in before : ErrorKey(g) # ErrorKey(f)}

\* mutation, after its checks on the one object.
AcceptedTree(t) == NewErrors(TreeErrors(tree), TreeErrors(t)) = {}
Save(t) == tree' = IF AcceptedTree(t) THEN t ELSE tree

PutAddress(n) == Save([tree EXCEPT !.addresses = @ \cup {n}])
DeleteAddress(n) == n \in tree.addresses /\ Save([tree EXCEPT !.addresses = @ \ {n}])

PutGroup(n, members) == Save([tree EXCEPT !.groups[n] = members])
DeleteGroup(n) == n \in GroupsOf(tree) /\ Save([tree EXCEPT !.groups[n] = None])

PutRules(rules) == Save([tree EXCEPT !.rules = rules])
PaintRules(c) == Save([tree EXCEPT !.color = c])

\* Shipped Colors cannot be deleted.
Deletable(c) == c \notin DOMAIN ShippedHex

PutColor(c, spec) == Save([tree EXCEPT !.colors[c] = spec])
DeleteColor(c) ==
  c \in Colors(tree) /\ Deletable(c) /\ Save([tree EXCEPT !.colors[c] = None])

ReferencesInit == tree \in Heads

ReferencesNext ==
  \/ \E n \in AddressNames : PutAddress(n) \/ DeleteAddress(n) \/ DeleteGroup(n)
                               \/ \E l \in Members : PutGroup(n, l)
  \/ \E l \in RuleSources : PutRules(l)
  \/ \E c \in ColorNames \cup {None} : PaintRules(c)
  \/ \E c \in ColorNames : DeleteColor(c) \/ \E s \in ColorSpecs : PutColor(c, s)

ReferencesSpec == ReferencesInit /\ [][ReferencesNext]_tree

-----------------------------------------------------------------------------
(* Properties *)

ReferencesTypeOK == tree \in Trees

\* The groups on a cycle.
Edges(t) == {e \in GroupsOf(t) \X GroupsOf(t) : e[2] \in Range(t.groups[e[1]])}
Reachable(t) ==
  LET r[k \in Nat] ==
        IF k = 0 THEN Edges(t)
        ELSE LET p == r[k-1] IN
             p \cup {<<z[1][1], z[2][2]>> : z \in {y \in p \X Edges(t) : y[1][2] = y[2][1]}}
  IN  r[Cardinality(AddressNames)]
OnCycle(t) == {n \in AddressNames : <<n, n>> \in Reachable(t)}

\* What else is wrong with a tree, without saying where in a file: references that
\* lead nowhere, names used twice, colours.
Broken(t) ==
  {<<"rule", n>> : n \in {m \in Range(t.rules) : ~InNamespace(t, m)}}
    \cup {<<"member", e[1], e[2]>> : e \in
            {x \in GroupsOf(t) \X AddressNames : x[2] \in Range(t.groups[x[1]]) /\ ~InNamespace(t, x[2])}}
    \cup {<<"color", c>> : c \in {t.color} \ (Colors(t) \cup {None})}
    \cup {<<"twice", n>> : n \in t.addresses \cap GroupsOf(t)}
    \cup {<<"palette", c>> : c \in {d \in DOMAIN ShippedHex :
                                     t.colors[d] # [hex |-> ShippedHex[d], predefined |-> TRUE]}}
    \cup {<<"hex", p[1], p[2]>> : p \in
            {x \in Colors(t) \X Colors(t) : x[1] < x[2] /\ t.colors[x[1]].hex = t.colors[x[2]].hex}}

\* No accepted change breaks anything that was not broken before: no reference,
\* no name, no colour, also when HEAD is invalid already and its findings are left
\* out of the judgement (config.go newErrors).  Cycles: NoNewCycle.
NothingBroken == tree' # tree => Broken(tree') \subseteq Broken(tree)
SavesBreakNothing == [][NothingBroken]_tree

\* The depth-first search reports a cycle exactly when the groups have one.
CycleReported == CycleErrors(tree) # {} <=> OnCycle(tree) # {}

\* A group stands for the Addresses reached through its members, each once,
\* whatever cycles, duplicate names and dangling members HEAD has
\* (tree.go ExpandAddresses).
ExpandIsReach ==
  \A n \in AddressNames :
    LET out == ExpandAddresses(tree, n)
        open(x) == x \notin tree.addresses
        clean == [tree EXCEPT !.groups = [m \in AddressNames |-> IF open(m) THEN @[m] ELSE None]]
        below == {n} \cup {m \in AddressNames : \E g \in GroupsOf(clean) :
                             (g = n \/ <<n, g>> \in Reachable(clean)) /\ m \in Range(clean.groups[g])}
    IN  /\ Range(out) = below \cap tree.addresses
        /\ Len(out) = Cardinality(Range(out))

\* config.go:130: "newErrors keeps only the errors that HEAD did not already
\* have, so a change is judged on what it breaks, not on pre-existing problems".
JudgedOnWhatItBreaks ==
  \A l \in RuleSources : LET t == [tree EXCEPT !.rules = l] IN
    Broken(t) \subseteq Broken(tree) => AcceptedTree(t)

\* The same of that comment for cycles: no accepted change puts a group on one
\* that was on none.
NoNewCycle == [][OnCycle(tree') \subseteq OnCycle(tree)]_tree
=============================================================================
