-------------------------------- MODULE ObjectTree --------------------------------
(***************************************************************************)
(* The tree of configuration objects (internal/model: Tree, List) and how it  *)
(* is read from documents (internal/validator: ParseDocs, LoadDir, Relocate). *)
(* Each kind has a list, searched from its start; lists are sorted by name    *)
(* when a tree was read, and what is put later comes last.                    *)
(***************************************************************************)
EXTENDS Naturals, FiniteSets, Sequences, SequencesExt

CONSTANTS KindOrder,      \* the kinds, in the order of Kinds
          ObjectNames, ObjectValues, NoValue,
          MaxDocs         \* documents of the files that are read

Kinds == Range(KindOrder)
ListObjects == [name : ObjectNames, value : ObjectValues]

ObjectTreeAssumption ==
  /\ KindOrder \in Seq(Kinds) /\ IsInjective(KindOrder)
  /\ ObjectNames \subseteq Nat /\ MaxDocs \in Nat /\ NoValue \notin ObjectValues

\* A document declares a kind and a name; the schema finds it valid or not.
Docs == [kind : Kinds, object : ListObjects, valid : BOOLEAN]

VARIABLES lists,      \* kind -> sequence of Objects
          docs,       \* the documents of the files, in order
          src,        \* for each object read, the document it came from
          reported,   \* the documents that were reported
          sought      \* the last object put or deleted

treeVars == <<lists, docs, src, reported, sought>>

-----------------------------------------------------------------------------
(* Lists *)

At(list, n) == {i \in DOMAIN list : list[i].name = n}
FirstAt(s) == CHOOSE i \in s : \A j \in s : i <= j

\* Mutant: an object is always appended.
Mutant_PutIn(list, o) == Append(list, o)

PutIn(list, o) == IF At(list, o.name) = {} THEN Append(list, o)
                  ELSE [list EXCEPT ![FirstAt(At(list, o.name))] = o]
Without(list, n) == IF At(list, n) = {} THEN list ELSE RemoveAt(list, FirstAt(At(list, n)))
Find(list, n) == IF At(list, n) = {} THEN NoValue ELSE list[FirstAt(At(list, n))].value

\* sort.SliceStable by name: an object comes after those of a smaller name, and
\* after those of its own name that were before it.
Rank(list, i) ==
  Cardinality({j \in DOMAIN list : \/ list[j].name < list[i].name
                                   \/ list[j].name = list[i].name /\ j <= i})
Sorted(list) == [r \in DOMAIN list |-> list[CHOOSE i \in DOMAIN list : Rank(list, i) = r]]

Sought(k, o) == [kind |-> k, name |-> o.name, value |-> o.value]
Nothing == [kind |-> NoValue, name |-> NoValue, value |-> NoValue]

\* Each visits every object: a visit is of a kind's place and of a place in its
\* list, in that order.
Visits == UNION {{i} \X DOMAIN lists[KindOrder[i]] : i \in DOMAIN KindOrder}
Before(p, q) == p[1] < q[1] \/ (p[1] = q[1] /\ p[2] < q[2])
Visited(p) == <<p[1], lists[KindOrder[p[1]]][p[2]].name>>

-----------------------------------------------------------------------------
(* ParseDocs and LoadDir *)

Key(d) == <<d.kind, d.object.name>>
DocsRead == Cardinality(DOMAIN src) + Cardinality(reported)      \* documents read
Reading == DocsRead < Len(docs)

\* A document that does not match the schema, or names an object that was read
\* before, is reported and skipped.
RefusedDoc(d) == ~d.valid \/ Key(d) \in DOMAIN src

ParseDoc ==
  /\ Reading
  /\ LET i == DocsRead + 1
         d == docs[i] IN
     IF RefusedDoc(d)
       THEN reported' = reported \cup {i} /\ UNCHANGED <<lists, src, sought>>
       ELSE /\ lists' = [lists EXCEPT ![d.kind] = PutIn(@, d.object)]
            /\ src' = [k \in DOMAIN src \cup {Key(d)} |-> IF k = Key(d) THEN i ELSE src[k]]
            /\ sought' = Sought(d.kind, d.object)
            /\ UNCHANGED reported
  /\ UNCHANGED docs

SortAll == lists' = [k \in Kinds |-> Sorted(lists[k])]

\* Once all is read the tree is sorted, and no document is left.
TreeLoaded == docs # <<>> /\ ~Reading /\ SortAll /\ docs' = <<>> /\ UNCHANGED <<src, reported, sought>>

\* Relocate: where a finding about an object is reported.
Relocate(k, n) == IF <<k, n>> \in DOMAIN src THEN src[<<k, n>>] ELSE 0

-----------------------------------------------------------------------------
(* A tree in use *)

NoDocs == docs = <<>>

PutObject(k, o) ==
  /\ NoDocs /\ lists' = [lists EXCEPT ![k] = PutIn(@, o)]
  /\ sought' = Sought(k, o) /\ UNCHANGED <<docs, src, reported>>

DeleteObject(k, n) ==
  /\ NoDocs /\ lists' = [lists EXCEPT ![k] = Without(@, n)]
  /\ sought' = Sought(k, [name |-> n, value |-> NoValue]) /\ UNCHANGED <<docs, src, reported>>

\* A file for each object is written, and read again.
Reread == NoDocs /\ SortAll /\ UNCHANGED <<docs, src, reported, sought>>

DocFiles == SeqOf(Docs, MaxDocs)

TreeInit ==
  /\ lists = [k \in Kinds |-> <<>>]
  /\ docs \in DocFiles /\ src = <<>> /\ reported = {}
  /\ sought = Nothing

TreeNext ==
  \/ ParseDoc \/ TreeLoaded \/ Reread
  \/ \E k \in Kinds : \/ \E o \in ListObjects : PutObject(k, o)
                      \/ \E n \in ObjectNames : DeleteObject(k, n)

TreeSpec == TreeInit /\ [][TreeNext]_treeVars

-----------------------------------------------------------------------------
(* Properties *)

TreeTypeOK ==
  /\ \A k \in Kinds : lists[k] \in Seq(ListObjects) /\ Len(lists[k]) <= Cardinality(ObjectNames)
  /\ docs \in Seq(Docs) /\ Len(docs) <= MaxDocs /\ reported \subseteq 1..MaxDocs
  /\ DOMAIN src \subseteq Kinds \X ObjectNames
  /\ \A k \in DOMAIN src : src[k] \in 1..MaxDocs
  /\ sought \in [kind : Kinds, name : ObjectNames, value : ObjectValues \cup {NoValue}] \cup {Nothing}

\* No document is lost in silence: of those read, each is where an object of the
\* tree came from, or is reported, and an object of the tree is the first valid
\* document of its name, whatever the order of the files.
NothingLost ==
  docs # <<>> =>
    LET read == 1..DocsRead
        first(k, n) == {i \in read : /\ docs[i].valid /\ Key(docs[i]) = <<k, n>>
                                     /\ \A j \in 1..(i-1) : docs[j].valid => Key(docs[j]) # <<k, n>>}
    IN  /\ read = Range(src) \cup reported /\ Range(src) \cap reported = {}
        /\ \A k \in Kinds, n \in ObjectNames :
             /\ first(k, n) = {Relocate(k, n)} \ {0}
             /\ Find(lists[k], n) = IF first(k, n) = {} THEN NoValue
                                    ELSE docs[Relocate(k, n)].object.value

\* What a tree that was read is visited in: kind by kind, and by name.  No
\* object is visited twice, in any tree.
EachOnce == \A p, q \in Visits : Visited(p) = Visited(q) => p = q
InOrder ==
  TreeLoaded \/ Reread => \A p, q \in Visits' : Before(p, q) => Before(Visited(p)', Visited(q)')
ReadInOrder == [][InOrder]_treeVars

\* The tree is a map from kind and name to the last object put there: a put
\* replaces, a deletion leaves none, and reading and sorting lose nothing.
Map == INSTANCE ObjectMap
         WITH Names <- ObjectNames, Values <- ObjectValues, Absent <- NoValue, asked <- sought,
              objects <- [k \in Kinds |-> [n \in ObjectNames |-> Find(lists[k], n)]]
MapRefined == Map!Spec

\* The lists of a tree are a map from kind and name to the last object put there;
\* no document of a file is lost in silence, no object visited twice, and a tree
\* that was read is visited kind by kind and by name (tree.go List, load.go
\* ParseDocs).
ImplementsMap == MapRefined /\ [](NothingLost /\ EachOnce) /\ ReadInOrder
=============================================================================
