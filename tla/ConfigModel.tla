------------------------------ MODULE ConfigModel ------------------------------
(***************************************************************************)
(* The configuration of the appliance and the requests that change it, as  *)
(* the API Server builds them (internal/api/config.go).                     *)
(*                                                                          *)
(* A configuration tree maps every file of the repository (one object per   *)
(* file) to its content, or to Absent.  What is inside a content does not   *)
(* matter here: the validator is the constant operator ErrorsOf, which      *)
(* gives the set of blocking errors of a whole tree.                        *)
(***************************************************************************)
EXTENDS Naturals, Sequences

CONSTANTS Files,        \* paths of the repository, one per object
          Contents,     \* canonical file contents
          Absent,       \* the file does not exist
          Torn,         \* what an interrupted write leaves: not one object
          UserFiles,    \* the files of the User objects
          Singletons,   \* the System object: edited, never created or deleted
          Shipped,      \* predefined Colors and Services, never deleted
          Factory,      \* the factory-default tree
          Bodies,       \* the <<file, content>> pairs clients send
          Imports,      \* the trees clients import
          ErrorsOf(_)   \* Validate: the errors (not the warnings) of a tree

Slots == Contents \cup {Absent, Torn}
DiskTrees == [Files -> Slots]                    \* what a directory can hold
Trees == [Files -> Contents \cup {Absent}]       \* what Read can parse
EmptyTree == [f \in Files |-> Absent]

ASSUME ConfigAssumption ==
  /\ Absent \notin Contents
  /\ Torn \notin Contents \cup {Absent}
  /\ UserFiles \cup Singletons \cup Shipped \subseteq Files
  /\ Factory \in Trees
  /\ Factory # EmptyTree
  /\ ErrorsOf(Factory) = {}       \* internal/defaults/defaults_test.go:10
  /\ Bodies \subseteq Files \X Contents
  /\ Imports \subseteq Trees

(***************************************************************************)
(* Requests.  Revisions are numbered by their place in the history; base 0  *)
(* is a write without If-Match and n + 1 a revision git does not know.      *)
(***************************************************************************)
Edits(n) ==
  { [op |-> o, file |-> b[1], content |-> b[2], base |-> k] :
      o \in {"create", "update"}, k \in 1..(n + 1),
      b \in {x \in Bodies : x[1] \notin UserFiles} }

Deletes(n) ==
  [op : {"delete"}, file : Files, base : 1..(n + 1)]

UserEdits(n) ==
  { [op |-> "user", file |-> b[1], content |-> b[2], password |-> p, base |-> k] :
      b \in {x \in Bodies : x[1] \in UserFiles}, p \in BOOLEAN, k \in 0..(n + 1) }

ImportRequests(n) ==
  [op : {"import"}, tree : Imports, base : 0..(n + 1)]

Updates(n) == Edits(n) \cup Deletes(n) \cup UserEdits(n) \cup ImportRequests(n)
Reverts(n) == [op : {"revert"}, rev : 1..(n + 1)]
SetupRequest == [op |-> "setup"]

(***************************************************************************)
(* What a request does to the tree it finds at HEAD.                        *)
(***************************************************************************)
\* An import replaces every object, but keeps the Users when it brings none.
ImportTree(t, head) ==
  IF \A u \in UserFiles : t[u] = Absent
    THEN [f \in Files |-> IF f \in UserFiles THEN head[f] ELSE t[f]]
    ELSE t

\* The []Change a handler returns: the files it writes or (Absent) removes.
ChangesOf(r, head) ==
  CASE r.op \in {"create", "update", "user"} -> [f \in {r.file} |-> r.content]
    [] r.op = "delete" -> [f \in {r.file} |-> Absent]
    [] r.op = "import" ->
         LET t == ImportTree(r.tree, head)
         IN  [f \in {g \in Files : head[g] # Absent \/ t[g] # Absent} |-> t[f]]
    [] r.op = "setup" -> [f \in {g \in Files : Factory[g] # Absent} |-> Factory[f]]

Patch(t, changes) ==
  [f \in Files |-> IF f \in DOMAIN changes THEN changes[f] ELSE t[f]]

\* The object must be there to be edited and not there to be created; the
\* System singleton and the shipped objects are protected.
Permitted(r, head) ==
  CASE r.op = "create" -> head[r.file] = Absent /\ r.file \notin Singletons
    [] r.op = "update" -> head[r.file] # Absent
    [] r.op = "delete" -> /\ head[r.file] # Absent
                          /\ r.file \notin Singletons \cup Shipped
    [] r.op = "user"   -> head[r.file] # Absent \/ r.password
    [] r.op = "import" -> TRUE

\* Mutant: the two trees are swapped.
Mutant_NewErrors(before, after) == ErrorsOf(before) \ ErrorsOf(after)

\* A change is judged on the errors it adds, an import on all it has.
NewErrors(before, after) == ErrorsOf(after) \ ErrorsOf(before)
Validates(r, head) ==
  LET after == Patch(head, ChangesOf(r, head))
  IN  IF r.op = "import" THEN ErrorsOf(after) = {} ELSE NewErrors(head, after) = {}

\* No file of the change differs between the revision the client edited and
\* HEAD (git diff base head -- file), and git knows that revision.
Fresh(r, hist) ==
  LET head == hist[Len(hist)]
  IN  \/ r.base \in {0, Len(hist)}
      \/ \A f \in DOMAIN ChangesOf(r, head) :
            r.base \in 1..Len(hist) /\ hist[r.base][f] = head[f]

Accepted(r, hist) ==
  LET head == hist[Len(hist)]
  IN  Permitted(r, head) /\ Validates(r, head) /\ Fresh(r, hist)
=============================================================================
