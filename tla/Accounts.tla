-------------------------------- MODULE Accounts --------------------------------
(***************************************************************************)
(* The Users of a commit and the trees that requests share (configstore:     *)
(* Read and its cache; api/config.go: config, validate, putUser,             *)
(* deleteObject, importConfig; main.go: authPolicy).  A tree is parsed once  *)
(* for each commit and kept; everyone who reads the commit gets a copy,       *)
(* because readers write into what they read: the page's tree is stripped of  *)
(* its hashes, a dry run puts the object it is asked about into it, and an    *)
(* update the one it is to commit.                                           *)
(*                                                                         *)
(* A copy that is none is what the mutant of Clone returns: a view of the     *)
(* tree in the cache.  A bcrypt hash is the password it is of; the hash is    *)
(* Blank when it was stripped.  Only Users are modelled.                     *)
(***************************************************************************)
EXTENDS Naturals, Sequences

CONSTANTS Users, Secrets,
          Readers,       \* requests for the configuration that overlap
          MaxSaves,      \* bound of the history
          Nobody, Blank

UserRoles == {"admin", "read-only"}
UserSpecs == [role : UserRoles, hash : Secrets]
AdminIn(t) == \E u \in Users : t[u] # Nobody /\ t[u].role = "admin"

AccountsAssumption == MaxSaves \in Nat \ {0} /\ Blank \notin Secrets /\ Nobody # Blank

VARIABLES commits,    \* Users -> Nobody or UserSpecs, each
          cache,      \* for each commit: Nobody, or the tree kept for it
          page,       \* what each reader holds: Nobody or [rev, tree]
          asked       \* the last request to change a User or to log in, its answer

accountsVars == <<commits, cache, page, asked>>

Revs == 1..Len(commits)
HEAD == Len(commits)

-----------------------------------------------------------------------------
(* Read *)

Kept(k) == IF cache[k] # Nobody THEN cache[k] ELSE commits[k]

\* Mutant: what is returned is the tree that is kept.
Mutant_Clone(k) == [of |-> k, own |-> Kept(k)]

\* A tree of one's own, with what the kept one has.
Clone(k) == [of |-> 0, own |-> Kept(k)]

\* What a tree holds, and the cache after t was written into it.
Content(x) == IF x.of = 0 THEN x.own ELSE Kept(x.of)
Written(x, t, kept) == IF x.of = 0 THEN kept ELSE [kept EXCEPT ![x.of] = t]

\* The cache after a Read.
Loaded(k) == [cache EXCEPT ![k] = Kept(k)]

-----------------------------------------------------------------------------
(* config: the tree is read, stripped and sent. *)

Redacted(t) == [u \in Users |-> IF t[u] = Nobody THEN Nobody ELSE [t[u] EXCEPT !.hash = Blank]]

GetConfig(r) ==
  /\ page[r] = Nobody
  /\ page' = [page EXCEPT ![r] = [rev |-> HEAD, tree |-> Clone(HEAD), stripped |-> FALSE]]
  /\ cache' = Loaded(HEAD)
  /\ UNCHANGED <<commits, asked>>

Strip(r) ==
  /\ page[r] # Nobody /\ ~page[r].stripped
  /\ LET x == page[r].tree
         t == Redacted(Content(x))
     IN
     /\ page' = [page EXCEPT ![r].tree.own = t, ![r].stripped = TRUE]
     /\ cache' = Written(x, t, cache)
  /\ UNCHANGED <<commits, asked>>

Send(r) ==
  /\ page[r] # Nobody /\ page[r].stripped
  /\ page' = [page EXCEPT ![r] = Nobody]
  /\ UNCHANGED <<commits, cache, asked>>

-----------------------------------------------------------------------------
(* Updates run under the lock of the store, on what they read of HEAD.  x is   *)
(* that tree, t what it was made, u and pw the User and the password they are  *)
(* about.                                                                     *)

\* admin-required (R-043.9).
Accepted(t) == AdminIn(t)

Update(x, t, request) ==
  LET saved == Accepted(t) /\ t # commits[HEAD] IN
  /\ HEAD < MaxSaves
  /\ commits' = IF saved THEN Append(commits, t) ELSE commits
  /\ LET kept == Written(x, t, Loaded(HEAD)) IN
     cache' = IF saved THEN Append(kept, Nobody) ELSE kept
  /\ asked' = [request EXCEPT !.ok = Accepted(t)]
  /\ UNCHANGED page

Request(op, u, pw) == [op |-> op, user |-> u, pw |-> pw, ok |-> FALSE]

\* putUser: pw is Blank when the request has no password; a new User needs one.
PutUser(u, role, pw) ==
  LET x == Clone(HEAD)
      old == Content(x)[u]
      hash == IF pw = Blank THEN old.hash ELSE pw
  IN  /\ old = Nobody => pw # Blank
      /\ Update(x, [Content(x) EXCEPT ![u] = [role |-> role, hash |-> hash]], Request("put", u, pw))

DeleteUser(u) ==
  LET x == Clone(HEAD) IN
  /\ Content(x)[u] # Nobody
  /\ Update(x, [Content(x) EXCEPT ![u] = Nobody], Request("delete", u, Blank))

\* importConfig: HEAD's Users stay when the import has none.
Imported(users, head) == IF \A u \in Users : users[u] = Nobody THEN head ELSE users

Import(users) ==
  LET x == Clone(HEAD) IN
  Update([x EXCEPT !.of = 0], Imported(users, Content(x)), Request("import", Nobody, Blank))

\* Revert reads nothing and checks nothing.
Revert(k) ==
  /\ HEAD < MaxSaves /\ k < HEAD
  /\ commits' = IF commits[k] = commits[HEAD] THEN commits ELSE Append(commits, commits[k])
  /\ cache' = IF commits[k] = commits[HEAD] THEN cache ELSE Append(cache, Nobody)
  /\ asked' = Request("revert", Nobody, Blank)
  /\ UNCHANGED page

\* validate: the dry run of the forms, for any kind; the tree is dropped.
DryRun(u, s) ==
  LET x == Clone(HEAD) IN
  /\ cache' = Written(x, [Content(x) EXCEPT ![u] = s], Loaded(HEAD))
  /\ UNCHANGED <<commits, page, asked>>

\* authPolicy and Login: the password is compared with the hash of HEAD.
Login(u, pw) ==
  LET t == Content(Clone(HEAD)) IN
  /\ cache' = Loaded(HEAD)
  /\ asked' = [Request("login", u, pw) EXCEPT !.ok = t[u] # Nobody /\ t[u].hash = pw]
  /\ UNCHANGED <<commits, page>>

AccountsInit ==
  /\ \E t \in [Users -> UserSpecs \cup {Nobody}] : AdminIn(t) /\ commits = <<t>>
  /\ cache = <<Nobody>>
  /\ page = [r \in Readers |-> Nobody]
  /\ asked = Request("none", Nobody, Blank)

AccountsNext ==
  \/ \E r \in Readers : GetConfig(r) \/ Strip(r) \/ Send(r)
  \/ \E u \in Users :
       \/ DeleteUser(u)
       \/ \E role \in UserRoles, pw \in Secrets \cup {Blank} : PutUser(u, role, pw)
       \/ \E s \in UserSpecs : DryRun(u, s)
       \/ \E pw \in Secrets : Login(u, pw)
  \/ \E users \in [Users -> UserSpecs \cup {Nobody}] : Import(users)
  \/ \E k \in Revs : Revert(k)

AccountsSpec == AccountsInit /\ [][AccountsNext]_accountsVars

-----------------------------------------------------------------------------
(* Properties *)

MaybeUser == {Nobody} \cup [role : UserRoles, hash : Secrets \cup {Blank}]

AccountsTypeOK ==
  /\ commits \in Seq([Users -> UserSpecs \cup {Nobody}]) /\ Len(commits) \in 1..MaxSaves
  /\ Len(cache) = HEAD
  /\ \A k \in Revs : cache[k] = Nobody \/ cache[k] \in [Users -> MaybeUser]
  /\ page \in [Readers -> {Nobody} \cup
                [rev : Revs, stripped : BOOLEAN,
                 tree : [of : {0}, own : [Users -> MaybeUser]]]]
  /\ asked.user \in Users \cup {Nobody} /\ asked.pw \in Secrets \cup {Blank}

\* Whatever is edited, imported and reverted, and whoever reads at the same
\* time, HEAD has an administrator who has a password (R-043.9, config.go:455).
AdminStays ==
  \E u \in Users : LET s == commits[HEAD][u] IN
    s # Nobody /\ s.role = "admin" /\ s.hash \in Secrets

\* A login succeeds with the password that HEAD has for the User, and with no
\* other, while pages are served and changes tried out.
LoginByHead ==
  asked.op = "login" =>
    (asked.ok <=> commits[HEAD][asked.user] # Nobody /\ commits[HEAD][asked.user].hash = asked.pw)

\* A page shows the Users of the revision it names, with their Roles, and none
\* of their hashes.
PageIsRevision ==
  \A r \in Readers : page[r] # Nobody /\ page[r].stripped =>
    Content(page[r].tree) = Redacted(commits[page[r].rev])

\* A change that brings no password changes none: neither the User's whose Role
\* it sets, nor that of another.
KeepsPasswords ==
  (asked'.op \in {"put", "delete"} /\ commits' # commits) =>
    \A u \in Users \ {x \in {asked'.user} : asked'.pw # Blank} :
      LET new == commits'[Len(commits')][u] IN
      new # Nobody => commits[HEAD][u] # Nobody /\ new.hash = commits[HEAD][u].hash
PasswordsStay == [][KeepsPasswords]_accountsVars

\* All of these together, of the Users an appliance keeps.
AccountsKept == [](AdminStays /\ LoginByHead /\ PageIsRevision) /\ PasswordsStay
=============================================================================
