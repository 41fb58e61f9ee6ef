---------------------------------- MODULE Auth ----------------------------------
(***************************************************************************)
(* Logins, lockout and sessions (internal/auth/auth.go), with the handlers  *)
(* that change the Users and the System settings Auth reads from HEAD: those *)
(* of one object, imports and reverts.                                      *)
(*                                                                         *)
(* A login reads the configuration, looks at the failure counter of its     *)
(* source address under the mutex, compares passwords for a long time       *)
(* without it, and takes it again to count.  A writing handler checks the   *)
(* session first and commits later.  A point in time is the number of ticks *)
(* left until it comes.                                                     *)
(***************************************************************************)
EXTENDS Naturals, Sequences, FiniteSets

CONSTANTS Attempts,     \* concurrent login requests
          Writers,      \* concurrent writing requests
          Sources,      \* client addresses
          Names,        \* names of Users
          Passwords,
          LoginPolicies,  \* System.admin settings: threshold, lockout, timeout
          DefaultPolicy,  \* that of a System without settings
          FirstPolicy, FirstUsers,
          Absent,       \* no such User
          MaxSessions,  \* bound on the tokens clients hold
          MaxConfigs    \* bound on the history

Roles == {"admin", "read-only"}
User == [role : Roles, password : Passwords]
UserSets == [Names -> User \cup {Absent}]

AuthAssumption ==
  /\ Absent \notin User \cup Roles
  /\ LoginPolicies \subseteq [threshold : Nat \ {0}, lockout : Nat \ {0}, timeout : Nat \ {0}]
  /\ \A field \in {"threshold", "lockout", "timeout"} :   \* the schema, and 64 bits, bound it
       \E p \in LoginPolicies : \A q \in LoginPolicies : q[field] <= p[field]
  /\ FirstPolicy \in LoginPolicies /\ DefaultPolicy \in LoginPolicies
  /\ FirstUsers \in UserSets
  /\ MaxSessions \in Nat
  /\ MaxConfigs \in Nat \ {0}
  /\ IsFiniteSet(Writers) /\ Writers # {}

VARIABLES configs,         \* the history: Users, settings and author of each; the last is HEAD
          fails,           \* Auth.fails, by source
          login,           \* attempt -> what it is at
          sessions,        \* the tokens clients hold
          write,           \* handler -> what it is at
          missed,          \* ghost: failed comparisons since the last success or lockout
          promised,        \* ghost: ticks left of the lockout that was announced
          overlapped       \* ghost: sources with two comparisons at a time so far

Configs == 1..Len(configs)
users == configs[Len(configs)].users
policy == configs[Len(configs)].policy

counters == <<fails, missed, promised>>
authVars == <<configs, counters, login, sessions, write, overlapped>>

Longest(field) == CHOOSE n \in {p[field] : p \in LoginPolicies} : \A p \in LoginPolicies : p[field] <= n

\* until is set once the counter has caused a lockout, and over when left is 0.
NoFailures == [n |-> 0, set |-> FALSE, left |-> 0]
Idle == [step |-> "idle"]
Session == [user : Names, role : Roles, left : 0..Longest("timeout"),
            unused : 0..Longest("timeout"), timeout : 0..Longest("timeout")]

AuthTypeOK ==
  /\ configs \in Seq([users : UserSets, policy : LoginPolicies, by : Names \cup {Absent}])
  /\ Len(configs) \in 1..MaxConfigs
  /\ fails \in [Sources -> [n : 0..Longest("threshold"), set : BOOLEAN, left : 0..Longest("lockout")]]
  /\ login \in [Attempts -> {Idle} \cup
       [step : {"compare"}, user : Names, password : Passwords, source : Sources,
        users : UserSets, policy : LoginPolicies]]
  /\ sessions \subseteq Session
  /\ write \in [Writers -> {Idle} \cup [step : {"save"}, user : Names]]
  /\ missed \in [Sources -> 0..Longest("threshold")]
  /\ promised \in [Sources -> 0..Longest("lockout")]
  /\ overlapped \subseteq Sources

AuthInit ==
  /\ configs = <<[users |-> FirstUsers, policy |-> FirstPolicy, by |-> Absent]>>
  /\ fails = [s \in Sources |-> NoFailures]
  /\ login = [a \in Attempts |-> Idle]
  /\ sessions = {}
  /\ write = [h \in Writers |-> Idle]
  /\ missed = [s \in Sources |-> 0]
  /\ promised = [s \in Sources |-> 0]
  /\ overlapped = {}

-----------------------------------------------------------------------------
(* Login *)

Locked(s) == fails[s].left > 0

Comparing(s) == {a \in Attempts : login[a] # Idle /\ login[a].source = s}

NoUsers == [n \in Names |-> Absent]

\* authPolicy: HEAD's Users and settings, or none and the defaults when HEAD
\* cannot be read.
Conf == {[users |-> users, policy |-> policy], [users |-> NoUsers, policy |-> DefaultPolicy]}

\* The configuration is read and the counter looked at; while it is locked the
\* answer is 429 and nothing changes.
BeginLogin(a) ==
  /\ login[a] = Idle
  /\ \E n \in Names, p \in Passwords, s \in Sources, conf \in Conf :
       /\ ~Locked(s)
       /\ login' = [login EXCEPT ![a] =
                      [step |-> "compare", user |-> n, password |-> p, source |-> s,
                       users |-> conf.users, policy |-> conf.policy]]
       /\ overlapped' = IF Comparing(s) # {} THEN overlapped \cup {s} ELSE overlapped
  /\ UNCHANGED <<configs, counters, sessions, write>>

Matching(a) ==
  LET u == login[a].users[login[a].user]
  IN  u # Absent /\ u.password = login[a].password

\* Mutant: the counter that was read before the comparison is used: the failures
\* counted since are forgotten.
Mutant_Counter(f) == [n |-> 0, set |-> FALSE, left |-> 0]

\* The counter a failure is added to: a new one if there was a lockout.
Counter(f) == IF f.set THEN NoFailures ELSE f

Reached(n, p) == n >= p.threshold

LoginFails(a) ==
  /\ login[a] # Idle /\ ~Matching(a)
  /\ LET s == login[a].source
         p == login[a].policy
         f == Counter(fails[s])
     IN  IF Reached(f.n + 1, p)
           THEN /\ fails' = [fails EXCEPT ![s] = [n |-> 0, set |-> TRUE, left |-> p.lockout]]
                /\ missed' = [missed EXCEPT ![s] = 0]
                /\ promised' = [promised EXCEPT ![s] = p.lockout]
           ELSE /\ fails' = [fails EXCEPT ![s] = [f EXCEPT !.n = @ + 1]]
                /\ missed' = [missed EXCEPT ![s] = @ + 1]
                /\ UNCHANGED promised
  /\ login' = [login EXCEPT ![a] = Idle]
  /\ UNCHANGED <<configs, sessions, write, overlapped>>

\* The counter is deleted, and with it a lockout that began meanwhile.
LoginSucceeds(a) ==
  /\ login[a] # Idle /\ Matching(a)
  /\ Cardinality(sessions) < MaxSessions
  /\ LET s == login[a].source
         t == login[a].policy.timeout
     IN  /\ fails' = [fails EXCEPT ![s] = NoFailures]
         /\ missed' = [missed EXCEPT ![s] = 0]
         /\ promised' = [promised EXCEPT ![s] = 0]
         /\ sessions' = sessions \cup
              {[user |-> login[a].user, role |-> login[a].users[login[a].user].role,
                left |-> t, unused |-> 0, timeout |-> t]}
  /\ login' = [login EXCEPT ![a] = Idle]
  /\ UNCHANGED <<configs, write, overlapped>>

-----------------------------------------------------------------------------
(* Requests of a session *)

\* Mutant: the Role written in the token is believed.
Mutant_RoleOf(s) == IF users[s.user] = Absent THEN Absent ELSE s.role

\* Verify: the Role HEAD gives to the User, Absent when there is no such User.
RoleOf(s) == IF users[s.user] = Absent THEN Absent ELSE users[s.user].role

Used(s) == (sessions \ {s}) \cup {[s EXCEPT !.unused = 0]}

\* authed: a request that only reads.
Read ==
  /\ \E s \in sessions : RoleOf(s) # Absent /\ sessions' = Used(s)
  /\ UNCHANGED <<configs, counters, login, write, overlapped>>

\* writer: the request may go on; it has not written yet.
BeginWrite(h) ==
  /\ write[h] = Idle
  /\ \E s \in sessions :
       /\ RoleOf(s) = "admin"
       /\ sessions' = Used(s)
       /\ write' = [write EXCEPT ![h] = [step |-> "save", user |-> s.user]]
  /\ UNCHANGED <<configs, counters, login, overlapped>>

HasAdmin(us) == \E n \in Names : us[n] # Absent /\ us[n].role = "admin"

\* v.users and newErrors: an edit may not take the last admin away.
NoNewErrors(us) == HasAdmin(us) \/ ~HasAdmin(users)

\* Store.Update and Store.Revert, one step under the lock of the Config Manager:
\* the new HEAD names the User the request was let in for.
Land(h, us, p) ==
  /\ write[h] # Idle
  /\ Len(configs) < MaxConfigs
  /\ configs' = Append(configs, [users |-> us, policy |-> p, by |-> write[h].user])
  /\ write' = [write EXCEPT ![h] = Idle]
  /\ UNCHANGED <<counters, login, sessions, overlapped>>

\* putUser and deleteObject: a User is created with a password, changed with or
\* without one, or deleted.
SaveUser(h) ==
  \E n \in Names, u \in User \cup {Absent} :
    LET us == [users EXCEPT ![n] = u]
    IN  us # users /\ NoNewErrors(us) /\ Land(h, us, policy)

\* putObject and deleteObject, of the System or of what Auth does not read.
SaveObject(h) == \E p \in LoginPolicies : Land(h, users, p)

\* importConfig: all of it is replaced, except HEAD's Users if the import has
\* none; no error is forgiven for being there before.
SaveImport(h) ==
  \E us \in UserSets, p \in LoginPolicies :
    LET kept == IF us = NoUsers THEN users ELSE us
    IN  HasAdmin(kept) /\ Land(h, kept, p)

\* revert: an earlier configuration, whatever it is.
SaveRevert(h) == \E k \in Configs : Land(h, configs[k].users, configs[k].policy)

\* A write that is refused, or changes nothing.
Refuse(h) ==
  /\ write[h] # Idle
  /\ write' = [write EXCEPT ![h] = Idle]
  /\ UNCHANGED <<configs, counters, login, sessions, overlapped>>

Change(h) == SaveUser(h) \/ SaveObject(h) \/ SaveImport(h) \/ SaveRevert(h)

\* The browser drops the cookie.
Logout ==
  /\ \E s \in sessions : sessions' = sessions \ {s}
  /\ UNCHANGED <<configs, counters, login, write, overlapped>>

-----------------------------------------------------------------------------
Less(n) == IF n = 0 THEN 0 ELSE n - 1

Running == \/ \E s \in Sources : fails[s].left > 0 \/ promised[s] > 0
           \/ sessions # {}

Unexpired == {s \in sessions : s.left > 0}

\* Time goes by: lockouts come to their end, sessions expire.
Tick ==
  /\ Running
  /\ fails' = [s \in Sources |-> [fails[s] EXCEPT !.left = Less(@)]]
  /\ promised' = [s \in Sources |-> Less(promised[s])]
  /\ sessions' = {[s EXCEPT !.left = @ - 1, !.unused = @ + 1] :
                    s \in Unexpired}
  /\ UNCHANGED <<configs, login, write, missed, overlapped>>

\* A new key and an empty map of counters: no token is good any more.  Requests
\* are cut off; the configuration stays.
Restart ==
  /\ fails' = [s \in Sources |-> NoFailures]
  /\ missed' = [s \in Sources |-> 0]
  /\ promised' = [s \in Sources |-> 0]
  /\ login' = [a \in Attempts |-> Idle]
  /\ write' = [h \in Writers |-> Idle]
  /\ sessions' = {}
  /\ overlapped' = {}
  /\ UNCHANGED configs

Compare(a) == LoginFails(a) \/ LoginSucceeds(a)

AuthNext ==
  \/ \E a \in Attempts : BeginLogin(a) \/ Compare(a)
  \/ \E h \in Writers : BeginWrite(h) \/ Change(h) \/ Refuse(h)
  \/ Read \/ Logout \/ Tick \/ Restart

AuthSpec == AuthInit /\ [][AuthNext]_authVars

\* Time goes on, and what is being computed is answered.
AuthFairSpec ==
  /\ AuthSpec
  /\ WF_authVars(Tick)
  /\ \A a \in Attempts : WF_authVars(Compare(a))

-----------------------------------------------------------------------------
(* Properties *)

\* No failure is lost between concurrent attempts: the counter holds every
\* failed comparison since the last success or lockout (auth.go Login, the second section).
EveryFailureCounted == \A s \in Sources : fails[s].n = missed[s]

\* A client that waits for each answer before it tries again stays locked out
\* for the whole time, and tries less than threshold times before (auth.go Login).
SerialLockoutHolds ==
  \A s \in Sources \ overlapped :
    promised[s] = fails[s].left /\ missed[s] < Longest("threshold")

IsAdmin(k, n) == configs[k].users[n] # Absent /\ configs[k].users[n].role = "admin"

\* What a User changed without the admin Role, since it was lost.
Late(n) ==
  {k \in Configs \ {1} : configs[k].by = n /\ \A j \in k - 1..Len(configs) : ~IsAdmin(j, n)}

\* Whoever loses the admin Role, to an edit, an import or a revert and with a token
\* that still names it, changes no more than was being written at that moment, the
\* change that took the Role left out (auth.go Verify, api.go writer).
DemotionHolds == \A n \in Names : Cardinality(Late(n)) < Cardinality(Writers)

\* What keeps passwords from being guessed (auth.go Login).
LockoutCounts == EveryFailureCounted /\ SerialLockoutHolds

\* A lockout ends, under any load of further attempts (auth.go Login).
LockoutEnds == \A s \in Sources : []<>(fails[s].left = 0)

\* auth.go:95 says of the branch that starts a new counter: "first failure, or
\* lockout expired".  So a lockout that was announced is not over before its time.
LockoutHolds == \A s \in Sources : promised[s] > 0 => fails[s].left > 0

\* auth.go:122 says Verify checks "that the User still exists with the same
\* Role in the current configuration".
SameRole == \A s \in sessions : RoleOf(s) # Absent => RoleOf(s) = s.role

\* system.schema.json:49 calls sessionTimeout the "Idle timeout of a UI session".
EndsByIdleness == \A s \in sessions : s.left = 0 => s.unused = s.timeout
=============================================================================
