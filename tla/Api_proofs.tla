------------------------------- MODULE Api_proofs -------------------------------
(***************************************************************************)
(* Proofs about the services of the API and those who use them: logins,       *)
(* lockout and sessions (Auth) and the passwords in the history (Accounts),    *)
(* for any Users, settings, clients and requests; the Audit Log, for any        *)
(* handlers, commits, entries, failures and restarts; and the tabs that edit    *)
(* the configuration (WebUI), for any tabs, files and contents.                *)
(***************************************************************************)
EXTENDS Auth, Accounts, AuditLog, WebUI, SequenceTheorems, FiniteSetTheorems, TLAPS

-----------------------------------------------------------------------------
(* Auth: the inductive invariant *)

\* A counter that has caused a lockout starts again, and one that has not
\* locks nobody out.
CountersFit ==
  \A s \in Sources :
    /\ fails[s].set => fails[s].n = 0
    /\ ~fails[s].set => fails[s].left = 0

\* A source whose attempts never overlapped has one comparison at a time, begun
\* when nothing was locked.
Serial ==
  \A s \in Sources \ overlapped :
    /\ \A a, b \in Comparing(s) : a = b
    /\ Comparing(s) # {} => fails[s].left = 0
    /\ promised[s] = fails[s].left

\* Below the longest threshold nothing is locked.
BelowThreshold == \A s \in Sources : missed[s] < Longest("threshold")

\* A session was unused for no longer than it lives.
SessionsFit == \A s \in sessions : s.unused + s.left <= s.timeout

\* What a User has under way.
Pending(n) == {h \in Writers : write[h] # Idle /\ write[h].user = n}

\* A User without the admin Role has changed what was under way when it was lost,
\* but for what still is; nothing is added to it.
LateFits ==
  \A n \in Names : ~IsAdmin(Len(configs), n) =>
    Cardinality(Late(n)) + Cardinality(Pending(n)) < Cardinality(Writers)

AuthIInv ==
  /\ AuthTypeOK /\ CountersFit /\ Serial /\ BelowThreshold /\ SessionsFit
  /\ EveryFailureCounted /\ LateFits

-----------------------------------------------------------------------------
(* Types *)

\* The parts of the type invariant.
Compared ==
  [step : {"compare"}, user : Names, password : Passwords, source : Sources,
   users : UserSets, policy : LoginPolicies]

Settings == [users : UserSets, policy : LoginPolicies, by : Names \cup {Absent}]
HeadTypes == configs \in Seq(Settings) /\ Len(configs) \in 1..MaxConfigs
CounterTypes ==
  /\ fails \in [Sources -> [n : 0..Longest("threshold"), set : BOOLEAN, left : 0..Longest("lockout")]]
  /\ missed \in [Sources -> 0..Longest("threshold")]
  /\ promised \in [Sources -> 0..Longest("lockout")]
LoginTypes == login \in [Attempts -> {Idle} \cup Compared] /\ overlapped \subseteq Sources
WriteTypes == write \in [Writers -> {Idle} \cup [step : {"save"}, user : Names]]

\* The type invariant, part by part.
LEMMA TypeParts ==
  AuthTypeOK <=> HeadTypes /\ CounterTypes /\ LoginTypes /\ WriteTypes /\ sessions \subseteq Session
BY DEF AuthTypeOK, HeadTypes, Settings, CounterTypes, LoginTypes, WriteTypes, Compared

\* What Auth reads of HEAD, and of every commit.
LEMMA ConfigTypes ==
  ASSUME AuthAssumption, HeadTypes
  PROVE  /\ users \in UserSets /\ policy \in LoginPolicies
         /\ \A k \in Configs : configs[k] \in Settings
         /\ \A conf \in Conf : conf.users \in UserSets /\ conf.policy \in LoginPolicies
<1>1. \A k \in Configs : configs[k] \in Settings
  BY DEF HeadTypes, Configs
<1>2. Len(configs) \in Configs
  BY DEF HeadTypes, Configs
<1>3. users \in UserSets /\ policy \in LoginPolicies
  BY <1>1, <1>2 DEF Settings, users, policy
<1>4. NoUsers \in UserSets /\ DefaultPolicy \in LoginPolicies
  BY DEF NoUsers, UserSets, AuthAssumption
<1> QED BY <1>1, <1>3, <1>4 DEF Conf

\* Whatever a request changes, it appends a configuration in its User's name.
LEMMA ChangeLands ==
  ASSUME AuthAssumption, HeadTypes, NEW h \in Writers, Change(h)
  PROVE  \E us \in UserSets, p \in LoginPolicies : Land(h, us, p)
<1>1. users \in UserSets /\ policy \in LoginPolicies /\ \A k \in Configs : configs[k] \in Settings
  BY ConfigTypes
<1>2. CASE SaveUser(h)
  <2>1. PICK n \in Names, u \in User \cup {Absent} : Land(h, [users EXCEPT ![n] = u], policy)
    BY <1>2 DEF SaveUser
  <2>2. [users EXCEPT ![n] = u] \in UserSets
    BY <1>1 DEF UserSets
  <2> QED BY <1>1, <2>1, <2>2
<1>3. CASE SaveObject(h)
  BY <1>1, <1>3 DEF SaveObject
<1>4. CASE SaveImport(h)
  <2>1. PICK us \in UserSets, p \in LoginPolicies : Land(h, IF us = NoUsers THEN users ELSE us, p)
    BY <1>4 DEF SaveImport
  <2> QED BY <1>1, <2>1
<1>5. CASE SaveRevert(h)
  <2>1. PICK k \in Configs : Land(h, configs[k].users, configs[k].policy)
    BY <1>5 DEF SaveRevert
  <2> QED BY <1>1, <2>1 DEF Settings
<1> QED BY <1>2, <1>3, <1>4, <1>5 DEF Change

\* The longest setting is one, and none is longer.
LEMMA LongestType ==
  ASSUME AuthAssumption, NEW field \in {"threshold", "lockout", "timeout"}
  PROVE  /\ Longest(field) \in Nat \ {0}
         /\ \A p \in LoginPolicies : p[field] \in Nat \ {0} /\ p[field] <= Longest(field)
<1>1. \A p \in LoginPolicies : p[field] \in Nat \ {0}
  BY DEF AuthAssumption
<1>2. \E n \in {p[field] : p \in LoginPolicies} : \A p \in LoginPolicies : p[field] <= n
  BY DEF AuthAssumption
<1>3. Longest(field) \in {p[field] : p \in LoginPolicies} /\ \A p \in LoginPolicies : p[field] <= Longest(field)
  BY <1>2 DEF Longest
<1> QED BY <1>1, <1>3

\* What is computed for a login is not idle.
LEMMA LoginNotIdle == \A l \in Compared : l # Idle
<1>1. \A l \in Compared : l.step = "compare"
  BY DEF Compared
<1>2. Idle.step = "idle"
  BY DEF Idle
<1> QED BY <1>1, <1>2

\* An attempt under way holds what it read before the comparison.
LEMMA LoginUnderWay ==
  ASSUME LoginTypes, NEW a \in Attempts, login[a] # Idle
  PROVE  /\ login[a] \in Compared /\ login[a].source \in Sources /\ login[a].policy \in LoginPolicies
         /\ login[a].user \in Names /\ login[a].users \in UserSets
<1>1. login[a] \in Compared
  BY DEF LoginTypes
<1> QED BY <1>1 DEF Compared

\* A configuration is appended to the history, or none.
LEMMA HeadStep ==
  ASSUME AuthAssumption, HeadTypes, WriteTypes, [AuthNext]_authVars
  PROVE  HeadTypes'
<1>1. ASSUME NEW h \in Writers, Change(h) PROVE HeadTypes'
  <2>1. PICK us \in UserSets, p \in LoginPolicies : Land(h, us, p)
    BY <1>1, ChangeLands
  <2>2. write[h].user \in Names
    BY <2>1 DEF Land, WriteTypes
  <2> DEFINE c == [users |-> us, policy |-> p, by |-> write[h].user]
  <2>3. c \in Settings
    BY <2>2 DEF Settings
  <2>4. configs' = Append(configs, c) /\ Len(configs) < MaxConfigs
    BY <2>1 DEF Land
  <2> HIDE DEF c
  <2>5. configs \in Seq(Settings) /\ Len(configs) \in Nat /\ MaxConfigs \in Nat
    BY DEF HeadTypes, AuthAssumption
  <2>6. configs' \in Seq(Settings) /\ Len(configs') = Len(configs) + 1
    BY <2>3, <2>4, <2>5, AppendProperties
  <2> QED BY <2>4, <2>5, <2>6 DEF HeadTypes
<1>2. CASE \/ \E a \in Attempts : BeginLogin(a) \/ Compare(a)
           \/ \E h \in Writers : BeginWrite(h) \/ Refuse(h)
           \/ Read \/ Logout \/ Tick \/ Restart \/ UNCHANGED authVars
  <2>1. UNCHANGED configs
    BY <1>2 DEF BeginLogin, Compare, LoginFails, LoginSucceeds, BeginWrite, Refuse, Read, Logout, Tick,
                Restart, authVars
  <2> QED BY <2>1 DEF HeadTypes
<1> QED BY <1>1, <1>2 DEF AuthNext

\* Logins are idle or begun as logins are.
LEMMA LoginStep ==
  ASSUME AuthAssumption, HeadTypes, LoginTypes, [AuthNext]_authVars
  PROVE  LoginTypes'
<1> USE DEF LoginTypes
<1>1. ASSUME NEW a \in Attempts, BeginLogin(a) PROVE LoginTypes'
  <2>1. PICK n \in Names, p \in Passwords, s \in Sources, conf \in Conf :
          /\ login' = [login EXCEPT ![a] = [step |-> "compare", user |-> n, password |-> p,
                                            source |-> s, users |-> conf.users, policy |-> conf.policy]]
          /\ overlapped' = IF Comparing(s) # {} THEN overlapped \cup {s} ELSE overlapped
    BY <1>1 DEF BeginLogin
  <2>2. [step |-> "compare", user |-> n, password |-> p, source |-> s, users |-> conf.users, policy |-> conf.policy] \in Compared
    BY ConfigTypes DEF Compared
  <2> QED BY <2>1, <2>2
<1>2. ASSUME NEW a \in Attempts, Compare(a) PROVE LoginTypes'
  BY <1>2 DEF Compare, LoginFails, LoginSucceeds
<1>3. CASE Restart
  BY <1>3 DEF Restart
<1>4. CASE \/ \E h \in Writers : BeginWrite(h) \/ Refuse(h) \/ Change(h)
           \/ Read \/ Logout \/ Tick
  BY <1>4, ChangeLands DEF BeginWrite, Refuse, Land, Read, Logout, Tick
<1>5. CASE UNCHANGED authVars
  BY <1>5 DEF authVars
<1> QED BY <1>1, <1>2, <1>3, <1>4, <1>5 DEF AuthNext

-----------------------------------------------------------------------------
(* The failure counters *)

\* What a step does to the counters of the sources.
Fails(s, p) ==
  LET f == Counter(fails[s])
  IN  IF Reached(f.n + 1, p)
        THEN /\ fails' = [fails EXCEPT ![s] = [n |-> 0, set |-> TRUE, left |-> p.lockout]]
             /\ missed' = [missed EXCEPT ![s] = 0]
             /\ promised' = [promised EXCEPT ![s] = p.lockout]
        ELSE /\ fails' = [fails EXCEPT ![s] = [f EXCEPT !.n = @ + 1]]
             /\ missed' = [missed EXCEPT ![s] = @ + 1]
             /\ UNCHANGED promised
Forgets(s) ==
  /\ fails' = [fails EXCEPT ![s] = NoFailures]
  /\ missed' = [missed EXCEPT ![s] = 0]
  /\ promised' = [promised EXCEPT ![s] = 0]

\* After a failure: the counter of its source is one higher, or locks.
LEMMA FailsEffect ==
  ASSUME AuthAssumption, CounterTypes, CountersFit, BelowThreshold, EveryFailureCounted,
         NEW s \in Sources, NEW p \in LoginPolicies, Fails(s, p)
  PROVE  /\ CounterTypes' /\ CountersFit' /\ BelowThreshold' /\ EveryFailureCounted'
         /\ \A r \in Sources \ {s} : fails'[r] = fails[r] /\ promised'[r] = promised[r]
         /\ fails[s].left = 0 /\ promised[s] = 0 => promised'[s] = fails'[s].left
<1> DEFINE f == Counter(fails[s])
           T == Longest("threshold")
           L == Longest("lockout")
<1>1. T \in Nat \ {0} /\ L \in Nat \ {0} /\ p.threshold \in Nat \ {0} /\ p.threshold <= T
      /\ p.lockout \in Nat \ {0} /\ p.lockout <= L
  BY LongestType
<1>2. fails[s] \in [n : 0..T, set : BOOLEAN, left : 0..L]
  BY DEF CounterTypes
<1>3. f \in [n : 0..T, set : BOOLEAN, left : 0..L] /\ f.set = FALSE /\ f.left = 0 /\ f.n = fails[s].n
  BY <1>1, <1>2 DEF Counter, NoFailures, CountersFit
<1>4. fails[s].n = missed[s] /\ missed[s] \in 0..T
  BY DEF EveryFailureCounted, CounterTypes
<1>5. CASE Reached(f.n + 1, p)
  <2>1. /\ fails' = [fails EXCEPT ![s] = [n |-> 0, set |-> TRUE, left |-> p.lockout]]
        /\ missed' = [missed EXCEPT ![s] = 0] /\ promised' = [promised EXCEPT ![s] = p.lockout]
    BY <1>5 DEF Fails
  <2>2. [n |-> 0, set |-> TRUE, left |-> p.lockout] \in [n : 0..T, set : BOOLEAN, left : 0..L]
    BY <1>1
  <2>3. CounterTypes'
    BY <1>1, <2>1, <2>2 DEF CounterTypes
  <2> QED BY <1>1, <2>1, <2>3 DEF CounterTypes, CountersFit, BelowThreshold, EveryFailureCounted
<1>6. CASE ~Reached(f.n + 1, p)
  <2>1. /\ fails' = [fails EXCEPT ![s] = [f EXCEPT !.n = @ + 1]]
        /\ missed' = [missed EXCEPT ![s] = @ + 1] /\ promised' = promised
    BY <1>6 DEF Fails
  <2>2. f.n + 1 < p.threshold /\ f.n + 1 < T
    BY <1>1, <1>3, <1>6 DEF Reached
  <2>3. [f EXCEPT !.n = @ + 1] \in [n : 0..T, set : BOOLEAN, left : 0..L]
    BY <1>1, <1>3, <2>2
  <2>4. [f EXCEPT !.n = @ + 1].n = f.n + 1 /\ [f EXCEPT !.n = @ + 1].left = 0 /\ [f EXCEPT !.n = @ + 1].set = FALSE
    BY <1>3
  <2>5. fails'[s].n = f.n + 1 /\ fails'[s].left = 0 /\ fails'[s].set = FALSE /\ missed'[s] = f.n + 1
    BY <1>3, <1>4, <2>1, <2>4 DEF CounterTypes
  <2>6. \A r \in Sources \ {s} : fails'[r] = fails[r] /\ missed'[r] = missed[r]
    BY <2>1 DEF CounterTypes
  <2>7. CounterTypes'
    <3>1. missed[s] + 1 \in 0..T
      BY <1>1, <1>3, <1>4, <2>2
    <3> QED BY <2>1, <2>3, <3>1 DEF CounterTypes
  <2>8. CountersFit' /\ BelowThreshold' /\ EveryFailureCounted'
    BY <1>1, <2>2, <2>5, <2>6 DEF CountersFit, BelowThreshold, EveryFailureCounted
  <2> QED BY <2>1, <2>5, <2>6, <2>7, <2>8
<1> QED BY <1>5, <1>6

\* A success starts the counter of its source again.
LEMMA ForgetsEffect ==
  ASSUME AuthAssumption, CounterTypes, CountersFit, BelowThreshold, EveryFailureCounted,
         NEW s \in Sources, Forgets(s)
  PROVE  /\ CounterTypes' /\ CountersFit' /\ BelowThreshold' /\ EveryFailureCounted'
         /\ \A r \in Sources \ {s} : fails'[r] = fails[r] /\ promised'[r] = promised[r]
         /\ promised'[s] = fails'[s].left
<1>1. Longest("threshold") \in Nat \ {0} /\ Longest("lockout") \in Nat \ {0}
  BY LongestType
<1>2. NoFailures \in [n : 0..Longest("threshold"), set : BOOLEAN, left : 0..Longest("lockout")]
  BY <1>1 DEF NoFailures
<1>3. NoFailures.n = 0 /\ NoFailures.set = FALSE /\ NoFailures.left = 0
  BY DEF NoFailures
<1>4. CounterTypes'
  BY <1>1, <1>2 DEF CounterTypes, Forgets
<1> QED BY <1>1, <1>3, <1>4 DEF Forgets, CounterTypes, CountersFit, BelowThreshold, EveryFailureCounted

\* What a login that is compared does to the counters.
LEMMA CompareCounts ==
  ASSUME NEW a \in Attempts, Compare(a)
  PROVE  /\ login[a] # Idle /\ login' = [login EXCEPT ![a] = Idle]
         /\ Fails(login[a].source, login[a].policy) \/ Forgets(login[a].source)
         /\ UNCHANGED <<overlapped, configs, write>>
BY DEF Compare, LoginFails, LoginSucceeds, Fails, Forgets

\* The counters after time went by, and after a restart.
LEMMA TickCounts ==
  ASSUME AuthAssumption, CounterTypes, CountersFit, BelowThreshold, EveryFailureCounted, Tick
  PROVE  /\ CounterTypes' /\ CountersFit' /\ BelowThreshold' /\ EveryFailureCounted'
         /\ \A s \in Sources : fails'[s].left = Less(fails[s].left) /\ promised'[s] = Less(promised[s])
<1>1. Longest("threshold") \in Nat \ {0} /\ Longest("lockout") \in Nat \ {0}
  BY LongestType
<1>2. /\ fails' = [s \in Sources |-> [fails[s] EXCEPT !.left = Less(@)]]
      /\ promised' = [s \in Sources |-> Less(promised[s])] /\ missed' = missed
  BY DEF Tick
<1>3. \A n \in 0..Longest("lockout") : Less(n) \in 0..Longest("lockout")
  BY <1>1 DEF Less
<1>4. \A f \in [n : 0..Longest("threshold"), set : BOOLEAN, left : 0..Longest("lockout")] :
        /\ [f EXCEPT !.left = Less(@)] \in [n : 0..Longest("threshold"), set : BOOLEAN, left : 0..Longest("lockout")]
        /\ [f EXCEPT !.left = Less(@)].n = f.n /\ [f EXCEPT !.left = Less(@)].set = f.set
        /\ [f EXCEPT !.left = Less(@)].left = Less(f.left)
  BY <1>3
<1>5. \A s \in Sources :
        /\ fails'[s] = [fails[s] EXCEPT !.left = Less(@)]
        /\ fails'[s].n = fails[s].n /\ fails'[s].set = fails[s].set
        /\ fails'[s].left = Less(fails[s].left) /\ promised'[s] = Less(promised[s])
  BY <1>2, <1>4 DEF CounterTypes
<1>6. CounterTypes'
  BY <1>2, <1>3, <1>4 DEF CounterTypes
<1> QED BY <1>2, <1>5, <1>6 DEF CountersFit, BelowThreshold, EveryFailureCounted, Less

\* A restart forgets the failures and whatever was promised with them.
LEMMA RestartCounts ==
  ASSUME AuthAssumption, Restart
  PROVE  /\ CounterTypes' /\ CountersFit' /\ BelowThreshold' /\ EveryFailureCounted'
         /\ \A s \in Sources : fails'[s].left = 0 /\ promised'[s] = 0
<1>1. Longest("threshold") \in Nat \ {0} /\ Longest("lockout") \in Nat \ {0}
  BY LongestType
<1>2. NoFailures \in [n : 0..Longest("threshold"), set : BOOLEAN, left : 0..Longest("lockout")]
  BY <1>1 DEF NoFailures
<1>3. NoFailures.n = 0 /\ NoFailures.set = FALSE /\ NoFailures.left = 0
  BY DEF NoFailures
<1>4. CounterTypes'
  BY <1>1, <1>2 DEF CounterTypes, Restart
<1> QED BY <1>1, <1>3, <1>4 DEF Restart, CountersFit, BelowThreshold, EveryFailureCounted

\* The counters hold every failure, whoever else compares meanwhile.
LEMMA CountersStep ==
  ASSUME AuthAssumption, HeadTypes, CounterTypes, LoginTypes, CountersFit, BelowThreshold, EveryFailureCounted,
         [AuthNext]_authVars
  PROVE  CounterTypes' /\ CountersFit' /\ BelowThreshold' /\ EveryFailureCounted'
<1> USE DEF counters
<1>1. ASSUME NEW a \in Attempts, Compare(a)
      PROVE  CounterTypes' /\ CountersFit' /\ BelowThreshold' /\ EveryFailureCounted'
  BY <1>1, CompareCounts, LoginUnderWay, FailsEffect, ForgetsEffect
<1>2. CASE Tick
  BY <1>2, TickCounts
<1>3. CASE Restart
  BY <1>3, RestartCounts
<1>4. CASE \/ \E a \in Attempts : BeginLogin(a)
           \/ \E h \in Writers : BeginWrite(h) \/ Refuse(h) \/ Change(h)
           \/ Read \/ Logout \/ UNCHANGED authVars
  <2>1. UNCHANGED counters
    BY <1>4, ChangeLands DEF BeginLogin, BeginWrite, Refuse, Land, Read, Logout, authVars
  <2> QED BY <2>1 DEF CounterTypes, CountersFit, BelowThreshold, EveryFailureCounted
<1> QED BY <1>1, <1>2, <1>3, <1>4 DEF AuthNext

-----------------------------------------------------------------------------
(* The lockout of a client that waits for its answers *)

\* A comparison that is over leaves the source without it.
LEMMA ComparingLess ==
  ASSUME LoginTypes, NEW a \in Attempts, login' = [login EXCEPT ![a] = Idle], NEW s
  PROVE  Comparing(s)' = Comparing(s) \ {a}
BY DEF Comparing, LoginTypes

\* Sources whose attempts never overlapped stay serial.
LEMMA SerialStep ==
  ASSUME AuthAssumption, HeadTypes, CounterTypes, LoginTypes, CountersFit, BelowThreshold,
         EveryFailureCounted, Serial, [AuthNext]_authVars
  PROVE  Serial'
<1> DEFINE Alone(s) ==
      /\ \A a, b \in Comparing(s) : a = b
      /\ Comparing(s) # {} => fails[s].left = 0
      /\ promised[s] = fails[s].left
<1>1. \A s \in Sources \ overlapped : Alone(s)
  BY DEF Serial
<1> SUFFICES ASSUME NEW s \in Sources \ overlapped' PROVE Alone(s)'
  BY DEF Serial
<1>2. fails[s].left \in Nat
  BY LongestType DEF CounterTypes
<1>3. ASSUME UNCHANGED <<counters, login, overlapped>> PROVE Alone(s)'
  BY <1>1, <1>3 DEF counters, Comparing
<1>4. ASSUME NEW a \in Attempts, BeginLogin(a) PROVE Alone(s)'
  <2>1. PICK n \in Names, p \in Passwords, r \in Sources, conf \in Conf :
          /\ ~Locked(r)
          /\ login' = [login EXCEPT ![a] = [step |-> "compare", user |-> n, password |-> p,
                                            source |-> r, users |-> conf.users, policy |-> conf.policy]]
          /\ overlapped' = IF Comparing(r) # {} THEN overlapped \cup {r} ELSE overlapped
    BY <1>4 DEF BeginLogin
  <2> DEFINE new == [step |-> "compare", user |-> n, password |-> p,
                     source |-> r, users |-> conf.users, policy |-> conf.policy]
  <2>2. new \in Compared /\ new.source = r
    BY ConfigTypes DEF Compared
  <2>3. new # Idle /\ login[a] = Idle /\ UNCHANGED counters
    BY <1>4, <2>2, LoginNotIdle DEF BeginLogin
  <2>4. s \notin overlapped /\ Alone(s)
    BY <1>1, <2>1
  <2>5. CASE s = r
    <3>1. Comparing(s) = {}
      BY <2>1, <2>5
    <3>2. Comparing(s)' \subseteq {a}
      <4> HIDE DEF new
      <4> QED BY <2>1, <3>1 DEF Comparing, LoginTypes
    <3>3. fails[s].left = 0
      BY <1>2, <2>1, <2>5 DEF Locked
    <3> QED BY <2>3, <2>4, <3>2, <3>3 DEF counters
  <2>6. CASE s # r
    <3>1. Comparing(s)' = Comparing(s)
      <4> HIDE DEF new
      <4> QED BY <2>1, <2>2, <2>3, <2>6 DEF Comparing, LoginTypes
    <3> QED BY <2>3, <2>4, <3>1 DEF counters
  <2> QED BY <2>5, <2>6
<1>5. ASSUME NEW a \in Attempts, Compare(a) PROVE Alone(s)'
  <2> DEFINE r == login[a].source
  <2>1. /\ login[a] # Idle /\ r \in Sources /\ Comparing(s)' = Comparing(s) \ {a}
        /\ Fails(r, login[a].policy) \/ Forgets(r)
        /\ login[a].policy \in LoginPolicies /\ overlapped' = overlapped
    BY <1>5, CompareCounts, LoginUnderWay, ComparingLess
  <2>2. Alone(s)
    BY <1>1, <2>1
  <2>3. CASE s = r
    <3>1. a \in Comparing(s)
      BY <2>1, <2>3 DEF Comparing
    <3>2. Comparing(s)' = {} /\ fails[s].left = 0 /\ promised[s] = 0
      BY <2>1, <2>2, <3>1
    <3>3. promised'[s] = fails'[s].left
      BY <2>1, <2>3, <3>2, FailsEffect, ForgetsEffect
    <3> QED BY <3>2, <3>3
  <2>4. CASE s # r
    <3>1. fails'[s] = fails[s] /\ promised'[s] = promised[s]
      BY <2>1, <2>4, FailsEffect, ForgetsEffect
    <3> QED BY <2>1, <2>2, <3>1
  <2> QED BY <2>3, <2>4
<1>6. CASE Tick
  <2>1. fails'[s].left = Less(fails[s].left) /\ promised'[s] = Less(promised[s])
        /\ UNCHANGED <<login, overlapped>>
    BY <1>6, TickCounts DEF Tick
  <2>2. Alone(s) /\ Comparing(s)' = Comparing(s)
    BY <1>1, <2>1 DEF Comparing
  <2> QED BY <2>1, <2>2 DEF Less
<1>7. CASE Restart
  <2>1. fails'[s].left = 0 /\ promised'[s] = 0 /\ login' = [a \in Attempts |-> Idle]
    BY <1>7, RestartCounts DEF Restart
  <2>2. Comparing(s)' = {}
    BY <2>1 DEF Comparing
  <2> QED BY <2>1, <2>2
<1>8. CASE \/ \E h \in Writers : BeginWrite(h) \/ Refuse(h) \/ Change(h)
           \/ Read \/ Logout \/ UNCHANGED authVars
  <2>1. UNCHANGED <<counters, login, overlapped>>
    BY <1>8, ChangeLands DEF BeginWrite, Refuse, Land, Read, Logout, authVars
  <2> QED BY <1>3, <2>1
<1> QED BY <1>4, <1>5, <1>6, <1>7, <1>8 DEF AuthNext

-----------------------------------------------------------------------------
(* Sessions and what they write *)

\* A session that is used is the same, unused for no time.
LEMMA UsedFits ==
  ASSUME AuthAssumption, sessions \subseteq Session, SessionsFit, NEW s \in sessions, sessions' = Used(s)
  PROVE  sessions' \subseteq Session /\ SessionsFit'
<1>1. s \in Session /\ s.unused + s.left <= s.timeout
  BY DEF SessionsFit
<1> DEFINE u == [s EXCEPT !.unused = 0]
<1>2. /\ 0 \in 0..Longest("timeout") /\ s.left \in Nat /\ s.unused \in Nat /\ s.timeout \in Nat
  BY <1>1, LongestType DEF Session
<1>3. u \in Session /\ u.unused = 0 /\ u.left = s.left /\ u.timeout = s.timeout
  BY <1>1, <1>2 DEF Session
<1>4. u.unused + u.left <= u.timeout
  BY <1>1, <1>2, <1>3
<1> QED BY <1>3, <1>4 DEF Used, SessionsFit

\* Sessions are issued, used and worn out.
LEMMA SessionsStep ==
  ASSUME AuthAssumption, HeadTypes, LoginTypes, sessions \subseteq Session, SessionsFit, [AuthNext]_authVars
  PROVE  sessions' \subseteq Session /\ SessionsFit'
<1>1. ASSUME UNCHANGED sessions PROVE sessions' \subseteq Session /\ SessionsFit'
  BY <1>1 DEF SessionsFit
<1>2. ASSUME NEW a \in Attempts, LoginSucceeds(a) PROVE sessions' \subseteq Session /\ SessionsFit'
  <2> DEFINE t == login[a].policy.timeout
             s == [user |-> login[a].user, role |-> login[a].users[login[a].user].role,
                   left |-> t, unused |-> 0, timeout |-> t]
  <2>1. sessions' = sessions \cup {s} /\ login[a] # Idle /\ login[a].users[login[a].user] # Absent
    BY <1>2 DEF LoginSucceeds, Matching
  <2>2. login[a].policy \in LoginPolicies /\ login[a].user \in Names /\ login[a].users \in UserSets
    BY <2>1, LoginUnderWay
  <2>3. t \in 0..Longest("timeout") /\ 0 \in 0..Longest("timeout") /\ t \in Nat
    BY <2>2, LongestType
  <2>4. login[a].users[login[a].user].role \in Roles
    BY <2>1, <2>2 DEF UserSets, User
  <2>5. s \in Session
    BY <2>2, <2>3, <2>4 DEF Session
  <2>6. s.unused + s.left <= s.timeout
    BY <2>3
  <2> QED BY <2>1, <2>5, <2>6 DEF SessionsFit
<1>3. CASE Read
  <2>1. PICK s \in sessions : sessions' = Used(s)
    BY <1>3 DEF Read
  <2> QED BY <2>1, UsedFits
<1>4. ASSUME NEW h \in Writers, BeginWrite(h) PROVE sessions' \subseteq Session /\ SessionsFit'
  <2>1. PICK s \in sessions : sessions' = Used(s)
    BY <1>4 DEF BeginWrite
  <2> QED BY <2>1, UsedFits
<1>5. CASE Logout
  BY <1>5 DEF Logout, SessionsFit
<1>6. CASE Tick
  <2>1. sessions' = {[s EXCEPT !.left = @ - 1, !.unused = @ + 1] : s \in Unexpired}
    BY <1>6 DEF Tick
  <2>2. ASSUME NEW s \in Unexpired
        PROVE  LET u == [s EXCEPT !.left = @ - 1, !.unused = @ + 1]
               IN  u \in Session /\ u.unused + u.left <= u.timeout
    <3>1. s \in Session /\ s.unused + s.left <= s.timeout /\ s.left > 0
      BY DEF Unexpired, SessionsFit
    <3>2. Longest("timeout") \in Nat
      BY LongestType
    <3>3. s.left \in Nat /\ s.unused \in Nat /\ s.timeout \in 0..Longest("timeout")
      BY <3>1, <3>2 DEF Session
    <3>4. s.left - 1 \in 0..Longest("timeout") /\ s.unused + 1 \in 0..Longest("timeout")
      BY <3>1, <3>2, <3>3
    <3> DEFINE v == [s EXCEPT !.left = @ - 1, !.unused = @ + 1]
    <3>5. v \in Session /\ v.left = s.left - 1 /\ v.unused = s.unused + 1 /\ v.timeout = s.timeout
      BY <3>1, <3>4 DEF Session
    <3>6. v.unused + v.left <= v.timeout
      BY <3>1, <3>3, <3>5
    <3> QED BY <3>5, <3>6
  <2> QED BY <2>1, <2>2 DEF SessionsFit
<1>7. CASE Restart
  BY <1>7 DEF Restart, SessionsFit
<1>8. CASE \/ \E a \in Attempts : BeginLogin(a) \/ LoginFails(a)
           \/ \E h \in Writers : Refuse(h) \/ Change(h)
           \/ UNCHANGED authVars
  <2>1. UNCHANGED sessions
    BY <1>8, ChangeLands DEF BeginLogin, LoginFails, Refuse, Land, authVars
  <2> QED BY <1>1, <2>1
<1> QED BY <1>2, <1>3, <1>4, <1>5, <1>6, <1>7, <1>8 DEF AuthNext, Compare

\* Requests are let in for Users, and answered.
LEMMA WritesStep ==
  ASSUME AuthAssumption, HeadTypes, WriteTypes, sessions \subseteq Session, [AuthNext]_authVars
  PROVE  WriteTypes'
<1>1. ASSUME NEW h \in Writers, BeginWrite(h) PROVE WriteTypes'
  <2>1. PICK s \in sessions : write' = [write EXCEPT ![h] = [step |-> "save", user |-> s.user]]
    BY <1>1 DEF BeginWrite
  <2>2. [step |-> "save", user |-> s.user] \in [step : {"save"}, user : Names]
    BY DEF Session
  <2> QED BY <2>1, <2>2 DEF WriteTypes
<1>2. ASSUME NEW h \in Writers, Refuse(h) \/ Change(h) PROVE WriteTypes'
  BY <1>2, ChangeLands DEF Refuse, Land, WriteTypes
<1>3. CASE Restart
  BY <1>3 DEF Restart, WriteTypes
<1>4. CASE \/ \E a \in Attempts : BeginLogin(a) \/ Compare(a)
           \/ Read \/ Logout \/ Tick \/ UNCHANGED authVars
  BY <1>4 DEF BeginLogin, Compare, LoginFails, LoginSucceeds, Read, Logout, Tick, authVars, WriteTypes
<1> QED BY <1>1, <1>2, <1>3, <1>4 DEF AuthNext

-----------------------------------------------------------------------------
(* What a User who lost the admin Role still changes *)

\* What is counted is finite.
LEMMA LateFinite ==
  ASSUME AuthAssumption, HeadTypes, NEW n
  PROVE  /\ IsFiniteSet(Late(n)) /\ IsFiniteSet(Pending(n))
         /\ Cardinality(Late(n)) \in Nat /\ Cardinality(Pending(n)) \in Nat
         /\ Cardinality(Writers) \in Nat \ {0}
<1>1. IsFiniteSet(Configs)
  BY FS_Interval DEF HeadTypes, Configs
<1>2. IsFiniteSet(Late(n)) /\ IsFiniteSet(Pending(n)) /\ IsFiniteSet(Writers)
  BY <1>1, FS_Subset DEF Late, Pending, AuthAssumption
<1>3. Cardinality(Writers) # 0
  BY <1>2, FS_EmptySet DEF AuthAssumption
<1> QED BY <1>2, <1>3, FS_CardinalityType

\* Fewer requests under way and the same history.
LEMMA LateKept ==
  ASSUME AuthAssumption, HeadTypes, LateFits, UNCHANGED configs,
         \A n \in Names : ~IsAdmin(Len(configs), n) => Pending(n)' \subseteq Pending(n)
  PROVE  LateFits'
<1> SUFFICES ASSUME NEW n \in Names, ~IsAdmin(Len(configs), n)'
             PROVE  (Cardinality(Late(n)) + Cardinality(Pending(n)) < Cardinality(Writers))'
  BY DEF LateFits
<1>1. ~IsAdmin(Len(configs), n) /\ Late(n)' = Late(n) /\ HeadTypes'
  BY DEF IsAdmin, Late, Configs, HeadTypes
<1>2. Cardinality(Late(n)) + Cardinality(Pending(n)) < Cardinality(Writers)
  BY <1>1 DEF LateFits
<1>3. Cardinality(Pending(n)') <= Cardinality(Pending(n))
  BY <1>1, LateFinite, FS_Subset
<1>4. Cardinality(Pending(n)') \in Nat
  BY <1>1, LateFinite, FS_Subset, FS_CardinalityType
<1> QED BY <1>1, <1>2, <1>3, <1>4, LateFinite

\* A change by a request that was let in.
LEMMA LateLands ==
  ASSUME AuthAssumption, HeadTypes, WriteTypes, LateFits, NEW h \in Writers,
         NEW us \in UserSets, NEW p \in LoginPolicies, Land(h, us, p)
  PROVE  LateFits'
<1> DEFINE K == Len(configs)
           m == write[h].user
<1>1. K \in Nat /\ K >= 1 /\ configs \in Seq(Settings)
  BY DEF HeadTypes
<1>2. write[h] # Idle /\ m \in Names /\ write' = [write EXCEPT ![h] = Idle]
  BY DEF Land, WriteTypes
<1>3. /\ Len(configs') = K + 1 /\ configs'[K + 1].by = m
      /\ \A k \in 1..K : configs'[k] = configs[k]
  <2>1. [users |-> us, policy |-> p, by |-> m] \in Settings
    BY <1>2 DEF Settings
  <2> QED BY <1>1, <2>1, AppendProperties DEF Land
<1>4. \A n : Pending(n)' = Pending(n) \ {h}
  BY <1>2 DEF Pending, WriteTypes
<1> SUFFICES ASSUME NEW n \in Names, ~IsAdmin(Len(configs), n)'
             PROVE  (Cardinality(Late(n)) + Cardinality(Pending(n)) < Cardinality(Writers))'
  BY DEF LateFits
<1>6. /\ IsFiniteSet(Late(n)) /\ IsFiniteSet(Pending(n)) /\ Cardinality(Late(n)) \in Nat
      /\ Cardinality(Pending(n)) \in Nat /\ Cardinality(Writers) \in Nat \ {0} /\ IsFiniteSet(Writers)
  BY LateFinite DEF AuthAssumption
<1> DEFINE Rules(c) == c.users[n] # Absent /\ c.users[n].role = "admin"
<1>7. CASE Rules(configs[K])
  <2>1. Late(n)' = {}
    <3> SUFFICES ASSUME NEW k \in Late(n)' PROVE FALSE
      OBVIOUS
    <3>1. k \in 2..K + 1
      BY <1>1, <1>3 DEF Late, Configs
    <3>2. \A j \in k - 1..K + 1 : ~Rules(configs'[j])
      BY <1>1, <1>3 DEF Late, Configs, IsAdmin
    <3>3. K \in k - 1..K + 1 /\ K \in 1..K
      <4> HIDE DEF K
      <4> QED BY <1>1, <3>1
    <3>4. configs'[K] = configs[K]
      BY <1>3, <3>3
    <3> QED BY <1>7, <3>2, <3>3, <3>4
  <2>2. Pending(n)' \subseteq Writers \ {h}
    BY <1>4 DEF Pending
  <2>3. Cardinality(Writers \ {h}) = Cardinality(Writers) - 1 /\ IsFiniteSet(Writers \ {h})
    BY <1>6, FS_RemoveElement
  <2>4. Cardinality(Pending(n)') <= Cardinality(Writers) - 1 /\ Cardinality(Pending(n)') \in Nat
    BY <2>2, <2>3, FS_Subset, FS_CardinalityType
  <2>5. Cardinality(Late(n)') = 0
    BY <2>1, FS_EmptySet
  <2> QED BY <1>6, <2>4, <2>5
<1>8. CASE ~Rules(configs[K])
  <2>1. Cardinality(Late(n)) + Cardinality(Pending(n)) < Cardinality(Writers)
    BY <1>8 DEF LateFits, IsAdmin
  <2>2. Late(n)' \subseteq Late(n) \cup (IF m = n THEN {K + 1} ELSE {})
    <3> SUFFICES ASSUME NEW k \in Late(n)', k \notin Late(n) PROVE k = K + 1 /\ m = n
      OBVIOUS
    <3>1. k \in 2..K + 1 /\ configs'[k].by = n /\ \A j \in k - 1..K + 1 : ~Rules(configs'[j])
      BY <1>1, <1>3 DEF Late, Configs, IsAdmin
    <3>2. CASE k \in 2..K
      <4>1. configs[k].by = n
        BY <1>3, <3>1, <3>2
      <4>2. ASSUME NEW j \in k - 1..K PROVE ~Rules(configs[j])
        <5>1. j \in 1..K /\ j \in k - 1..K + 1
          <6> HIDE DEF K
          <6> QED BY <1>1, <3>2
        <5>2. configs'[j] = configs[j]
          BY <1>3, <5>1
        <5> QED BY <3>1, <5>1, <5>2
      <4> QED BY <1>1, <3>2, <4>1, <4>2 DEF Late, Configs, IsAdmin
    <3>3. CASE k = K + 1
      BY <1>3, <3>1, <3>3
    <3> QED BY <1>1, <3>1, <3>2, <3>3
  <2>3. CASE m = n
    <3>1. h \in Pending(n)
      BY <1>2, <2>3 DEF Pending
    <3>2. Cardinality(Pending(n)') = Cardinality(Pending(n)) - 1
      BY <1>4, <1>6, <3>1, FS_RemoveElement
    <3>3. /\ IsFiniteSet(Late(n) \cup {K + 1})
          /\ Cardinality(Late(n) \cup {K + 1}) <= Cardinality(Late(n)) + 1
          /\ Cardinality(Late(n) \cup {K + 1}) \in Nat
      <4>1. /\ IsFiniteSet(Late(n) \cup {K + 1})
            /\ Cardinality(Late(n) \cup {K + 1}) \in {Cardinality(Late(n)), Cardinality(Late(n)) + 1}
        BY <1>6, FS_AddElement
      <4> QED BY <1>6, <4>1
    <3>4. Cardinality(Late(n)') <= Cardinality(Late(n) \cup {K + 1}) /\ Cardinality(Late(n)') \in Nat
      BY <2>2, <2>3, <3>3, FS_Subset, FS_CardinalityType
    <3> QED BY <1>6, <2>1, <3>2, <3>3, <3>4
  <2>4. CASE m # n
    <3>1. Cardinality(Late(n)') <= Cardinality(Late(n)) /\ Cardinality(Late(n)') \in Nat
      BY <1>6, <2>2, <2>4, FS_Subset, FS_CardinalityType
    <3>2. Cardinality(Pending(n)') <= Cardinality(Pending(n)) /\ Cardinality(Pending(n)') \in Nat
      BY <1>4, <1>6, FS_Subset, FS_CardinalityType
    <3> QED BY <1>6, <2>1, <3>1, <3>2
  <2> QED BY <2>3, <2>4
<1> QED BY <1>7, <1>8

\* No request of a User is added once the Role is lost.
LEMMA LateStep ==
  ASSUME AuthAssumption, HeadTypes, WriteTypes, LateFits, [AuthNext]_authVars
  PROVE  LateFits'
<1>1. ASSUME NEW h \in Writers, Change(h) PROVE LateFits'
  BY <1>1, ChangeLands, LateLands
<1>2. ASSUME NEW h \in Writers, BeginWrite(h) PROVE LateFits'
  <2>1. PICK s \in sessions :
          /\ RoleOf(s) = "admin"
          /\ write' = [write EXCEPT ![h] = [step |-> "save", user |-> s.user]]
    BY <1>2 DEF BeginWrite
  <2>2. IsAdmin(Len(configs), s.user)
    <3>1. users[s.user] # Absent
      BY <2>1 DEF RoleOf, AuthAssumption, Roles
    <3> QED BY <2>1, <3>1 DEF RoleOf, IsAdmin, users
  <2>3. \A n : n # s.user => Pending(n)' \subseteq Pending(n)
    BY <2>1 DEF Pending, WriteTypes
  <2>4. UNCHANGED configs
    BY <1>2 DEF BeginWrite
  <2> QED BY <2>2, <2>3, <2>4, LateKept
<1>3. ASSUME NEW h \in Writers, Refuse(h) PROVE LateFits'
  <2>1. UNCHANGED configs /\ \A n : Pending(n)' \subseteq Pending(n)
    BY <1>3 DEF Refuse, Pending, WriteTypes
  <2> QED BY <2>1, LateKept
<1>4. CASE Restart
  <2>1. UNCHANGED configs /\ \A n : Pending(n)' = {}
    BY <1>4 DEF Restart, Pending
  <2> QED BY <2>1, LateKept
<1>5. CASE \/ \E a \in Attempts : BeginLogin(a) \/ Compare(a)
           \/ Read \/ Logout \/ Tick \/ UNCHANGED authVars
  <2>1. UNCHANGED <<configs, write>>
    BY <1>5 DEF BeginLogin, Compare, LoginFails, LoginSucceeds, Read, Logout, Tick, authVars
  <2>2. \A n : Pending(n)' \subseteq Pending(n)
    BY <2>1 DEF Pending
  <2> QED BY <2>1, <2>2, LateKept
<1> QED BY <1>1, <1>2, <1>3, <1>4, <1>5 DEF AuthNext

-----------------------------------------------------------------------------
(* What Auth promises *)

\* The invariant holds to begin with.
LEMMA InitAuthIInv == AuthAssumption /\ AuthInit => AuthIInv
<1> SUFFICES ASSUME AuthAssumption, AuthInit PROVE AuthIInv
  OBVIOUS
<1>1. Longest("threshold") \in Nat \ {0} /\ Longest("lockout") \in Nat \ {0}
  BY LongestType
<1>2. /\ NoFailures \in [n : 0..Longest("threshold"), set : BOOLEAN, left : 0..Longest("lockout")]
      /\ NoFailures.n = 0 /\ NoFailures.set = FALSE /\ NoFailures.left = 0
  BY <1>1 DEF NoFailures
<1>3. HeadTypes /\ LoginTypes /\ WriteTypes /\ sessions \subseteq Session
  <2>1. [users |-> FirstUsers, policy |-> FirstPolicy, by |-> Absent] \in Settings
    BY DEF AuthAssumption, Settings
  <2> QED BY <2>1 DEF AuthInit, HeadTypes, LoginTypes, WriteTypes, AuthAssumption
<1>4. CounterTypes /\ CountersFit /\ BelowThreshold /\ EveryFailureCounted
  BY <1>1, <1>2 DEF AuthInit, CounterTypes, CountersFit, BelowThreshold, EveryFailureCounted
<1>5. Serial
  BY <1>2 DEF AuthInit, Serial, Comparing
<1>6. SessionsFit /\ LateFits
  <2>1. \A n : Late(n) = {} /\ Pending(n) = {}
    BY DEF AuthInit, Late, Pending, Configs
  <2> QED BY <1>3, <2>1, LateFinite, FS_EmptySet DEF AuthInit, SessionsFit, LateFits
<1> QED BY <1>3, <1>4, <1>5, <1>6, TypeParts DEF AuthIInv

\* Every step keeps the invariant.
LEMMA StepAuthIInv == AuthAssumption /\ AuthIInv /\ [AuthNext]_authVars => AuthIInv'
<1> SUFFICES ASSUME AuthAssumption, AuthIInv, [AuthNext]_authVars PROVE AuthIInv'
  OBVIOUS
<1>1. /\ HeadTypes /\ CounterTypes /\ LoginTypes /\ WriteTypes /\ sessions \subseteq Session
      /\ CountersFit /\ Serial /\ BelowThreshold /\ SessionsFit
      /\ EveryFailureCounted /\ LateFits
  BY TypeParts DEF AuthIInv
<1>2. HeadTypes' /\ LoginTypes'
  BY <1>1, HeadStep, LoginStep
<1>3. CounterTypes' /\ CountersFit' /\ BelowThreshold' /\ EveryFailureCounted'
  BY <1>1, CountersStep
<1>4. sessions' \subseteq Session /\ SessionsFit'
  BY <1>1, SessionsStep
<1>5. WriteTypes' /\ LateFits'
  BY <1>1, WritesStep, LateStep
<1>6. Serial'
  BY <1>1, SerialStep
<1>7. AuthTypeOK'
  BY <1>2, <1>3, <1>4, <1>5 DEF AuthTypeOK, HeadTypes, Settings, CounterTypes, LoginTypes, WriteTypes, Compared
<1> QED BY <1>3, <1>4, <1>5, <1>6, <1>7 DEF AuthIInv

\* The inductive invariant holds of every run.
THEOREM AuthInvariant ==
  ASSUME AuthAssumption
  PROVE  AuthSpec => []AuthIInv
BY InitAuthIInv, StepAuthIInv, PTL DEF AuthSpec

\* Logins, counters, sessions and requests keep to their types.
THEOREM AuthTypeCorrect ==
  ASSUME AuthAssumption
  PROVE  AuthSpec => []AuthTypeOK
<1>1. AuthIInv => AuthTypeOK
  BY DEF AuthIInv
<1> QED BY <1>1, AuthInvariant, PTL

\* A User who loses the admin Role, whoever takes it and however, changes no more
\* than what was being written at that moment (auth.go Verify, api.go writer).
THEOREM DemotionAlwaysHolds ==
  ASSUME AuthAssumption
  PROVE  AuthSpec => []DemotionHolds
<1>1. AuthIInv => DemotionHolds
  <2> SUFFICES ASSUME AuthIInv, NEW n \in Names PROVE Cardinality(Late(n)) < Cardinality(Writers)
    BY DEF DemotionHolds
  <2>1. HeadTypes /\ LateFits
    BY TypeParts DEF AuthIInv
  <2>2. CASE IsAdmin(Len(configs), n)
    <3>1. Late(n) = {}
      BY <2>1, <2>2 DEF Late, Configs, HeadTypes
    <3> QED BY <2>1, <3>1, LateFinite, FS_EmptySet
  <2>3. CASE ~IsAdmin(Len(configs), n)
    BY <2>1, <2>3, LateFinite DEF LateFits
  <2> QED BY <2>2, <2>3
<1> QED BY <1>1, AuthInvariant, PTL

\* No failed login is lost between concurrent ones, and a client that waits for
\* each answer stays locked out for the whole time (auth.go Login).
THEOREM LockoutAlwaysCounts ==
  ASSUME AuthAssumption
  PROVE  AuthSpec => []LockoutCounts
<1>1. AuthIInv => LockoutCounts
  BY DEF AuthIInv, Serial, BelowThreshold, LockoutCounts, SerialLockoutHolds
<1> QED BY <1>1, AuthInvariant, PTL

-----------------------------------------------------------------------------
(* Accounts: whatever is written into copies, the trees that are kept are   *)
(* those that were committed, and every commit has an administrator.        *)

Trees == [Users -> UserSpecs \cup {Nobody}]
Page == [rev : Revs, stripped : BOOLEAN, tree : [of : {0}, own : [Users -> MaybeUser]]]

\* The history, each commit with an administrator.
HistoryInv ==
  /\ commits \in Seq(Trees) /\ Len(commits) \in 1..MaxSaves
  /\ \A k \in Revs : AdminIn(commits[k])

\* What is kept for a commit is that commit.
CacheInv ==
  /\ cache \in Seq({Nobody} \cup Trees) /\ Len(cache) = Len(commits)
  /\ \A k \in Revs : cache[k] \in {Nobody, commits[k]}

\* A page is the revision it names, before it is stripped and after.
PageInv ==
  /\ page \in [Readers -> {Nobody} \cup Page]
  /\ \A r \in Readers : page[r] # Nobody =>
       page[r].tree.own = IF page[r].stripped THEN Redacted(commits[page[r].rev])
                                              ELSE commits[page[r].rev]

AskedInv ==
  /\ asked.user \in Users \cup {Nobody} /\ asked.pw \in Secrets \cup {Blank}
  /\ LoginByHead

AccountsIInv == HistoryInv /\ CacheInv /\ PageInv /\ AskedInv

-----------------------------------------------------------------------------
(* Trees *)

\* HEAD is a revision.
LEMMA HeadIs ==
  ASSUME AccountsAssumption, HistoryInv
  PROVE  HEAD \in Revs /\ HEAD \in Nat /\ HEAD >= 1 /\ commits[HEAD] \in Trees /\ MaxSaves \in Nat
BY DEF AccountsAssumption, HistoryInv, HEAD, Revs

\* A copy of what is kept for a commit is that commit.
LEMMA CloneIs ==
  ASSUME CacheInv, NEW k \in Revs
  PROVE  /\ Clone(k) = [of |-> 0, own |-> commits[k]]
         /\ Content(Clone(k)) = commits[k] /\ Kept(k) = commits[k]
         /\ \A t, kept : Written(Clone(k), t, kept) = kept
BY DEF CacheInv, Clone, Kept, Content, Written

\* To read a commit keeps its tree.
LEMMA LoadedIs ==
  ASSUME HistoryInv, CacheInv, NEW k \in Revs
  PROVE  /\ Loaded(k) \in Seq({Nobody} \cup Trees) /\ Len(Loaded(k)) = Len(commits)
         /\ \A j \in Revs : Loaded(k)[j] \in {Nobody, commits[j]}
<1>1. Loaded(k) = [cache EXCEPT ![k] = commits[k]]
  BY CloneIs DEF Loaded
<1>2. commits[k] \in Trees /\ k \in 1..Len(cache)
  BY DEF HistoryInv, CacheInv, Revs
<1>3. Loaded(k) \in Seq({Nobody} \cup Trees) /\ Len(Loaded(k)) = Len(cache)
  BY <1>1, <1>2, ExceptSeq DEF CacheInv
<1> QED BY <1>1, <1>2, <1>3 DEF CacheInv, Revs

\* What is left of a tree without its hashes.
LEMMA RedactedType ==
  ASSUME NEW t \in Trees
  PROVE  Redacted(t) \in [Users -> MaybeUser] /\ t \in [Users -> MaybeUser]
<1>1. ASSUME NEW u \in Users PROVE Redacted(t)[u] \in MaybeUser /\ t[u] \in MaybeUser
  BY DEF Redacted, Trees, MaybeUser, UserSpecs
<1> QED BY <1>1 DEF Redacted, Trees

\* An administrator of a tree has a password.
LEMMA AdminHasPassword ==
  ASSUME HistoryInv, AccountsAssumption
  PROVE  AdminStays
<1>1. AdminIn(commits[HEAD]) /\ commits[HEAD] \in Trees
  BY HeadIs DEF HistoryInv
<1>2. PICK u \in Users : commits[HEAD][u] # Nobody /\ commits[HEAD][u].role = "admin"
  BY <1>1 DEF AdminIn
<1>3. commits[HEAD][u] \in UserSpecs
  BY <1>1, <1>2 DEF Trees
<1> QED BY <1>2, <1>3 DEF AdminStays, UserSpecs

-----------------------------------------------------------------------------
(* Steps *)

\* A commit of a tree with an administrator, or none: history and cache stay sound.
LEMMA Commits ==
  ASSUME AccountsAssumption, HistoryInv, CacheInv, NEW t \in Trees, AdminIn(t),
         NEW kept \in Seq({Nobody} \cup Trees), Len(kept) = Len(commits),
         \A k \in Revs : kept[k] \in {Nobody, commits[k]},
         HEAD < MaxSaves, commits' = Append(commits, t), cache' = Append(kept, Nobody)
  PROVE  /\ HistoryInv' /\ CacheInv' /\ Revs \subseteq Revs'
         /\ \A k \in Revs : commits'[k] = commits[k]
         /\ commits'[Len(commits')] = t
<1>1. Len(commits) \in Nat /\ MaxSaves \in Nat /\ commits \in Seq(Trees)
  BY HeadIs DEF HistoryInv
<1>2. /\ commits' \in Seq(Trees) /\ Len(commits') = Len(commits) + 1
      /\ \A k \in 1..Len(commits) : commits'[k] = commits[k]
      /\ commits'[Len(commits) + 1] = t
  BY <1>1, AppendProperties
<1>3. /\ cache' \in Seq({Nobody} \cup Trees) /\ Len(cache') = Len(commits) + 1
      /\ \A k \in 1..Len(commits) : cache'[k] = kept[k]
      /\ cache'[Len(commits) + 1] = Nobody
  BY <1>1, AppendProperties
<1>4. Revs' = Revs \cup {Len(commits) + 1} /\ Revs = 1..Len(commits)
  BY <1>1, <1>2 DEF Revs
<1>5. HistoryInv'
  BY <1>1, <1>2, <1>4 DEF HistoryInv, HEAD, AdminIn
<1>6. CacheInv'
  BY <1>2, <1>3, <1>4 DEF CacheInv
<1> QED BY <1>2, <1>4, <1>5, <1>6

\* Pages do not change, and the revisions they are of do not either.
LEMMA PagesStay ==
  ASSUME PageInv, HistoryInv, UNCHANGED page, Revs \subseteq Revs',
         \A k \in Revs : commits'[k] = commits[k]
  PROVE  PageInv'
<1>1. Page \subseteq Page'
  BY DEF Page
<1>2. \A r \in Readers : page[r] # Nobody => page[r].rev \in Revs
  BY DEF PageInv, Page
<1> QED BY <1>1, <1>2 DEF PageInv, Redacted

\* An update of HEAD's tree into t, about the request.
LEMMA UpdateStep ==
  ASSUME AccountsAssumption, AccountsIInv, NEW t \in Trees, NEW request,
         request.op # "login", request.user \in Users \cup {Nobody}, request.pw \in Secrets \cup {Blank},
         request = Request(request.op, request.user, request.pw),
         Update(Clone(HEAD), t, request)
  PROVE  /\ AccountsIInv' /\ asked'.op = request.op /\ asked'.user = request.user /\ asked'.pw = request.pw
         /\ commits' # commits => commits'[Len(commits')] = t
<1>1. HEAD \in Revs /\ HEAD < MaxSaves /\ UNCHANGED page
  BY HeadIs DEF AccountsIInv, Update
<1>2. /\ asked' = [request EXCEPT !.ok = Accepted(t)]
      /\ asked'.op = request.op /\ asked'.user = request.user /\ asked'.pw = request.pw
  BY DEF Update, Request
<1>3. AskedInv'
  BY <1>2 DEF AskedInv, LoginByHead
<1>4. \A kept : Written(Clone(HEAD), t, kept) = kept
  BY <1>1, CloneIs DEF AccountsIInv
<1>5. /\ Loaded(HEAD) \in Seq({Nobody} \cup Trees) /\ Len(Loaded(HEAD)) = Len(commits)
      /\ \A j \in Revs : Loaded(HEAD)[j] \in {Nobody, commits[j]}
  BY <1>1, LoadedIs DEF AccountsIInv
<1>6. CASE Accepted(t) /\ t # commits[HEAD]
  <2>1. commits' = Append(commits, t) /\ cache' = Append(Loaded(HEAD), Nobody) /\ AdminIn(t)
    BY <1>4, <1>6 DEF Update, Accepted
  <2>2. /\ HistoryInv' /\ CacheInv' /\ Revs \subseteq Revs'
        /\ \A k \in Revs : commits'[k] = commits[k]
        /\ commits'[Len(commits')] = t
    BY <1>1, <1>5, <2>1, Commits DEF AccountsIInv
  <2> QED BY <1>1, <1>2, <1>3, <2>2, PagesStay DEF AccountsIInv
<1>7. CASE ~(Accepted(t) /\ t # commits[HEAD])
  <2>1. commits' = commits /\ cache' = Loaded(HEAD)
    BY <1>4, <1>7 DEF Update
  <2>2. Revs' = Revs
    BY <2>1 DEF Revs
  <2>3. HistoryInv'
    BY <2>1, <2>2 DEF AccountsIInv, HistoryInv, AdminIn
  <2>4. CacheInv'
    BY <1>5, <2>1, <2>2 DEF CacheInv
  <2>5. PageInv'
    BY <1>1, <2>1, <2>2, PagesStay DEF AccountsIInv
  <2> QED BY <1>2, <1>3, <2>1, <2>3, <2>4, <2>5 DEF AccountsIInv
<1> QED BY <1>6, <1>7

\* Reads: history and requests stay, and what is kept is what was read.
LEMMA ReadStep ==
  ASSUME AccountsAssumption, AccountsIInv, cache' \in {cache, Loaded(HEAD)}, UNCHANGED commits
  PROVE  HistoryInv' /\ CacheInv' /\ Revs' = Revs
<1>1. Revs' = Revs
  BY DEF Revs
<1>2. HistoryInv'
  BY <1>1 DEF AccountsIInv, HistoryInv, AdminIn
<1>3. CASE cache' = cache
  BY <1>1, <1>2, <1>3 DEF AccountsIInv, CacheInv
<1>4. CASE cache' = Loaded(HEAD)
  BY <1>1, <1>2, <1>4, HeadIs, LoadedIs DEF AccountsIInv, CacheInv
<1> QED BY <1>1, <1>2, <1>3, <1>4

\* The page's three steps.
LEMMA PageSteps ==
  ASSUME AccountsAssumption, AccountsIInv, NEW r \in Readers, GetConfig(r) \/ Strip(r) \/ Send(r)
  PROVE  AccountsIInv'
<1>1. UNCHANGED commits /\ UNCHANGED asked
  BY DEF GetConfig, Strip, Send
<1>2. AskedInv'
  BY <1>1 DEF AccountsIInv, AskedInv, LoginByHead, HEAD
<1>3. HEAD \in Revs /\ commits[HEAD] \in [Users -> MaybeUser]
  BY HeadIs, RedactedType DEF AccountsIInv
<1>4. CASE GetConfig(r)
  <2>1. Revs' = Revs /\ HistoryInv' /\ CacheInv'
    BY <1>1, <1>4, ReadStep DEF GetConfig
  <2>2. page' = [page EXCEPT ![r] = [rev |-> HEAD, tree |-> [of |-> 0, own |-> commits[HEAD]], stripped |-> FALSE]]
    BY <1>3, <1>4, CloneIs DEF GetConfig, AccountsIInv
  <2>3. PageInv'
    BY <1>1, <1>3, <2>1, <2>2 DEF AccountsIInv, PageInv, Page, Redacted
  <2> QED BY <1>2, <2>1, <2>3 DEF AccountsIInv
<1>5. CASE Strip(r)
  <2>1. page[r] # Nobody /\ ~page[r].stripped /\ page[r] \in Page
    BY <1>5 DEF Strip, AccountsIInv, PageInv
  <2>2. page[r].tree.of = 0 /\ page[r].tree.own = commits[page[r].rev] /\ page[r].rev \in Revs
    BY <2>1 DEF AccountsIInv, PageInv, Page
  <2> DEFINE t == Redacted(commits[page[r].rev])
  <2>3. page' = [page EXCEPT ![r].tree.own = t, ![r].stripped = TRUE] /\ cache' = cache
    BY <1>5, <2>2 DEF Strip, Content, Written
  <2>4. t \in [Users -> MaybeUser]
    BY <2>2, RedactedType DEF AccountsIInv, HistoryInv, Revs
  <2>5. Revs' = Revs /\ HistoryInv' /\ CacheInv'
    BY <1>1, <2>3, ReadStep
  <2>6. page' = [page EXCEPT ![r] = [rev |-> page[r].rev, stripped |-> TRUE, tree |-> [of |-> 0, own |-> t]]]
    BY <2>1, <2>2, <2>3 DEF Page, AccountsIInv, PageInv
  <2>7. PageInv'
    BY <1>1, <2>2, <2>4, <2>5, <2>6 DEF AccountsIInv, PageInv, Page, Redacted
  <2> QED BY <1>2, <2>5, <2>7 DEF AccountsIInv
<1>6. CASE Send(r)
  <2>1. page' = [page EXCEPT ![r] = Nobody] /\ cache' = cache
    BY <1>6 DEF Send
  <2>2. Revs' = Revs /\ HistoryInv' /\ CacheInv'
    BY <1>1, <2>1, ReadStep
  <2>3. PageInv'
    BY <1>1, <2>1, <2>2 DEF AccountsIInv, PageInv, Page, Redacted
  <2> QED BY <1>2, <2>2, <2>3 DEF AccountsIInv
<1> QED BY <1>4, <1>5, <1>6

\* What a change of one User, or a login, leaves behind.
Changed(u, pw) ==
  commits' # commits =>
    LET new == commits'[Len(commits')] IN
    /\ \A v \in Users \ {u} : new[v] = commits[HEAD][v]
    /\ pw = Blank => new[u] = Nobody \/ (commits[HEAD][u] # Nobody /\ new[u].hash = commits[HEAD][u].hash)

\* The form for a User, with or without a password.
LEMMA PutUserStep ==
  ASSUME AccountsAssumption, AccountsIInv, NEW u \in Users, NEW role \in UserRoles, NEW pw \in Secrets \cup {Blank},
         PutUser(u, role, pw)
  PROVE  AccountsIInv' /\ asked'.op = "put" /\ asked'.user = u /\ asked'.pw = pw /\ Changed(u, pw)
<1> DEFINE tip == commits[HEAD]
           hash == IF pw = Blank THEN tip[u].hash ELSE pw
           t == [tip EXCEPT ![u] = [role |-> role, hash |-> hash]]
           request == Request("put", u, pw)
<1>1. Content(Clone(HEAD)) = tip /\ tip \in Trees
  BY HeadIs, CloneIs DEF AccountsIInv
<1>2. (tip[u] = Nobody => pw # Blank) /\ Update(Clone(HEAD), t, request)
  BY <1>1 DEF PutUser
<1>3. hash \in Secrets
  BY <1>1, <1>2 DEF Trees, UserSpecs
<1>4. t \in Trees
  BY <1>1, <1>3 DEF Trees, UserSpecs
<1>5. request.op = "put" /\ request.user = u /\ request.pw = pw
  BY DEF Request
<1>6. /\ AccountsIInv' /\ asked'.op = "put" /\ asked'.user = u /\ asked'.pw = pw
      /\ commits' # commits => commits'[Len(commits')] = t
  <2> HIDE DEF t
  <2> QED BY <1>2, <1>4, <1>5, UpdateStep
<1>7. (\A v \in Users \ {u} : t[v] = tip[v]) /\ t[u].hash = hash
  BY <1>1 DEF Trees
<1>8. Changed(u, pw)
  BY <1>2, <1>6, <1>7 DEF Changed
<1> QED BY <1>6, <1>8

\* The User goes, nobody else changes.
LEMMA DeleteUserStep ==
  ASSUME AccountsAssumption, AccountsIInv, NEW u \in Users, DeleteUser(u)
  PROVE  AccountsIInv' /\ asked'.op = "delete" /\ asked'.user = u /\ asked'.pw = Blank /\ Changed(u, Blank)
<1> DEFINE tip == commits[HEAD]
           t == [tip EXCEPT ![u] = Nobody]
           request == Request("delete", u, Blank)
<1>1. Content(Clone(HEAD)) = tip /\ tip \in Trees
  BY HeadIs, CloneIs DEF AccountsIInv
<1>2. Update(Clone(HEAD), t, request)
  BY <1>1 DEF DeleteUser
<1>3. t \in Trees
  BY <1>1 DEF Trees
<1>4. request.op = "delete" /\ request.user = u /\ request.pw = Blank
  BY DEF Request
<1>5. /\ AccountsIInv' /\ asked'.op = "delete" /\ asked'.user = u /\ asked'.pw = Blank
      /\ commits' # commits => commits'[Len(commits')] = t
  <2> HIDE DEF t
  <2> QED BY <1>2, <1>3, <1>4, UpdateStep
<1>6. (\A v \in Users \ {u} : t[v] = tip[v]) /\ t[u] = Nobody
  BY <1>1 DEF Trees
<1> HIDE DEF t
<1>7. Changed(u, Blank)
  BY <1>5, <1>6 DEF Changed
<1> QED BY <1>5, <1>7

\* An import brings whole Users, or leaves HEAD's.
LEMMA ImportStep ==
  ASSUME AccountsAssumption, AccountsIInv, NEW them \in Trees, Import(them)
  PROVE  AccountsIInv' /\ asked'.op = "import"
<1> DEFINE t == Imported(them, commits[HEAD])
           request == Request("import", Nobody, Blank)
<1>1. /\ Content(Clone(HEAD)) = commits[HEAD] /\ commits[HEAD] \in Trees
      /\ [Clone(HEAD) EXCEPT !.of = 0] = Clone(HEAD)
  BY HeadIs, CloneIs DEF AccountsIInv
<1>2. Update(Clone(HEAD), t, request)
  BY <1>1 DEF Import
<1>3. t \in Trees
  BY <1>1 DEF Imported
<1>4. request.op = "import" /\ request.user = Nobody /\ request.pw = Blank
  BY DEF Request
<1> HIDE DEF t
<1> QED BY <1>2, <1>3, <1>4, UpdateStep

\* A revert commits what was committed before, and checks nothing: it had an
\* administrator then.
LEMMA RevertStep ==
  ASSUME AccountsAssumption, AccountsIInv, NEW k \in Revs, Revert(k)
  PROVE  AccountsIInv' /\ asked'.op = "revert"
<1>1. asked'.op = "revert" /\ asked'.user = Nobody /\ asked'.pw = Blank
  BY DEF Revert, Request
<1>2. AskedInv'
  BY <1>1 DEF AskedInv, LoginByHead
<1>3. UNCHANGED page /\ HEAD < MaxSaves
  BY DEF Revert
<1>4. CASE commits[k] = commits[HEAD]
  <2>1. UNCHANGED <<commits, cache>>
    BY <1>4 DEF Revert
  <2>2. Revs' = Revs /\ HistoryInv' /\ CacheInv'
    BY <2>1, ReadStep
  <2> QED BY <1>1, <1>2, <1>3, <2>1, <2>2, PagesStay DEF AccountsIInv
<1>5. CASE commits[k] # commits[HEAD]
  <2>1. commits' = Append(commits, commits[k]) /\ cache' = Append(cache, Nobody)
    BY <1>5 DEF Revert
  <2>2. commits[k] \in Trees /\ AdminIn(commits[k])
    BY DEF AccountsIInv, HistoryInv, Revs
  <2>3. /\ HistoryInv' /\ CacheInv' /\ Revs \subseteq Revs'
        /\ \A j \in Revs : commits'[j] = commits[j]
    BY <1>3, <2>1, <2>2, Commits DEF AccountsIInv, CacheInv
  <2> QED BY <1>1, <1>2, <1>3, <2>3, PagesStay DEF AccountsIInv
<1> QED BY <1>4, <1>5

\* A dry run is forgotten; a login is decided by HEAD.
LEMMA LookStep ==
  ASSUME AccountsAssumption, AccountsIInv, NEW u \in Users,
         \/ \E s \in UserSpecs : DryRun(u, s)
         \/ \E pw \in Secrets : Login(u, pw)
  PROVE  AccountsIInv'
<1>1. Content(Clone(HEAD)) = commits[HEAD] /\ \A t, kept : Written(Clone(HEAD), t, kept) = kept
  BY HeadIs, CloneIs DEF AccountsIInv
<1>2. cache' = Loaded(HEAD) /\ UNCHANGED <<commits, page>>
  BY <1>1 DEF DryRun, Login
<1>3. Revs' = Revs /\ HistoryInv' /\ CacheInv'
  BY <1>2, ReadStep
<1>4. PageInv'
  BY <1>2, <1>3, PagesStay DEF AccountsIInv
<1>5. CASE \E s \in UserSpecs : DryRun(u, s)
  <2>1. UNCHANGED asked
    BY <1>5 DEF DryRun
  <2> QED BY <1>2, <1>3, <1>4, <2>1 DEF AccountsIInv, AskedInv, LoginByHead, HEAD
<1>6. CASE \E pw \in Secrets : Login(u, pw)
  <2>1. PICK pw \in Secrets : Login(u, pw)
    BY <1>6
  <2>2. /\ asked'.user = u /\ asked'.pw = pw
        /\ asked'.ok = (commits[HEAD][u] # Nobody /\ commits[HEAD][u].hash = pw)
    BY <1>1, <2>1 DEF Login, Request
  <2> QED BY <1>2, <1>3, <1>4, <2>2 DEF AccountsIInv, AskedInv, LoginByHead, HEAD
<1> QED BY <1>5, <1>6

-----------------------------------------------------------------------------
(* The theorems *)

\* One commit with an administrator, nothing kept, no page.
LEMMA InitAccountsIInv ==
  ASSUME AccountsAssumption, AccountsInit
  PROVE  AccountsIInv
<1>1. PICK t \in Trees : AdminIn(t) /\ commits = <<t>>
  BY DEF AccountsInit, Trees
<1>2. /\ commits \in Seq(Trees) /\ Len(commits) = 1 /\ commits[1] = t /\ Revs = {1}
      /\ cache \in Seq({Nobody} \cup Trees) /\ Len(cache) = 1 /\ cache[1] = Nobody
  BY <1>1 DEF AccountsInit, Revs
<1>3. HistoryInv /\ CacheInv
  BY <1>1, <1>2 DEF HistoryInv, CacheInv, AccountsAssumption
<1>4. PageInv /\ AskedInv
  BY DEF AccountsInit, PageInv, AskedInv, LoginByHead, Request
<1> QED BY <1>3, <1>4 DEF AccountsIInv

\* Every step keeps the invariant, and changes no password unasked.
LEMMA StepAccountsIInv ==
  ASSUME AccountsAssumption, AccountsIInv, [AccountsNext]_accountsVars
  PROVE  AccountsIInv' /\ KeepsPasswords
<1>1. ASSUME UNCHANGED commits PROVE KeepsPasswords
  BY <1>1 DEF KeepsPasswords
<1>2. ASSUME asked'.op \notin {"put", "delete"} PROVE KeepsPasswords
  BY <1>2 DEF KeepsPasswords
<1>3. ASSUME NEW u \in Users, NEW pw, asked'.user = u, asked'.pw = pw, Changed(u, pw)
      PROVE  KeepsPasswords
  <2> SUFFICES ASSUME commits' # commits, NEW v \in Users \ {x \in {u} : pw # Blank},
                      commits'[Len(commits')][v] # Nobody
               PROVE  /\ commits[HEAD][v] # Nobody
                      /\ commits'[Len(commits')][v].hash = commits[HEAD][v].hash
    BY <1>3 DEF KeepsPasswords
  <2>1. CASE v # u
    BY <1>3, <2>1 DEF Changed
  <2>2. CASE v = u
    BY <1>3, <2>2 DEF Changed
  <2> QED BY <2>1, <2>2
<1>4. ASSUME NEW r \in Readers, GetConfig(r) \/ Strip(r) \/ Send(r)
      PROVE  AccountsIInv' /\ KeepsPasswords
  BY <1>1, <1>4, PageSteps DEF GetConfig, Strip, Send
<1>5. ASSUME NEW u \in Users, DeleteUser(u)
      PROVE  AccountsIInv' /\ KeepsPasswords
  BY <1>3, <1>5, DeleteUserStep
<1>6. ASSUME NEW u \in Users, NEW role \in UserRoles, NEW pw \in Secrets \cup {Blank}, PutUser(u, role, pw)
      PROVE  AccountsIInv' /\ KeepsPasswords
  BY <1>3, <1>6, PutUserStep
<1>7. ASSUME NEW u \in Users,
             \/ \E s \in UserSpecs : DryRun(u, s)
             \/ \E pw \in Secrets : Login(u, pw)
      PROVE  AccountsIInv' /\ KeepsPasswords
  BY <1>1, <1>7, LookStep DEF DryRun, Login
<1>8. ASSUME NEW them \in Trees, Import(them)
      PROVE  AccountsIInv' /\ KeepsPasswords
  BY <1>2, <1>8, ImportStep
<1>9. ASSUME NEW k \in Revs, Revert(k)
      PROVE  AccountsIInv' /\ KeepsPasswords
  BY <1>2, <1>9, RevertStep
<1>10. CASE UNCHANGED accountsVars
  <2>1. UNCHANGED <<commits, cache, page, asked>> /\ Revs' = Revs
    BY <1>10 DEF accountsVars, Revs
  <2>2. HistoryInv' /\ CacheInv' /\ PageInv'
    BY <2>1, ReadStep, PagesStay DEF AccountsIInv
  <2> QED BY <1>1, <2>1, <2>2 DEF AccountsIInv, AskedInv, LoginByHead, HEAD
<1> QED BY <1>4, <1>5, <1>6, <1>7, <1>8, <1>9, <1>10 DEF AccountsNext, Trees

\* The inductive invariant: the history has administrators, what is kept is what
\* was committed, pages are what they say, logins were decided by HEAD.
THEOREM AccountsInvariant ==
  ASSUME AccountsAssumption
  PROVE  AccountsSpec => []AccountsIInv
<1>1. AccountsInit => AccountsIInv
  BY InitAccountsIInv
<1>2. AccountsIInv /\ [AccountsNext]_accountsVars => AccountsIInv'
  BY StepAccountsIInv
<1> QED BY <1>1, <1>2, PTL DEF AccountsSpec

\* Every reachable state is well typed.
THEOREM AccountsTypeCorrect ==
  ASSUME AccountsAssumption
  PROVE  AccountsSpec => []AccountsTypeOK
<1>1. AccountsIInv => AccountsTypeOK
  <2> SUFFICES ASSUME AccountsIInv PROVE AccountsTypeOK
    OBVIOUS
  <2>1. \A k \in Revs : cache[k] = Nobody \/ cache[k] \in [Users -> MaybeUser]
    <3>1. \A k \in Revs : commits[k] \in Trees /\ cache[k] \in {Nobody, commits[k]}
      BY DEF AccountsIInv, HistoryInv, CacheInv, Revs
    <3> QED BY <3>1, RedactedType
  <2> QED BY <2>1 DEF AccountsIInv, HistoryInv, CacheInv, PageInv, AskedInv, AccountsTypeOK, Trees, Page, HEAD
<1> QED BY <1>1, AccountsInvariant, PTL

\* HEAD keeps an administrator with a password, a login goes by the password of
\* HEAD, a page is the revision it names without its hashes, and a change without
\* a password changes none, whatever is tried out and served at the same time
\* (config.go putUser, config, importConfig; auth.go Login; store.go Read).
THEOREM AccountsAlwaysKept ==
  ASSUME AccountsAssumption
  PROVE  AccountsSpec => AccountsKept
<1>1. AccountsIInv => AdminStays /\ LoginByHead /\ PageIsRevision
  <2> SUFFICES ASSUME AccountsIInv PROVE AdminStays /\ LoginByHead /\ PageIsRevision
    OBVIOUS
  <2>1. ASSUME NEW r \in Readers, page[r] # Nobody, page[r].stripped
        PROVE  Content(page[r].tree) = Redacted(commits[page[r].rev])
    BY <2>1 DEF AccountsIInv, PageInv, Page, Content
  <2> QED BY <2>1, AdminHasPassword DEF AccountsIInv, AskedInv, PageIsRevision
<1>2. AccountsIInv /\ [AccountsNext]_accountsVars => [KeepsPasswords]_accountsVars
  BY StepAccountsIInv
<1> QED BY <1>1, <1>2, AccountsInvariant, PTL DEF AccountsSpec, AccountsKept, PasswordsStay

-----------------------------------------------------------------------------
(* AuditLog: the inductive invariant *)

\* A handler that records has entries to record.
OwedFits ==
  \A h \in Handlers :
    /\ pc[h] = "record" => owed[h] \in 1..2
    /\ about[h] <= head

\* The calls of Record are numbered, and a daemon that is down made none of
\* its next life.
CallsNumbered ==
  /\ seq <= Len(made)
  /\ \A i \in 1..Len(file) :
        /\ file[i].body.seq <= file[i].nth /\ file[i].nth <= Len(made)
  /\ \A k \in 1..Len(made) : made[k].life <= life /\ (~up => made[k].life < life)

\* The next number is larger than that of the last line.
SeqAhead == up => \A i \in 1..Len(file) : file[i].body.seq <= seq

\* A hash is longer than that of the line before, by at least one entry when
\* calls of the same life are missing between the two.
GapsLengthen ==
  \A i \in 1..Len(file) - 1 : \A k \in file[i].nth + 1 .. file[i + 1].nth - 1 :
    made[k].life >= made[file[i + 1].nth].life => Len(file[i + 1].prev) > Len(file[i].hash)

LastLonger ==
  up /\ file # <<>> =>
    LET line == file[Len(file)]
    IN  /\ Len(last) >= Len(line.hash)
        /\ \A k \in line.nth + 1 .. Len(made) :
             made[k].life >= life => Len(last) > Len(line.hash)

\* A line without its end is a line.
CutLine == cut => file # <<>>

\* Without failures the file is the chain that the daemon continues.
Unfailing ==
  faults = 0 => Verify /\ ~cut /\ (up => last = PrevHash(Len(file) + 1))

\* Line i is the entry of a handler about commit c.
Entry(i, c) == file[i].body.commit = c /\ file[i].body.actor = "handler"
NoEntry(c) == \A i \in 1..Len(file) : ~Entry(i, c)
OneEntry(c) ==
  \E i \in 1..Len(file) : Entry(i, c) /\ \A j \in 1..Len(file) : Entry(j, c) => j = i

\* Handlers are about commits of their own.
OwnCommits ==
  \A g, h \in Handlers : about[g] # 0 /\ about[g] = about[h] => g = h

\* Without failures a commit has an entry once its handler has recorded it.
Audited ==
  faults = 0 =>
    /\ \A i \in 1..Len(file) : file[i].body.commit <= head
    /\ \A h \in Handlers, c \in 1..head : about[h] = c =>
         /\ pc[h] = "record" => owed[h] = 1 /\ NoEntry(c)
         /\ pc[h] = "wait" => OneEntry(c)
    /\ \A c \in answered : OneEntry(c)

Refs == attempt <= head /\ result <= head

AuditIInv ==
  /\ AuditTypeOK /\ OwedFits /\ CallsNumbered /\ SeqAhead /\ SeqGrows
  /\ CutLine /\ GapsLengthen /\ LastLonger /\ Unfailing /\ OwnCommits /\ Refs /\ Audited

-----------------------------------------------------------------------------
(* What the steps do to the file *)

\* The same line, whether its end is readable or not.
Same(l, m) == l.body = m.body /\ l.prev = m.prev /\ l.hash = m.hash /\ l.nth = m.nth

\* The lines of the file after a step are those before it, as far as they go.
LinesKept(n) == \A i \in 1..n : i <= Len(file) /\ Same(file'[i], file[i])

\* A sequence that has elements is not empty.
LEMMA Longer ==
  ASSUME NEW S, NEW s \in Seq(S)
  PROVE  s # <<>> <=> Len(s) > 0
OBVIOUS

\* An element of a sequence is of the set it is a sequence over.
LEMMA ElementOf ==
  ASSUME NEW S, NEW s \in Seq(S), NEW k \in 1..Len(s)
  PROVE  s[k] \in S
OBVIOUS

\* What the type invariant says of the lines and of the calls.
LEMMA LineTypes ==
  ASSUME AuditAssumption, AuditTypeOK
  PROVE  /\ \A i \in 1..Len(file) :
              /\ file[i].body.seq \in 1..MaxEntries /\ file[i].nth \in 1..MaxEntries
              /\ file[i].prev \in Seq(Bodies) /\ file[i].hash \in Seq(Bodies)
         /\ \A k \in 1..Len(made) : made[k].life \in 0..MaxRestarts
         /\ Len(file) \in Nat /\ Len(made) \in Nat /\ seq \in Nat /\ life \in Nat
         /\ MaxEntries \in Nat /\ MaxRestarts \in Nat /\ last \in Seq(Bodies)
         /\ file # <<>> => Len(file) \in 1..Len(file)
<1>1. file \in Seq(Lines) /\ made \in Seq([body : Bodies, life : 0..MaxRestarts, stored : BOOLEAN])
  BY DEF AuditTypeOK
<1>2. \A i \in 1..Len(file) : file[i] \in Lines
  BY <1>1
<1>3. \A k \in 1..Len(made) : made[k].life \in 0..MaxRestarts
  <2>1. \A k \in 1..Len(made) : made[k] \in [body : Bodies, life : 0..MaxRestarts, stored : BOOLEAN]
    BY <1>1, ElementOf
  <2>2. \A m \in [body : Bodies, life : 0..MaxRestarts, stored : BOOLEAN] : m.life \in 0..MaxRestarts
    OBVIOUS
  <2> QED BY <2>1, <2>2
<1>4. file # <<>> => Len(file) \in 1..Len(file)
  BY <1>1, Longer
<1>5. Len(file) \in Nat /\ Len(made) \in Nat
  BY <1>1
<1>6. /\ seq \in Nat /\ life \in Nat /\ last \in Seq(Bodies)
      /\ MaxEntries \in Nat /\ MaxRestarts \in Nat
  BY DEF AuditTypeOK, AuditAssumption, Hashes
<1>7. \A l \in Lines : l.body.seq \in 1..MaxEntries /\ l.nth \in 1..MaxEntries
                       /\ l.prev \in Seq(Bodies) /\ l.hash \in Seq(Bodies)
  BY DEF Lines, Bodies, Hashes
<1> QED BY <1>2, <1>3, <1>4, <1>5, <1>6, <1>7

\* A line whose text is damaged is a line still, the same but for that.
LEMMA DamagedLine ==
  ASSUME NEW s \in Seq(Lines), NEW n \in 1..Len(s)
  PROVE  LET t == [s EXCEPT ![n].whole = FALSE]
         IN  /\ t \in Seq(Lines) /\ Len(t) = Len(s)
             /\ \A i \in 1..Len(s) : Same(t[i], s[i])
<1> DEFINE t == [s EXCEPT ![n].whole = FALSE]
<1>1. s[n] \in Lines
  OBVIOUS
<1>2. [s[n] EXCEPT !.whole = FALSE] \in Lines
  BY <1>1 DEF Lines
<1>3. t = [s EXCEPT ![n] = [s[n] EXCEPT !.whole = FALSE]]
  OBVIOUS
<1>4. t \in Seq(Lines) /\ Len(t) = Len(s)
  BY <1>2, <1>3
<1>5. Same([s[n] EXCEPT !.whole = FALSE], s[n])
  BY <1>1 DEF Lines, Same
<1>6. \A i \in 1..Len(s) : t[i] = IF i = n THEN [s[n] EXCEPT !.whole = FALSE] ELSE s[i]
  BY <1>3
<1>7. \A i \in 1..Len(s) : Same(t[i], s[i])
  BY <1>5, <1>6 DEF Same
<1> QED BY <1>4, <1>7

\* What an append does to the lines of the file, whatever becomes of it.
LEMMA AppendEffect ==
  ASSUME AuditTypeOK, NEW line \in Lines, NEW outcome \in {"stored", "lost", "torn", "no-end"},
         cut => file # <<>>, Appended(line, outcome)
  PROVE  /\ file' \in Seq(Lines) /\ cut' \in BOOLEAN /\ LinesKept(Len(file))
         /\ \/ Len(file') = Len(file)
            \/ Len(file') = Len(file) + 1 /\ Same(file'[Len(file')], line)
         /\ cut' => file' # <<>>
         /\ outcome = "stored" /\ ~cut => file' = Append(file, line) /\ ~cut'
<1> USE DEF AuditTypeOK
<1>1. \A l : l \in Lines =>
        /\ AppendText(l) \in Seq(Lines) /\ AppendText(l) # <<>>
        /\ \A i \in 1..Len(file) : Same(AppendText(l)[i], file[i])
        /\ \/ Len(AppendText(l)) = Len(file)
           \/ Len(AppendText(l)) = Len(file) + 1 /\ AppendText(l)[Len(file) + 1] = l
  <2> SUFFICES ASSUME NEW l \in Lines
               PROVE  /\ AppendText(l) \in Seq(Lines) /\ AppendText(l) # <<>>
                      /\ \A i \in 1..Len(file) : Same(AppendText(l)[i], file[i])
                      /\ \/ Len(AppendText(l)) = Len(file)
                         \/ Len(AppendText(l)) = Len(file) + 1 /\ AppendText(l)[Len(file) + 1] = l
    OBVIOUS
  <2>1. CASE cut
    <3>1. Len(file) \in 1..Len(file)
      BY <2>1
    <3>2. AppendText(l) = [file EXCEPT ![Len(file)].whole = FALSE]
      BY <2>1 DEF AppendText
    <3>3. file \in Seq(Lines)
      OBVIOUS
    <3>4. /\ AppendText(l) \in Seq(Lines) /\ Len(AppendText(l)) = Len(file)
          /\ \A i \in 1..Len(file) : Same(AppendText(l)[i], file[i])
      <4> HIDE DEF AuditTypeOK
      <4> QED BY <3>1, <3>2, <3>3, DamagedLine
    <3>5. AppendText(l) # <<>>
      BY <3>1, <3>4
    <3> QED BY <3>4, <3>5
  <2>2. CASE ~cut
    <3>1. AppendText(l) = Append(file, l)
      BY <2>2 DEF AppendText
    <3>2. Append(file, l) \in Seq(Lines) /\ Len(Append(file, l)) = Len(file) + 1
      OBVIOUS
    <3>3. /\ \A i \in 1..Len(file) : Append(file, l)[i] = file[i]
          /\ Append(file, l)[Len(file) + 1] = l
      OBVIOUS
    <3>4. \A i \in 1..Len(file) : Same(Append(file, l)[i], file[i])
      BY <3>3 DEF Same
    <3>5. Append(file, l) # <<>>
      <4>1. Len(Append(file, l)) > 0
        BY <3>2, Len(file) \in Nat
      <4> QED BY <3>2, <4>1, Longer
    <3> QED BY <3>1, <3>2, <3>3, <3>4, <3>5
  <2> QED BY <2>1, <2>2
<1>2. [line EXCEPT !.whole = FALSE] \in Lines /\ Same([line EXCEPT !.whole = FALSE], line)
  BY DEF Lines, Same
<1> DEFINE Effect(l) ==
      /\ file' \in Seq(Lines) /\ LinesKept(Len(file))
      /\ Len(file') = Len(file) \/ (Len(file') = Len(file) + 1 /\ Same(file'[Len(file')], l))
      /\ file' # <<>>
<1>3. ASSUME NEW l \in Lines, Same(l, line), file' = AppendText(l) PROVE Effect(line)
  <2>1. /\ file' \in Seq(Lines) /\ file' # <<>> /\ \A i \in 1..Len(file) : Same(file'[i], file[i])
        /\ \/ Len(file') = Len(file)
           \/ Len(file') = Len(file) + 1 /\ file'[Len(file) + 1] = l
    BY <1>1, <1>3
  <2>2. LinesKept(Len(file))
    BY <2>1 DEF LinesKept
  <2> QED BY <1>3, <2>1, <2>2
<1>4. Same(line, line)
  BY DEF Same
<1>5. CASE outcome = "stored"
  <2>1. file' = AppendText(line) /\ cut' = FALSE
    BY <1>5 DEF Appended
  <2>2. ~cut => file' = Append(file, line)
    BY <2>1 DEF AppendText
  <2>3. Effect(line)
    BY <1>3, <1>4, <2>1
  <2> QED BY <2>1, <2>2, <2>3
<1>6. CASE outcome = "lost"
  <2>1. file' = file /\ cut' = cut
    BY <1>6 DEF Appended
  <2> QED BY <1>6, <2>1 DEF LinesKept, Same
<1>7. CASE outcome = "torn"
  <2>1. file' = AppendText([line EXCEPT !.whole = FALSE]) /\ cut' = TRUE
    BY <1>7 DEF Appended
  <2>2. Effect(line)
    BY <1>2, <1>3, <2>1
  <2> QED BY <1>7, <2>1, <2>2
<1>8. CASE outcome = "no-end"
  <2>1. file' = AppendText(line) /\ cut' = TRUE
    BY <1>8 DEF Appended
  <2>2. Effect(line)
    BY <1>3, <1>4, <2>1
  <2> QED BY <1>8, <2>1, <2>2
<1> QED BY <1>5, <1>6, <1>7, <1>8

\* What a call of Record does.
NewLine(l, body) == l.body = body /\ l.prev = last /\ l.hash = last' /\ l.nth = Len(made) + 1

\* Whatever becomes of the write, one call adds one entry to what was made and
\* lengthens the hash by it; the file grows by that line, half of it, or nothing.
LEMMA RecordEffect ==
  ASSUME AuditAssumption, AuditTypeOK, CutLine, seq <= Len(made),
         NEW actor \in Actors, NEW commit \in 0..MaxCommits, Record(actor, commit)
  PROVE  LET body == [seq |-> seq + 1, actor |-> actor, commit |-> commit]
         IN  /\ last' = Append(last, body) /\ seq' = seq + 1 /\ body \in Bodies
             /\ made' \in Seq([body : Bodies, life : 0..MaxRestarts, stored : BOOLEAN])
             /\ Len(made') = Len(made) + 1 /\ Len(made') <= MaxEntries
             /\ \A k \in 1..Len(made) : made'[k] = made[k]
             /\ made'[Len(made) + 1].life = life
             /\ file' \in Seq(Lines) /\ cut' \in BOOLEAN /\ LinesKept(Len(file)) /\ CutLine'
             /\ \/ Len(file') = Len(file)
                \/ Len(file') = Len(file) + 1 /\ NewLine(file'[Len(file')], body)
             /\ faults' \in 0..MaxFaults
             /\ faults' = 0 /\ ~cut =>
                  /\ faults = 0 /\ ~cut'
                  /\ \E line \in Lines : file' = Append(file, line) /\ NewLine(line, body) /\ line.whole
<1> DEFINE body == [seq |-> seq + 1, actor |-> actor, commit |-> commit]
           hash == Append(last, body)
           line == [body |-> body, prev |-> last, hash |-> hash, whole |-> TRUE, nth |-> Len(made) + 1]
<1> USE DEF AuditTypeOK, AuditAssumption
<1>1. PICK outcome \in {"stored", "lost", "torn", "no-end"} :
        /\ Len(made) < MaxEntries /\ seq' = seq + 1
        /\ \/ outcome = "stored" /\ faults' = faults
           \/ outcome # "stored" /\ faults < MaxFaults /\ faults' = faults + 1
        /\ Appended(line, outcome)
        /\ last' = hash
        /\ made' = Append(made, [body |-> body, life |-> life,
                                 stored |-> outcome \in {"stored", "no-end"} /\ ~cut])
  BY DEF Record, Digest, Advance
<1>2. body \in Bodies /\ Len(made) + 1 \in 1..MaxEntries
  BY <1>1 DEF Bodies
<1>3. hash \in Hashes /\ last \in Hashes
  BY <1>2 DEF Hashes
<1>4. line \in Lines
  BY <1>2, <1>3 DEF Lines
<1>5. NewLine(line, body)
  BY <1>1 DEF NewLine
<1>6. /\ file' \in Seq(Lines) /\ cut' \in BOOLEAN /\ LinesKept(Len(file)) /\ (cut' => file' # <<>>)
      /\ \/ Len(file') = Len(file)
         \/ Len(file') = Len(file) + 1 /\ Same(file'[Len(file')], line)
      /\ outcome = "stored" /\ ~cut => file' = Append(file, line) /\ ~cut'
  BY <1>1, <1>4, AppendEffect DEF CutLine
<1>7. Same(file'[Len(file')], line) => NewLine(file'[Len(file')], body)
  BY <1>5 DEF Same, NewLine
<1>8. [body |-> body, life |-> life, stored |-> outcome \in {"stored", "no-end"} /\ ~cut]
        \in [body : Bodies, life : 0..MaxRestarts, stored : BOOLEAN]
  BY <1>2
<1>9. /\ made' \in Seq([body : Bodies, life : 0..MaxRestarts, stored : BOOLEAN])
      /\ Len(made') = Len(made) + 1
      /\ \A k \in 1..Len(made) : made'[k] = made[k]
      /\ made'[Len(made) + 1].life = life
  BY <1>1, <1>8
<1>10. faults' \in 0..MaxFaults /\ (faults' = 0 => faults = 0 /\ outcome = "stored")
  BY <1>1
<1>11. CutLine'
  BY <1>6 DEF CutLine
<1> QED BY <1>1, <1>2, <1>4, <1>5, <1>6, <1>7, <1>9, <1>10, <1>11

\* What a power cut does to the file.
LEMMA PowerCutEffect ==
  ASSUME AuditAssumption, AuditTypeOK, CutLine, PowerCut
  PROVE  /\ file' \in Seq(Lines) /\ cut' \in BOOLEAN /\ CutLine'
         /\ Len(file') <= Len(file) /\ LinesKept(Len(file'))
         /\ faults' = faults + 1 /\ faults' \in 0..MaxFaults
<1> USE DEF AuditTypeOK, AuditAssumption
<1>1. PICK n \in 0..Len(file) :
        \/ file' = SubSeq(file, 1, n) /\ cut' = (cut /\ n = Len(file))
        \/ n > 0 /\ file' = [SubSeq(file, 1, n) EXCEPT ![n].whole = FALSE] /\ cut' = TRUE
  BY DEF PowerCut
<1> DEFINE s == SubSeq(file, 1, n)
<1>2. s \in Seq(Lines) /\ Len(s) = n /\ \A i \in 1..n : s[i] = file[i]
  OBVIOUS
<1>3. \A i \in 1..n : Same(s[i], file[i])
  BY <1>2 DEF Same
<1>4. faults' = faults + 1 /\ faults' \in 0..MaxFaults
  BY DEF PowerCut
<1>5. CASE file' = s /\ cut' = (cut /\ n = Len(file))
  <2>1. file' \in Seq(Lines) /\ Len(file') = n
    BY <1>2, <1>5
  <2>2. LinesKept(n)
    BY <1>3, <1>5 DEF LinesKept
  <2>3. cut' \in BOOLEAN
    BY <1>5
  <2>4. CutLine'
    BY <1>5, <2>1, Longer DEF CutLine
  <2> QED BY <1>4, <2>1, <2>2, <2>3, <2>4
<1>6. CASE n > 0 /\ file' = [s EXCEPT ![n].whole = FALSE] /\ cut' = TRUE
  <2>1. n \in 1..Len(s)
    BY <1>2, <1>6
  <2>2. file' \in Seq(Lines) /\ Len(file') = n /\ \A i \in 1..n : Same(file'[i], s[i])
    <3> HIDE DEF s
    <3> QED BY <1>2, <1>6, <2>1, DamagedLine
  <2>3. LinesKept(n)
    <3> SUFFICES ASSUME NEW i \in 1..n PROVE i <= Len(file) /\ Same(file'[i], file[i])
      BY DEF LinesKept
    <3>1. s[i] = file[i] /\ Same(file'[i], s[i])
      BY <1>2, <2>2
    <3> HIDE DEF s
    <3> QED BY <3>1
  <2>4. CutLine'
    BY <1>6, <2>2, Longer DEF CutLine
  <2>5. cut' \in BOOLEAN
    BY <1>6
  <2> QED BY <1>4, <2>2, <2>3, <2>4, <2>5
<1> QED BY <1>1, <1>5, <1>6

\* A step records, ends or starts a life of the daemon, or leaves the log alone.
Recording ==
  /\ up /\ UNCHANGED <<up, life, head>>
  /\ \E actor \in Actors, commit \in 0..MaxCommits : Record(actor, commit)

\* All a step can do to the log is one of four things.
LEMMA LogCases ==
  ASSUME AuditAssumption, AuditTypeOK, [AuditNext]_auditVars
  PROVE  \/ UNCHANGED <<log, up, life, faults>>
         \/ Recording \/ Kill \/ PowerCut \/ Open
<1> USE DEF auditVars, AuditTypeOK, AuditAssumption
<1>1. ASSUME NEW h \in Handlers, RecordCall(h) PROVE Recording
  BY <1>1 DEF RecordCall, Recording, Actors
<1>2. CASE OnResult
  BY <1>2 DEF OnResult, Recording, Actors
<1>3. ASSUME NEW h \in Handlers, Commit(h) \/ Call(h) \/ Respond(h)
      PROVE  UNCHANGED <<log, up, life, faults>>
  BY <1>3 DEF Commit, Call, Respond
<1>4. CASE Attempt
  BY <1>4 DEF Attempt
<1> QED BY <1>1, <1>2, <1>3, <1>4 DEF AuditNext

-----------------------------------------------------------------------------
(* The invariant, part by part *)

\* The log keeps to its types.
LogTypes ==
  /\ up \in BOOLEAN /\ last \in Hashes /\ seq \in 0..MaxEntries
  /\ file \in Seq(Lines) /\ cut \in BOOLEAN
  /\ made \in Seq([body : Bodies, life : 0..MaxRestarts, stored : BOOLEAN])
  /\ life \in 0..MaxRestarts /\ faults \in 0..MaxFaults
  /\ CutLine

\* Every step leaves file, memory and counters well typed.
LEMMA LogTypesStep ==
  ASSUME AuditAssumption, AuditTypeOK, CutLine, CallsNumbered, [AuditNext]_auditVars
  PROVE  LogTypes'
<1> USE DEF LogTypes, log
<1>1. seq <= Len(made)
  BY DEF CallsNumbered
<1>2. CASE UNCHANGED <<log, up, life, faults>>
  BY <1>2 DEF AuditTypeOK, CutLine
<1>3. CASE Recording
  <2>1. PICK actor \in Actors, commit \in 0..MaxCommits : Record(actor, commit)
    BY <1>3 DEF Recording
  <2> DEFINE body == [seq |-> seq + 1, actor |-> actor, commit |-> commit]
  <2>6. body \in Bodies /\ last' = Append(last, body) /\ seq' = seq + 1
    BY <1>1, <2>1, RecordEffect
  <2>2. last' \in Hashes
    <3> HIDE DEF body
    <3> QED BY <2>6, LineTypes DEF Hashes
  <2>3. seq' \in 0..MaxEntries
    BY <2>6, LineTypes DEF Bodies
  <2>4. /\ made' \in Seq([body : Bodies, life : 0..MaxRestarts, stored : BOOLEAN])
        /\ file' \in Seq(Lines) /\ cut' \in BOOLEAN /\ CutLine' /\ faults' \in 0..MaxFaults
    BY <1>1, <2>1, RecordEffect
  <2>5. up' \in BOOLEAN /\ life' \in 0..MaxRestarts
    BY <1>3 DEF Recording, AuditTypeOK
  <2> QED BY <2>2, <2>3, <2>4, <2>5
<1>4. ASSUME Down PROVE /\ up' \in BOOLEAN /\ last' \in Hashes /\ seq' \in 0..MaxEntries
                        /\ made' = made /\ life' \in 0..MaxRestarts
  <2>1. last' = <<>> /\ <<>> \in Hashes /\ seq' = 0 /\ up' = FALSE /\ made' = made
    BY <1>4 DEF Down, Hashes
  <2>2. life' \in 0..MaxRestarts
    BY <1>4, LineTypes DEF Down
  <2>3. up' \in BOOLEAN
    BY <2>1
  <2>4. seq' \in 0..MaxEntries
    BY <2>1, LineTypes
  <2> QED BY <2>1, <2>2, <2>3, <2>4
<1>5. CASE Kill
  BY <1>4, <1>5 DEF Kill, AuditTypeOK, CutLine
<1>6. CASE PowerCut
  BY <1>4, <1>6, PowerCutEffect DEF PowerCut, AuditTypeOK
<1>7. CASE Open
  <2>1. last' \in Hashes
    <3>1. <<>> \in Hashes /\ last' = PrevHash(Len(file) + 1)
      BY <1>7 DEF Open, LastHash, Hashes
    <3>2. Len(file) + 1 # 1 => Len(file) \in 1..Len(file) /\ Len(file) + 1 - 1 = Len(file)
      BY LineTypes
    <3> QED BY <3>1, <3>2, LineTypes DEF PrevHash, Hashes
  <2>2. seq' \in 0..MaxEntries
    <3>1. file # <<>> => file[Len(file)].body.seq \in 1..MaxEntries
      BY LineTypes
    <3> QED BY <1>7, <3>1, LineTypes DEF Open, LastSeq
  <2>3. up' = TRUE /\ UNCHANGED <<file, cut, made, life, faults>>
    BY <1>7 DEF Open
  <2> QED BY <2>1, <2>2, <2>3 DEF AuditTypeOK, CutLine
<1> QED BY <1>2, <1>3, <1>5, <1>6, <1>7, LogCases

\* The calls stay numbered.
LEMMA NumberedStep ==
  ASSUME AuditAssumption, AuditTypeOK, CutLine, CallsNumbered, [AuditNext]_auditVars
  PROVE  CallsNumbered'
<1> USE DEF CallsNumbered
<1>1. CASE UNCHANGED <<log, up, life, faults>>
  BY <1>1 DEF log
<1>2. CASE Recording
  <2>1. PICK actor \in Actors, commit \in 0..MaxCommits : Record(actor, commit)
    BY <1>2 DEF Recording
  <2> DEFINE body == [seq |-> seq + 1, actor |-> actor, commit |-> commit]
  <2>2. /\ seq' = seq + 1 /\ Len(made') = Len(made) + 1
        /\ \A k \in 1..Len(made) : made'[k] = made[k]
        /\ made'[Len(made) + 1].life = life
        /\ LinesKept(Len(file))
        /\ \/ Len(file') = Len(file)
           \/ Len(file') = Len(file) + 1 /\ NewLine(file'[Len(file')], body)
    BY <2>1, RecordEffect
  <2>3. \A i \in 1..Len(file') : file'[i].body.seq <= file'[i].nth /\ file'[i].nth <= Len(made')
    <3>1. ASSUME NEW i \in 1..Len(file)
          PROVE  file'[i].body.seq <= file'[i].nth /\ file'[i].nth <= Len(made')
      <4>1. file[i].body.seq <= file[i].nth /\ file[i].nth <= Len(made)
        OBVIOUS
      <4>2. file'[i].body = file[i].body /\ file'[i].nth = file[i].nth
        BY <2>2 DEF LinesKept, Same
      <4>3. Len(made') = Len(made) + 1 /\ Len(made) \in Nat /\ file[i].nth \in Nat
        BY <2>2, LineTypes
      <4> QED BY <4>1, <4>2, <4>3
    <3>2. ASSUME NewLine(file'[Len(file')], body)
          PROVE  file'[Len(file')].body.seq <= file'[Len(file')].nth /\ file'[Len(file')].nth <= Len(made')
      BY <2>2, <3>2 DEF NewLine, AuditTypeOK
    <3> QED BY <2>2, <3>1, <3>2 DEF AuditTypeOK
  <2>4. life' = life /\ up' /\ UNCHANGED up
    BY <1>2 DEF Recording
  <2>5. \A k \in 1..Len(made') : made'[k].life <= life' /\ (~up' => made'[k].life < life')
    <3>1. \A k \in 1..Len(made') : k \in 1..Len(made) \/ k = Len(made) + 1
      BY <2>2, LineTypes
    <3>2. \A k \in 1..Len(made') : made'[k].life <= life
      BY <2>2, <3>1, LineTypes
    <3> QED BY <2>4, <3>2
  <2> QED BY <2>2, <2>3, <2>5, LineTypes
<1>3. ASSUME Down
      PROVE  /\ seq' <= Len(made') /\ made' = made
             /\ \A k \in 1..Len(made') : made'[k].life <= life' /\ (~up' => made'[k].life < life')
  <2>1. \A k \in 1..Len(made) : made[k].life \in Nat /\ made[k].life <= life
    BY LineTypes
  <2> QED BY <1>3, <2>1, LineTypes DEF Down
<1>4. CASE Kill
  BY <1>3, <1>4 DEF Kill
<1>5. CASE PowerCut
  <2>1. Len(file') <= Len(file) /\ LinesKept(Len(file')) /\ Down
    BY <1>5, PowerCutEffect DEF PowerCut
  <2>2. \A i \in 1..Len(file') : file'[i].body.seq <= file'[i].nth /\ file'[i].nth <= Len(made')
    <3> SUFFICES ASSUME NEW i \in 1..Len(file')
                 PROVE  file'[i].body.seq <= file'[i].nth /\ file'[i].nth <= Len(made')
      OBVIOUS
    <3>1. i \in 1..Len(file) /\ Same(file'[i], file[i])
      BY <2>1, LineTypes DEF LinesKept
    <3>2. Len(made') = Len(made)
      BY <1>3, <2>1
    <3> QED BY <3>1, <3>2 DEF Same
  <2> QED BY <1>3, <2>1, <2>2
<1>6. CASE Open
  <2>1. file # <<>> => file[Len(file)].body.seq <= Len(made)
    <3> SUFFICES ASSUME file # <<>> PROVE file[Len(file)].body.seq <= Len(made)
      OBVIOUS
    <3>1. Len(file) \in 1..Len(file)
      BY LineTypes
    <3> QED BY <3>1, LineTypes
  <2>2. seq' <= Len(made)
    BY <1>6, <2>1 DEF Open, LastSeq, AuditTypeOK
  <2>3. up' /\ UNCHANGED <<file, made, life>>
    BY <1>6 DEF Open
  <2> QED BY <2>2, <2>3
<1> QED BY <1>1, <1>2, <1>4, <1>5, <1>6, LogCases

\* The sequence stays ahead of the file, so that its numbers grow.
LEMMA GrowsStep ==
  ASSUME AuditAssumption, AuditTypeOK, CutLine, CallsNumbered, SeqAhead, SeqGrows, [AuditNext]_auditVars
  PROVE  SeqAhead' /\ SeqGrows'
<1> USE DEF SeqAhead, SeqGrows
<1>1. CASE UNCHANGED <<log, up, life, faults>>
  BY <1>1 DEF log
<1>2. CASE Recording
  <2>1. PICK actor \in Actors, commit \in 0..MaxCommits : Record(actor, commit)
    BY <1>2 DEF Recording
  <2> DEFINE body == [seq |-> seq + 1, actor |-> actor, commit |-> commit]
  <2>2. /\ seq' = seq + 1 /\ LinesKept(Len(file)) /\ up
        /\ \/ Len(file') = Len(file)
           \/ Len(file') = Len(file) + 1 /\ NewLine(file'[Len(file')], body)
    BY <1>2, <2>1, RecordEffect DEF CallsNumbered, Recording
  <2>3. \A i \in 1..Len(file) : file'[i].body.seq = file[i].body.seq /\ file[i].body.seq <= seq
                                /\ file[i].body.seq \in Nat
    BY <2>2, LineTypes DEF LinesKept, Same
  <2>4. NewLine(file'[Len(file')], body) => file'[Len(file')].body.seq = seq + 1
    BY DEF NewLine
  <2>5. seq \in Nat /\ Len(file) \in Nat
    BY DEF AuditTypeOK
  <2>8. \A i \in 1..Len(file') : i \in 1..Len(file) \/ (i = Len(file) + 1 /\ Len(file') = Len(file) + 1)
    BY <2>2, <2>5
  <2>6. CASE Len(file') = Len(file)
    BY <2>2, <2>3, <2>5, <2>6
  <2>7. CASE Len(file') = Len(file) + 1 /\ NewLine(file'[Len(file')], body)
    <3>1. file'[Len(file) + 1].body.seq = seq + 1
      BY <2>4, <2>7
    <3>2. SeqAhead'
      BY <2>2, <2>3, <2>5, <2>8, <3>1
    <3>3. ASSUME NEW i \in 1..Len(file'), NEW j \in 1..Len(file'), i < j
          PROVE  file'[i].body.seq < file'[j].body.seq
      <4>1. i \in 1..Len(file)
        BY <2>5, <2>7, <3>3
      <4>2. CASE j \in 1..Len(file)
        BY <2>3, <3>3, <4>1, <4>2
      <4>3. CASE j = Len(file) + 1
        <5>1. file'[j].body.seq = seq + 1
          BY <3>1, <4>3
        <5>2. /\ file'[i].body.seq = file[i].body.seq /\ file[i].body.seq <= seq
              /\ file[i].body.seq \in Nat
          BY <2>3, <4>1
        <5> QED BY <2>5, <5>1, <5>2
      <4> QED BY <2>8, <4>2, <4>3
    <3> QED BY <3>2, <3>3
  <2> QED BY <2>2, <2>6, <2>7
<1>3. CASE Kill
  BY <1>3 DEF Kill, Down
<1>4. CASE PowerCut
  <2>1. Len(file') <= Len(file) /\ LinesKept(Len(file')) /\ ~up' /\ file' \in Seq(Lines)
    BY <1>4, PowerCutEffect DEF PowerCut, Down
  <2>2. \A i \in 1..Len(file') : i \in 1..Len(file) /\ file'[i].body.seq = file[i].body.seq
    BY <2>1 DEF LinesKept, Same, AuditTypeOK
  <2> QED BY <2>1, <2>2
<1>5. CASE Open
  <2>1. UNCHANGED file /\ seq' = LastSeq
    BY <1>5 DEF Open
  <2>2. \A i \in 1..Len(file) : file[i].body.seq <= LastSeq
    <3> SUFFICES ASSUME NEW i \in 1..Len(file) PROVE file[i].body.seq <= LastSeq
      OBVIOUS
    <3>1. file # <<>> /\ Len(file) \in 1..Len(file) /\ file[i] \in Lines
      BY Longer DEF AuditTypeOK
    <3>2. i = Len(file) \/ file[i].body.seq < file[Len(file)].body.seq
      BY <3>1
    <3>3. file[Len(file)] \in Lines
      BY <3>1 DEF AuditTypeOK
    <3> QED BY <3>1, <3>2, <3>3 DEF LastSeq, Lines, Bodies
  <2> QED BY <2>1, <2>2
<1> QED BY <1>1, <1>2, <1>3, <1>4, <1>5, LogCases

\* Gaps of one life lengthen the hash.
LEMMA GapsStep ==
  ASSUME AuditAssumption, AuditTypeOK, CutLine, CallsNumbered, GapsLengthen, LastLonger, [AuditNext]_auditVars
  PROVE  GapsLengthen' /\ LastLonger'
<1>1. CASE UNCHANGED <<log, up, life, faults>>
  BY <1>1 DEF log, GapsLengthen, LastLonger
<1>2. CASE Recording
  <2>1. PICK actor \in Actors, commit \in 0..MaxCommits : Record(actor, commit)
    BY <1>2 DEF Recording
  <2> DEFINE body == [seq |-> seq + 1, actor |-> actor, commit |-> commit]
             m == Len(file)
  <2>2. /\ last' = Append(last, body) /\ Len(made') = Len(made) + 1 /\ body \in Bodies
        /\ \A k \in 1..Len(made) : made'[k] = made[k]
        /\ made'[Len(made) + 1].life = life
        /\ LinesKept(m) /\ file' \in Seq(Lines)
        /\ Len(file') = m \/ (Len(file') = m + 1 /\ NewLine(file'[Len(file')], body))
        /\ up /\ up' = up /\ life' = life
    BY <1>2, <2>1, RecordEffect DEF CallsNumbered, Recording
  <2>3. Len(last') = Len(last) + 1 /\ Len(last) \in Nat /\ m \in Nat
    <3> HIDE DEF body
    <3> QED BY <2>2, LineTypes
  <2>4. \A i \in 1..m :
          /\ file'[i].nth = file[i].nth /\ file'[i].prev = file[i].prev /\ file'[i].hash = file[i].hash
          /\ file[i].nth \in 1..Len(made) /\ Len(file[i].hash) \in Nat /\ Len(file[i].prev) \in Nat
    <3> SUFFICES ASSUME NEW i \in 1..m
                 PROVE  /\ file'[i].nth = file[i].nth /\ file'[i].prev = file[i].prev
                        /\ file'[i].hash = file[i].hash /\ file[i].nth \in 1..Len(made)
                        /\ Len(file[i].hash) \in Nat /\ Len(file[i].prev) \in Nat
      OBVIOUS
    <3>1. Same(file'[i], file[i])
      BY <2>2 DEF LinesKept
    <3>2. file[i].nth \in 1..Len(made)
      BY LineTypes DEF CallsNumbered
    <3>3. file[i].hash \in Seq(Bodies) /\ file[i].prev \in Seq(Bodies)
      BY LineTypes
    <3>4. Len(file[i].hash) \in Nat /\ Len(file[i].prev) \in Nat
      BY <3>3
    <3> QED BY <3>1, <3>2, <3>4 DEF Same
  <2>5. m # 0 => /\ m \in 1..m /\ Len(last) >= Len(file[m].hash)
                 /\ \A k \in file[m].nth + 1 .. Len(made) :
                      made[k].life >= life => Len(last) > Len(file[m].hash)
    BY <2>2, <2>3 DEF LastLonger
  <2>6. ASSUME NEW i \in 1..m - 1, NEW k \in file[i].nth + 1 .. file[i + 1].nth - 1,
               made'[k].life >= made'[file[i + 1].nth].life
        PROVE  Len(file[i + 1].prev) > Len(file[i].hash)
    <3>1. i \in 1..m /\ i + 1 \in 1..m
      BY <2>3
    <3>2. file[i].nth \in 1..Len(made) /\ file[i + 1].nth \in 1..Len(made)
      BY <2>4, <3>1
    <3>3. k \in 1..Len(made)
      <4>1. Len(made) \in Nat
        BY LineTypes
      <4> QED BY <3>2, <4>1
    <3>4. made[k].life >= made[file[i + 1].nth].life
      BY <2>2, <2>6, <3>2, <3>3
    <3> QED BY <3>4 DEF GapsLengthen
  <2>7. CASE Len(file') = m
    <3>1. GapsLengthen'
      <4> SUFFICES ASSUME NEW i \in 1..m - 1, NEW k \in file'[i].nth + 1 .. file'[i + 1].nth - 1,
                          made'[k].life >= made'[file'[i + 1].nth].life
                   PROVE  Len(file'[i + 1].prev) > Len(file'[i].hash)
        BY <2>7 DEF GapsLengthen
      <4>1. i \in 1..m /\ i + 1 \in 1..m
        BY <2>3
      <4> QED BY <2>4, <2>6, <4>1
    <3>2. LastLonger'
      BY <2>2, <2>3, <2>4, <2>5, <2>7, Longer DEF LastLonger
    <3> QED BY <3>1, <3>2
  <2>8. CASE Len(file') = m + 1 /\ NewLine(file'[m + 1], body)
    <3>1. file'[m + 1].nth = Len(made) + 1 /\ file'[m + 1].prev = last /\ file'[m + 1].hash = last'
      BY <2>8 DEF NewLine
    <3>2. GapsLengthen'
      <4> SUFFICES ASSUME NEW i \in 1..m, NEW k \in file'[i].nth + 1 .. file'[i + 1].nth - 1,
                          made'[k].life >= made'[file'[i + 1].nth].life
                   PROVE  Len(file'[i + 1].prev) > Len(file'[i].hash)
        BY <2>3, <2>8 DEF GapsLengthen
      <4>1. CASE i \in 1..m - 1
        <5>1. i + 1 \in 1..m
          BY <2>3, <4>1
        <5> QED BY <2>4, <2>6, <4>1, <5>1
      <4>2. CASE i = m
        <5>1. m \in 1..m /\ m # 0
          BY <4>2
        <5>2. k \in file[m].nth + 1 .. Len(made) /\ made'[k].life >= life
          <6>1. Len(made) \in Nat /\ file'[m].nth = file[m].nth
            BY <2>4, <5>1, LineTypes
          <6>2. file'[i + 1].nth = Len(made) + 1 /\ made'[file'[i + 1].nth].life = life
            BY <2>2, <3>1, <4>2
          <6> QED BY <4>2, <6>1, <6>2
        <5>3. k \in 1..Len(made)
          BY <2>4, <5>1, <5>2, LineTypes
        <5>4. made[k].life >= life
          BY <2>2, <5>2, <5>3
        <5> QED BY <2>4, <2>5, <3>1, <4>2, <5>1, <5>2, <5>4
      <4> QED BY <2>3, <4>1, <4>2
    <3>3. LastLonger'
      <4>1. Len(last') >= Len(file'[Len(file')].hash)
        BY <2>3, <2>8, <3>1
      <4>2. file'[Len(file')].nth + 1 .. Len(made') = {}
        BY <2>2, <2>8, <3>1, LineTypes
      <4> QED BY <4>1, <4>2 DEF LastLonger
    <3> QED BY <3>2, <3>3
  <2> QED BY <2>2, <2>7, <2>8
<1>3. CASE Kill
  BY <1>3 DEF Kill, Down, GapsLengthen, LastLonger
<1>4. CASE PowerCut
  <2>1. /\ Len(file') <= Len(file) /\ LinesKept(Len(file')) /\ file' \in Seq(Lines)
        /\ up' = FALSE /\ made' = made
    BY <1>4, PowerCutEffect DEF PowerCut, Down
  <2>2. \A i \in 1..Len(file') :
          i \in 1..Len(file) /\ file'[i].nth = file[i].nth
          /\ file'[i].prev = file[i].prev /\ file'[i].hash = file[i].hash
    BY <2>1, LineTypes DEF LinesKept, Same
  <2>3. GapsLengthen'
    <3> SUFFICES ASSUME NEW i \in 1..Len(file') - 1, NEW k \in file'[i].nth + 1 .. file'[i + 1].nth - 1,
                        made'[k].life >= made'[file'[i + 1].nth].life
                 PROVE  Len(file'[i + 1].prev) > Len(file'[i].hash)
      BY DEF GapsLengthen
    <3>1. i \in 1..Len(file') /\ i + 1 \in 1..Len(file') /\ i \in 1..Len(file) - 1
      BY <2>1, LineTypes
    <3> QED BY <2>1, <2>2, <3>1 DEF GapsLengthen
  <2> QED BY <2>1, <2>3 DEF LastLonger
<1>5. CASE Open
  <2>1. UNCHANGED <<file, made, life>> /\ last' = PrevHash(Len(file) + 1) /\ ~up
    BY <1>5 DEF Open, LastHash
  <2>2. file # <<>> => last' = file[Len(file)].hash
    BY <2>1, LineTypes DEF PrevHash
  <2>3. \A k \in 1..Len(made) : ~(made[k].life >= life)
    BY <2>1, LineTypes DEF CallsNumbered
  <2>4. file # <<>> => Len(last') \in Nat /\ file[Len(file)].nth \in 1..Len(made)
    BY <2>2, LineTypes DEF CallsNumbered
  <2>5. LastLonger'
    <3> SUFFICES ASSUME file # <<>>
                 PROVE  /\ Len(last') >= Len(file[Len(file)].hash)
                        /\ \A k \in file[Len(file)].nth + 1 .. Len(made) : ~(made[k].life >= life)
      BY <2>1 DEF LastLonger
    <3>1. \A k \in file[Len(file)].nth + 1 .. Len(made) : k \in 1..Len(made)
      BY <2>4, LineTypes
    <3> QED BY <2>2, <2>3, <2>4, <3>1
  <2> QED BY <2>1, <2>5 DEF GapsLengthen
<1> QED BY <1>1, <1>2, <1>3, <1>4, <1>5, LogCases

\* Without failures the daemon continues the chain that it found.
LEMMA UnfailingStep ==
  ASSUME AuditAssumption, AuditTypeOK, CutLine, CallsNumbered, Unfailing, [AuditNext]_auditVars
  PROVE  Unfailing'
<1> USE DEF Unfailing
<1>1. CASE UNCHANGED <<log, up, life, faults>>
  BY <1>1 DEF log, Verify, Readable, PrevHash
<1>2. CASE Recording
  <2> SUFFICES ASSUME faults' = 0 PROVE Verify' /\ ~cut' /\ last' = PrevHash(Len(file) + 1)'
    OBVIOUS
  <2>1. PICK actor \in Actors, commit \in 0..MaxCommits : Record(actor, commit)
    BY <1>2 DEF Recording
  <2> DEFINE body == [seq |-> seq + 1, actor |-> actor, commit |-> commit]
  <2>2. /\ last' = Append(last, body)
        /\ faults' = 0 /\ ~cut =>
             /\ faults = 0 /\ ~cut'
             /\ \E line \in Lines : file' = Append(file, line) /\ NewLine(line, body) /\ line.whole
    BY <2>1, RecordEffect DEF CallsNumbered
  <2>3. faults = 0
    BY <2>1 DEF Record, AuditTypeOK
  <2>4. Verify /\ ~cut /\ last = PrevHash(Len(file) + 1)
    BY <1>2, <2>3 DEF Recording
  <2>5. PICK line \in Lines : file' = Append(file, line) /\ NewLine(line, body) /\ line.whole
    BY <2>2, <2>4
  <2>6. /\ Len(file') = Len(file) + 1 /\ file'[Len(file) + 1] = line /\ Len(file) \in Nat
        /\ \A i \in 1..Len(file) : file'[i] = file[i]
    BY <2>5 DEF AuditTypeOK
  <2>7. line.prev = last /\ line.hash = last' /\ last' = Digest(line.prev, line.body)
    BY <2>2, <2>5 DEF NewLine, Digest
  <2>8. \A i \in 1..Len(file) + 1 : PrevHash(i)' = PrevHash(i)
    <3> SUFFICES ASSUME NEW i \in 1..Len(file) + 1 PROVE PrevHash(i)' = PrevHash(i)
      OBVIOUS
    <3>1. i # 1 => i - 1 \in 1..Len(file)
      BY <2>6
    <3> QED BY <2>6, <3>1 DEF PrevHash
  <2>9. \A i \in 1..Len(file') : i \in 1..Len(file) \/ i = Len(file) + 1
    BY <2>6
  <2>10. Readable'
    BY <2>4, <2>5, <2>6, <2>9 DEF Verify, Readable
  <2>11. \A i \in 1..Len(file') :
           file'[i].prev = PrevHash(i)' /\ file'[i].hash = Digest(file'[i].prev, file'[i].body)
    BY <2>4, <2>6, <2>7, <2>8, <2>9 DEF Verify
  <2>12. PrevHash(Len(file) + 1)' = last'
    BY <2>6, <2>7 DEF PrevHash
  <2> QED BY <2>2, <2>4, <2>10, <2>11, <2>12 DEF Verify, Digest
<1>3. CASE Kill
  BY <1>3 DEF Kill, Down, Verify, Readable, PrevHash
<1>4. CASE PowerCut
  BY <1>4, PowerCutEffect DEF AuditTypeOK
<1>5. CASE Open
  BY <1>5 DEF Open, LastHash, Verify, Readable, PrevHash
<1> QED BY <1>1, <1>2, <1>3, <1>4, <1>5, LogCases

\* The handlers keep to their types, and to commits that were made.
HandlerTypes ==
  /\ head \in 0..MaxCommits
  /\ pc \in [Handlers -> {"idle", "record", "wait"}]
  /\ about \in [Handlers -> 0..MaxCommits]
  /\ owed \in [Handlers -> 0..2]
  /\ attempt \in 0..MaxCommits /\ result \in 0..MaxCommits
  /\ answered \subseteq 1..MaxCommits

\* The handlers owe entries for commits that are theirs alone.
LEMMA HandlersStep ==
  ASSUME AuditAssumption, HandlerTypes, OwedFits, OwnCommits, Refs, [AuditNext]_auditVars
  PROVE  HandlerTypes' /\ OwedFits' /\ OwnCommits' /\ Refs'
<1> USE DEF HandlerTypes, OwedFits, OwnCommits, Refs, AuditAssumption, handlers
<1>1. ASSUME NEW h \in Handlers, Commit(h)
      PROVE  HandlerTypes' /\ OwedFits' /\ OwnCommits' /\ Refs'
  BY <1>1 DEF Commit, AfterCommit
<1>2. ASSUME NEW h \in Handlers, Call(h)
      PROVE  HandlerTypes' /\ OwedFits' /\ OwnCommits' /\ Refs'
  BY <1>2 DEF Call
<1>3. ASSUME NEW h \in Handlers, RecordCall(h)
      PROVE  HandlerTypes' /\ OwedFits' /\ OwnCommits' /\ Refs'
  BY <1>3 DEF RecordCall
<1>4. ASSUME NEW h \in Handlers, Respond(h)
      PROVE  HandlerTypes' /\ OwedFits' /\ OwnCommits' /\ Refs'
  <2>1. answered' \subseteq 1..MaxCommits
    <3>1. about[h] \in 0..MaxCommits /\ answered' = answered \cup ({about[h]} \ {0})
      BY <1>4 DEF Respond
    <3>2. about[h] \in 1..MaxCommits \/ about[h] = 0
      BY <3>1
    <3>3. answered \subseteq 1..MaxCommits
      OBVIOUS
    <3> QED BY <3>1, <3>2, <3>3
  <2>2. /\ UNCHANGED <<head, attempt, result>> /\ about' = [about EXCEPT ![h] = 0]
        /\ owed' = [owed EXCEPT ![h] = 0] /\ pc' = [pc EXCEPT ![h] = "idle"]
    BY <1>4 DEF Respond
  <2>3. HandlerTypes'
    BY <2>1, <2>2
  <2>4. OwedFits' /\ OwnCommits' /\ Refs'
    BY <2>2
  <2> QED BY <2>3, <2>4
<1>5. CASE Attempt
  BY <1>5 DEF Attempt
<1>6. CASE OnResult
  BY <1>6 DEF OnResult
<1>7. CASE Kill
  BY <1>7 DEF Kill, Down
<1>8. CASE PowerCut
  BY <1>8 DEF PowerCut, Down
<1>9. CASE Open
  BY <1>9 DEF Open
<1>10. CASE UNCHANGED auditVars
  BY <1>10 DEF auditVars
<1> QED BY <1>1, <1>2, <1>3, <1>4, <1>5, <1>6, <1>7, <1>8, <1>9, <1>10 DEF AuditNext

\* An append adds the entries of its line, and no other.
LEMMA EntriesGrow ==
  ASSUME AuditTypeOK, NEW line \in Lines, file' = Append(file, line), NEW c
  PROVE  LET new == line.body.commit = c /\ line.body.actor = "handler"
         IN  /\ NoEntry(c) /\ ~new => NoEntry(c)'
             /\ OneEntry(c) /\ ~new => OneEntry(c)'
             /\ NoEntry(c) /\ new => OneEntry(c)'
<1>1. /\ Len(file) \in Nat /\ Len(file') = Len(file) + 1 /\ file'[Len(file) + 1] = line
      /\ \A i \in 1..Len(file) : file'[i] = file[i]
  BY DEF AuditTypeOK
<1> DEFINE n == Len(file) + 1
           new == line.body.commit = c /\ line.body.actor = "handler"
<1>2. \A i \in 1..Len(file) : Entry(i, c)' <=> Entry(i, c)
  BY <1>1 DEF Entry
<1>3. \A i : i = n => (Entry(i, c)' <=> new)
  BY <1>1 DEF Entry
<1>4. \A i \in 1..Len(file') : i \in 1..Len(file) \/ i = Len(file) + 1
  BY <1>1
<1>5. Len(file) + 1 \in 1..Len(file') /\ \A i \in 1..Len(file) : i \in 1..Len(file') /\ i # Len(file) + 1
  BY <1>1
<1>6. NoEntry(c)' <=> \A i \in 1..Len(file') : ~Entry(i, c)'
  BY DEF NoEntry
<1>7. OneEntry(c)' <=> \E i \in 1..Len(file') : Entry(i, c)' /\ \A j \in 1..Len(file') : Entry(j, c)' => j = i
  BY DEF OneEntry
<1>8. n \in 1..Len(file') /\ (\A i \in 1..Len(file) : i \in 1..Len(file') /\ i # n)
       /\ \A i \in 1..Len(file') : i \in 1..Len(file) \/ i = n
  BY <1>4, <1>5
<1> HIDE DEF new, n
<1>9. ASSUME new PROVE NoEntry(c) => OneEntry(c)'
  BY <1>2, <1>3, <1>9, <1>7, <1>8 DEF NoEntry
<1>10. ASSUME ~new PROVE (NoEntry(c) => NoEntry(c)') /\ (OneEntry(c) => OneEntry(c)')
  BY <1>2, <1>3, <1>6, <1>7, <1>10, <1>8 DEF NoEntry, OneEntry
<1> QED BY <1>9, <1>10 DEF new

\* An append that did not fail adds one line, with what was recorded.
LEMMA UnfailingRecord ==
  ASSUME AuditAssumption, AuditTypeOK, CutLine, CallsNumbered, Unfailing, faults' = 0,
         NEW actor \in Actors, NEW commit \in 0..MaxCommits, Record(actor, commit)
  PROVE  /\ faults = 0
         /\ \E line \in Lines : file' = Append(file, line)
                                /\ line.body.commit = commit /\ line.body.actor = actor
<1>1. faults = 0
  BY DEF Record, AuditTypeOK
<1>2. ~cut
  BY <1>1 DEF Unfailing
<1> DEFINE body == [seq |-> seq + 1, actor |-> actor, commit |-> commit]
<1>3. \E line \in Lines : file' = Append(file, line) /\ NewLine(line, body)
  BY <1>1, <1>2, RecordEffect DEF CallsNumbered
<1> QED BY <1>1, <1>3 DEF NewLine

\* Without failures every commit is recorded once, before it is acknowledged.
LEMMA AuditedStep ==
  ASSUME AuditAssumption, AuditTypeOK, CutLine, CallsNumbered, Unfailing, OwedFits, OwnCommits, Refs,
         Audited, [AuditNext]_auditVars
  PROVE  Audited'
<1> DEFINE Owns == \A h \in Handlers, c \in 1..head : about[h] = c =>
                     /\ pc[h] = "record" => owed[h] = 1 /\ NoEntry(c)
                     /\ pc[h] = "wait" => OneEntry(c)
           Known == \A i \in 1..Len(file) : file[i].body.commit <= head
           Answers == \A c \in answered : OneEntry(c)
<1> SUFFICES ASSUME faults' = 0 PROVE Known' /\ Owns' /\ Answers'
  BY DEF Audited
<1>1. faults = 0 => Known /\ Owns /\ Answers
  BY DEF Audited
<1>2. UNCHANGED file => \A c : (NoEntry(c)' <=> NoEntry(c)) /\ (OneEntry(c)' <=> OneEntry(c))
  BY DEF NoEntry, OneEntry, Entry
<1>3. head \in Nat /\ \A i \in 1..Len(file) : file[i].body.commit \in Nat
  <2>1. \A l \in Lines : l.body.commit \in Nat
    BY DEF Lines, Bodies, AuditAssumption
  <2> QED BY <2>1, ElementOf DEF AuditTypeOK, AuditAssumption
<1>4. ASSUME NEW h \in Handlers, Commit(h) PROVE Known' /\ Owns' /\ Answers'
  <2>1. /\ UNCHANGED <<file, answered, faults>> /\ head' = head + 1
        /\ about' = [about EXCEPT ![h] = head + 1]
        /\ owed' = [owed EXCEPT ![h] = 1] /\ pc' = [pc EXCEPT ![h] = "record"]
    BY <1>4 DEF Commit, AfterCommit, log
  <2>2. Known /\ Owns /\ Answers
    BY <1>1, <2>1
  <2>3. NoEntry(head + 1)
    BY <1>3, <2>2 DEF NoEntry, Entry
  <2>4. ASSUME NEW g \in Handlers, NEW c \in 1..head', about'[g] = c
        PROVE  /\ pc'[g] = "record" => owed'[g] = 1 /\ NoEntry(c)
               /\ pc'[g] = "wait" => OneEntry(c)
    <3>1. CASE g = h
      BY <2>1, <2>3, <2>4, <3>1 DEF AuditTypeOK
    <3>2. CASE g # h
      <4>1. about[g] = c /\ pc'[g] = pc[g] /\ owed'[g] = owed[g]
        BY <2>1, <2>4, <3>2 DEF AuditTypeOK
      <4>2. c \in 1..head
        BY <1>3, <2>1, <4>1 DEF OwedFits
      <4> QED BY <2>2, <4>1, <4>2
    <3> QED BY <3>1, <3>2
  <2>5. Owns'
    BY <1>2, <2>1, <2>4
  <2> QED BY <1>2, <1>3, <2>1, <2>2, <2>5
<1>5. ASSUME NEW h \in Handlers, Call(h) PROVE Known' /\ Owns' /\ Answers'
  <2>1. /\ UNCHANGED <<file, answered, faults, head>>
        /\ about' = [about EXCEPT ![h] = 0] /\ pc' = [pc EXCEPT ![h] = "record"]
        /\ \A g \in Handlers \ {h} : owed'[g] = owed[g]
    BY <1>5 DEF Call, log, AuditTypeOK
  <2>2. Known /\ Owns /\ Answers
    BY <1>1, <2>1
  <2>3. \A g \in Handlers, c \in 1..head : about'[g] = c => about[g] = c /\ pc'[g] = pc[g] /\ owed'[g] = owed[g]
    BY <2>1 DEF AuditTypeOK
  <2> QED BY <1>2, <2>1, <2>2, <2>3
<1>6. ASSUME NEW h \in Handlers, RecordCall(h) PROVE Known' /\ Owns' /\ Answers'
  <2> DEFINE actor == IF about[h] = 0 THEN "login" ELSE "handler"
  <2>1. /\ pc[h] = "record" /\ Record(actor, about[h]) /\ UNCHANGED <<head, about, answered>>
        /\ owed' = [owed EXCEPT ![h] = @ - 1]
        /\ pc' = [pc EXCEPT ![h] = IF owed[h] = 1 THEN "wait" ELSE "record"]
    BY <1>6 DEF RecordCall
  <2>2. actor \in Actors /\ about[h] \in 0..MaxCommits
    BY DEF Actors, AuditTypeOK
  <2>3. faults = 0 /\ \E line \in Lines : file' = Append(file, line)
                        /\ line.body.commit = about[h] /\ line.body.actor = actor
    BY <2>1, <2>2, UnfailingRecord
  <2>4. PICK line \in Lines : file' = Append(file, line)
                        /\ line.body.commit = about[h] /\ line.body.actor = actor
    BY <2>3
  <2>5. Known /\ Owns /\ Answers
    BY <1>1, <2>3
  <2>6. Known'
    <3>1. Len(file') = Len(file) + 1 /\ file'[Len(file) + 1] = line
          /\ \A i \in 1..Len(file) : file'[i] = file[i]
      BY <2>4 DEF AuditTypeOK
    <3>2. about[h] <= head
      BY DEF OwedFits
    <3>3. \A i \in 1..Len(file') : i \in 1..Len(file) \/ i = Len(file) + 1
      BY <3>1 DEF AuditTypeOK
    <3> QED BY <2>1, <2>4, <2>5, <3>1, <3>2, <3>3
  <2>7. ASSUME NEW c, about[h] # c \/ c = 0
        PROVE  (NoEntry(c) => NoEntry(c)') /\ (OneEntry(c) => OneEntry(c)')
    <3>1. ~(line.body.commit = c /\ line.body.actor = "handler")
      BY <2>4, <2>7
    <3> QED BY <2>4, <3>1, EntriesGrow
  <2>8. ASSUME NEW c \in 1..head, about[h] = c
        PROVE  owed[h] = 1 /\ NoEntry(c) /\ OneEntry(c)'
    <3>1. owed[h] = 1 /\ NoEntry(c)
      BY <2>1, <2>5, <2>8
    <3>2. line.body.commit = c /\ line.body.actor = "handler"
      BY <2>4, <2>8
    <3> QED BY <2>4, <3>1, <3>2, EntriesGrow
  <2>9. ASSUME NEW g \in Handlers, NEW c \in 1..head, about[g] = c
        PROVE  /\ pc'[g] = "record" => owed'[g] = 1 /\ NoEntry(c)'
               /\ pc'[g] = "wait" => OneEntry(c)'
    <3>1. CASE g = h
      BY <2>1, <2>8, <2>9, <3>1 DEF AuditTypeOK
    <3>2. CASE g # h
      <4>1. about[h] # c
        BY <2>9, <3>2 DEF OwnCommits
      <4>2. pc'[g] = pc[g] /\ owed'[g] = owed[g]
        BY <2>1, <3>2 DEF AuditTypeOK
      <4> QED BY <2>5, <2>7, <2>9, <4>1, <4>2
    <3> QED BY <3>1, <3>2
  <2>10. ASSUME NEW c \in answered PROVE OneEntry(c)'
    <3>1. OneEntry(c) /\ ~NoEntry(c) /\ c # 0
      BY <2>5, <2>10 DEF OneEntry, NoEntry, AuditTypeOK
    <3>2. about[h] # c
      <4>1. about[h] = c => c \in 1..head
        BY <1>3, <2>2, <3>1 DEF OwedFits
      <4> QED BY <2>8, <3>1, <4>1
    <3> QED BY <2>7, <3>1, <3>2
  <2> QED BY <2>1, <2>6, <2>9, <2>10
<1>7. ASSUME NEW h \in Handlers, Respond(h) PROVE Known' /\ Owns' /\ Answers'
  <2>1. /\ UNCHANGED <<file, faults, head>> /\ pc[h] = "wait"
        /\ answered' = answered \cup ({about[h]} \ {0})
        /\ about' = [about EXCEPT ![h] = 0] /\ pc' = [pc EXCEPT ![h] = "idle"]
        /\ \A g \in Handlers \ {h} : owed'[g] = owed[g]
    BY <1>7 DEF Respond, log, AuditTypeOK
  <2>2. Known /\ Owns /\ Answers
    BY <1>1, <2>1
  <2>3. about[h] # 0 => about[h] \in 1..head
    BY <1>3 DEF OwedFits, AuditTypeOK
  <2>4. about[h] # 0 => OneEntry(about[h])
    BY <2>1, <2>2, <2>3
  <2>5. \A g \in Handlers, c \in 1..head : about'[g] = c => about[g] = c /\ pc'[g] = pc[g] /\ owed'[g] = owed[g]
    BY <2>1 DEF AuditTypeOK
  <2>6. Owns'
    BY <1>2, <2>1, <2>2, <2>5
  <2>7. \A c \in answered' : c \in answered \/ (about[h] # 0 /\ c = about[h])
    BY <2>1
  <2>8. \A c \in answered' : OneEntry(c)
    BY <2>2, <2>4, <2>7
  <2> QED BY <1>2, <2>1, <2>2, <2>6, <2>8
<1>8. CASE Attempt
  BY <1>1, <1>2, <1>8 DEF Attempt, handlers, log
<1>9. CASE OnResult
  <2>1. Record("reconciler", result) /\ UNCHANGED <<head, pc, about, owed, answered>>
    BY <1>9 DEF OnResult, handlers
  <2>2. faults = 0 /\ \E line \in Lines : file' = Append(file, line)
                        /\ line.body.commit = result /\ line.body.actor = "reconciler"
    BY <2>1, UnfailingRecord DEF Actors, AuditTypeOK
  <2>3. PICK line \in Lines : file' = Append(file, line)
                        /\ line.body.commit = result /\ line.body.actor = "reconciler"
    BY <2>2
  <2>4. Known /\ Owns /\ Answers
    BY <1>1, <2>2
  <2>5. \A c : (NoEntry(c) => NoEntry(c)') /\ (OneEntry(c) => OneEntry(c)')
    BY <2>3, EntriesGrow
  <2>6. Known'
    <3>1. Len(file') = Len(file) + 1 /\ file'[Len(file) + 1] = line
          /\ \A i \in 1..Len(file) : file'[i] = file[i]
      BY <2>3 DEF AuditTypeOK
    <3>2. \A i \in 1..Len(file') : i \in 1..Len(file) \/ i = Len(file) + 1
      BY <3>1 DEF AuditTypeOK
    <3> QED BY <2>1, <2>3, <2>4, <3>1, <3>2 DEF Refs
  <2> QED BY <2>1, <2>4, <2>5, <2>6
<1>10. CASE Kill
  <2>1. UNCHANGED <<file, faults, head, answered>> /\ \A h \in Handlers : about'[h] = 0
    BY <1>10 DEF Kill, Down
  <2> QED BY <1>1, <1>2, <2>1
<1>11. CASE PowerCut
  BY <1>11, PowerCutEffect DEF AuditTypeOK
<1>12. CASE Open
  BY <1>1, <1>2, <1>12 DEF Open, handlers
<1>13. CASE UNCHANGED auditVars
  BY <1>1, <1>2, <1>13 DEF auditVars, handlers, log
<1> QED BY <1>4, <1>5, <1>6, <1>7, <1>8, <1>9, <1>10, <1>11, <1>12, <1>13 DEF AuditNext

-----------------------------------------------------------------------------
(* What the log promises *)

\* The log of a daemon that has opened an empty file fits the invariant.
LEMMA InitAuditIInv == AuditAssumption /\ AuditInit => AuditIInv
<1> SUFFICES ASSUME AuditAssumption, AuditInit PROVE AuditIInv
  OBVIOUS
<1>1. /\ file = <<>> /\ made = <<>> /\ last = <<>> /\ seq = 0 /\ ~cut /\ life = 0 /\ faults = 0
      /\ Len(file) = 0 /\ Len(made) = 0 /\ head = 1 /\ answered = {}
      /\ \A h \in Handlers : pc[h] = "idle" /\ about[h] = 0
  BY DEF AuditInit
<1>2. AuditTypeOK
  <2>1. last \in Hashes /\ file \in Seq(Lines) /\ made \in Seq([body : Bodies, life : 0..MaxRestarts, stored : BOOLEAN])
    BY <1>1 DEF Hashes
  <2>2. up \in BOOLEAN /\ cut \in BOOLEAN
    BY DEF AuditInit
  <2> QED BY <1>1, <2>1, <2>2 DEF AuditInit, AuditTypeOK, AuditAssumption
<1>3. OwedFits /\ OwnCommits /\ Refs
  BY <1>1 DEF AuditInit, OwedFits, OwnCommits, Refs
<1>4. CallsNumbered /\ SeqAhead /\ SeqGrows /\ CutLine /\ GapsLengthen /\ LastLonger
  BY <1>1 DEF CallsNumbered, SeqAhead, SeqGrows, CutLine, GapsLengthen, LastLonger
<1>5. Unfailing /\ Audited
  BY <1>1 DEF Unfailing, Audited, Verify, Readable, PrevHash
<1> QED BY <1>2, <1>3, <1>4, <1>5 DEF AuditIInv

\* Every step keeps it.
LEMMA StepAuditIInv == AuditAssumption /\ AuditIInv /\ [AuditNext]_auditVars => AuditIInv'
<1> SUFFICES ASSUME AuditAssumption, AuditIInv, [AuditNext]_auditVars PROVE AuditIInv'
  OBVIOUS
<1>1. /\ AuditTypeOK /\ OwedFits /\ CallsNumbered /\ SeqAhead /\ SeqGrows /\ CutLine
      /\ GapsLengthen /\ LastLonger /\ Unfailing /\ OwnCommits /\ Refs /\ Audited
  BY DEF AuditIInv
<1>2. LogTypes'
  BY <1>1, LogTypesStep
<1>3. HandlerTypes' /\ OwedFits' /\ OwnCommits' /\ Refs'
  <2>1. HandlerTypes
    BY <1>1 DEF AuditTypeOK, HandlerTypes
  <2> QED BY <1>1, <2>1, HandlersStep
<1>4. AuditTypeOK' /\ CutLine'
  BY <1>2, <1>3 DEF AuditTypeOK, LogTypes, HandlerTypes
<1>5. CallsNumbered' /\ SeqAhead' /\ SeqGrows'
  BY <1>1, NumberedStep, GrowsStep
<1>6. GapsLengthen' /\ LastLonger'
  BY <1>1, GapsStep
<1>7. Unfailing' /\ Audited'
  BY <1>1, UnfailingStep, AuditedStep
<1> QED BY <1>3, <1>4, <1>5, <1>6, <1>7 DEF AuditIInv

\* The inductive invariant holds of every run.
THEOREM AuditInvariant ==
  ASSUME AuditAssumption
  PROVE  AuditSpec => []AuditIInv
BY InitAuditIInv, StepAuditIInv, PTL DEF AuditSpec

\* The log, the handlers and the Reconciler's hook keep to their types.
THEOREM AuditTypeCorrect ==
  ASSUME AuditAssumption
  PROVE  AuditSpec => []AuditTypeOK
<1>1. AuditIInv => AuditTypeOK
  BY DEF AuditIInv
<1> QED BY <1>1, AuditInvariant, PTL

\* In a chain that verifies, what is missing between two lines was recorded by
\* an earlier life of the daemon than the line that follows (Record, Verify).
LEMMA GapsBreak ==
  ASSUME AuditAssumption, AuditTypeOK, CallsNumbered, GapsLengthen
  PROVE  GapsBreakTheChain
<1> SUFFICES ASSUME Verify, NEW i \in 1..Len(file) - 1,
                    NEW k \in file[i].nth + 1 .. file[i + 1].nth - 1
             PROVE  made[k].life < made[file[i + 1].nth].life
  BY DEF GapsBreakTheChain
<1>1. i \in 1..Len(file) /\ i + 1 \in 1..Len(file) /\ i + 1 # 1 /\ i + 1 - 1 = i
  BY LineTypes
<1>2. file[i + 1].prev = file[i].hash
  BY <1>1 DEF Verify, PrevHash
<1>3. Len(file[i].hash) \in Nat
  <2>1. file[i].hash \in Seq(Bodies)
    BY <1>1, LineTypes
  <2> QED BY <2>1
<1>4. ~(made[k].life >= made[file[i + 1].nth].life)
  BY <1>2, <1>3 DEF GapsLengthen
<1>5. made[k].life \in Nat /\ made[file[i + 1].nth].life \in Nat
  <2>1. /\ file[i].nth \in 1..MaxEntries /\ file[i + 1].nth \in 1..MaxEntries
        /\ file[i + 1].nth <= Len(made) /\ Len(made) \in Nat
    BY <1>1, LineTypes DEF CallsNumbered
  <2>2. k \in 1..Len(made) /\ file[i + 1].nth \in 1..Len(made)
    BY <2>1
  <2>3. MaxRestarts \in Nat /\ made[k].life \in 0..MaxRestarts
        /\ made[file[i + 1].nth].life \in 0..MaxRestarts
    BY <2>2, LineTypes
  <2> QED BY <2>3
<1> QED BY <1>4, <1>5

\* An acknowledged commit has one entry.
LEMMA OneOfEach ==
  ASSUME Audited, faults = 0, NEW c \in answered
  PROVE  Cardinality({i \in 1..Len(file) : file[i].body.commit = c
                                           /\ file[i].body.actor = "handler"}) = 1
<1>1. PICK i \in 1..Len(file) : Entry(i, c) /\ \A j \in 1..Len(file) : Entry(j, c) => j = i
  BY DEF Audited, OneEntry
<1>2. {j \in 1..Len(file) : file[j].body.commit = c /\ file[j].body.actor = "handler"} = {i}
  BY <1>1 DEF Entry
<1> QED BY <1>2, FS_Singleton

\* What the log promises, through failed and torn appends, power cuts and
\* restarts: a chain that verifies hides nothing of its own life, its numbers
\* grow, it verifies while no append fails, and then holds every acknowledged
\* change once (Record, Verify, Open; config.go putObject, deleteObject).
THEOREM LogKeepsItsPromise ==
  ASSUME AuditAssumption
  PROVE  AuditSpec => []AuditKept
<1>1. AuditIInv => AuditKept
  <2> SUFFICES ASSUME AuditIInv PROVE AuditKept
    OBVIOUS
  <2>1. GapsBreakTheChain /\ SeqGrows
    BY GapsBreak DEF AuditIInv
  <2>2. UnfailingLogVerifies
    BY DEF AuditIInv, Unfailing, UnfailingLogVerifies
  <2>3. AcknowledgedIsAudited
    BY OneOfEach DEF AuditIInv, AcknowledgedIsAudited
  <2> QED BY <2>1, <2>2, <2>3 DEF AuditKept
<1> QED BY <1>1, AuditInvariant, PTL

-----------------------------------------------------------------------------
(* WebUI *)

\* The form of a tab that was reloaded.
LEMMA ArrivedForm ==
  ASSUME TabsTypeOK, NEW t \in Tabs, NEW r, dialog' = [dialog EXCEPT ![t].tab = IF r = view[t] THEN @ ELSE "moved"]
  PROVE  /\ dialog' \in [Tabs -> [file : Files, seen : SavedRevs, tab : {"kept", "moved"}] \cup {Closed}]
         /\ \A u \in Tabs : /\ dialog'[u].seen = dialog[u].seen
                            /\ dialog'[u].tab = "kept" => dialog[u].tab = "kept" /\ (u = t => r = view[t])
<1> DEFINE Forms == [file : Files, seen : SavedRevs, tab : {"kept", "moved"}]
           tab == IF r = view[t] THEN dialog[t].tab ELSE "moved"
<1>1. dialog \in [Tabs -> Forms \cup {Closed}]
  BY DEF TabsTypeOK
<1>2. dialog' = [dialog EXCEPT ![t] = [dialog[t] EXCEPT !.tab = tab]]
  BY <1>1
<1>3. CASE dialog[t] \in Forms
  <2>1. /\ [dialog[t] EXCEPT !.tab = tab] \in Forms
        /\ [dialog[t] EXCEPT !.tab = tab].seen = dialog[t].seen
        /\ [dialog[t] EXCEPT !.tab = tab].tab = tab
    BY <1>1, <1>3
  <2> QED BY <1>1, <1>2, <2>1
<1>4. CASE dialog[t] = Closed
  <2>1. tab = "moved"
    BY <1>4 DEF Closed
  <2>2. [Closed EXCEPT !.tab = "moved"] = Closed
    BY DEF Closed
  <2>3. dialog' = dialog
    BY <1>1, <1>2, <1>4, <2>1, <2>2
  <2>4. dialog[t].tab = "moved"
    BY <1>4 DEF Closed
  <2> QED BY <1>1, <2>3, <2>4
<1> QED BY <1>1, <1>3, <1>4

\* What a tab holds, and what it sends, is of the revisions there are.
THEOREM TabsTypeCorrect == TabsSpec => []TabsTypeOK
<1> USE DEF TabsTypeOK
<1>1. TabsInit => TabsTypeOK
  <2> SUFFICES ASSUME TabsInit PROVE TabsTypeOK
    OBVIOUS
  <2>1. <<FirstFiles>> \in Seq([Files -> Contents]) /\ Len(<<FirstFiles>>) = 1
    BY WebAssumption
  <2>2. 1 \in SavedRevs
    BY WebAssumption DEF SavedRevs
  <2> QED BY <2>1, <2>2, WebAssumption DEF TabsInit, SavedHead, SavedRevs
<1>2. TabsTypeOK /\ [TabsNext]_tabsVars => TabsTypeOK'
  <2> SUFFICES ASSUME TabsTypeOK, [TabsNext]_tabsVars PROVE TabsTypeOK'
    OBVIOUS
  <2>0. SavedHead \in SavedRevs /\ SavedRevs \subseteq 0..MaxRevs /\ SavedHead \in 0..MaxRevs
    BY WebAssumption DEF SavedRevs
  <2>1. ASSUME NEW t \in Tabs, OpenForm(t) PROVE TabsTypeOK'
    BY <2>1 DEF OpenForm, SavedHead
  <2>2. ASSUME NEW t \in Tabs, OpenYAML(t) PROVE TabsTypeOK'
    BY <2>0, <2>2 DEF OpenYAML, SavedHead
  <2>3. ASSUME NEW t \in Tabs, Cancel(t) PROVE TabsTypeOK'
    BY <2>3 DEF Cancel, SavedHead
  <2>4. ASSUME NEW t \in Tabs, Submit(t) PROVE TabsTypeOK'
    <3>1. PICK v \in Contents :
            put' = [put EXCEPT ![t] = [state |-> "sent", file |-> dialog[t].file, content |-> v,
                                       base |-> IfMatch(t), seen |-> dialog[t].seen, tab |-> dialog[t].tab]]
      BY <2>4 DEF Submit
    <3>2. dialog[t] \in [file : Files, seen : SavedRevs, tab : {"kept", "moved"}]
      BY <2>4 DEF Submit
    <3>3. IfMatch(t) \in SavedRevs
      BY DEF IfMatch
    <3> QED BY <2>4, <3>1, <3>2, <3>3 DEF Submit, SavedHead
  <2>5. ASSUME NEW t \in Tabs, ServeSave(t) PROVE TabsTypeOK'
    <3>1. put[t] \in [state : {"sent", "saved", "conflict", "unchanged", "error"},
                       file : Files, content : Contents, base : SavedRevs, seen : SavedRevs, tab : {"kept", "moved"}]
      BY <2>5 DEF ServeSave, NoSave
    <3>2. \A st \in {"conflict", "unchanged", "saved"} :
            [put[t] EXCEPT !.state = st] \in [state : {"sent", "saved", "conflict", "unchanged", "error"},
                       file : Files, content : Contents, base : SavedRevs, seen : SavedRevs, tab : {"kept", "moved"}]
      BY <3>1
    <3>3. \E st \in {"conflict", "unchanged", "saved"} : put' = [put EXCEPT ![t].state = st]
      BY <2>5 DEF ServeSave
    <3>4. put' \in [Tabs -> {NoSave} \cup [state : {"reload"}, rev : SavedRevs] \cup
                      [state : {"sent", "saved", "conflict", "unchanged", "error"},
                       file : Files, content : Contents, base : SavedRevs, seen : SavedRevs, tab : {"kept", "moved"}]]
      BY <3>2, <3>3
    <3>5. saved' \in Seq([Files -> Contents]) /\ SavedHead' \in SavedRevs
      <4>1. CASE UNCHANGED saved
        BY <4>1 DEF SavedHead
      <4>2. CASE SavedHead < MaxRevs /\ saved' = Append(saved, [saved[SavedHead] EXCEPT ![put[t].file] = put[t].content])
        <5>1. saved[SavedHead] \in [Files -> Contents]
          BY <2>0, ElementOfSeq DEF SavedHead, SavedRevs
        <5>2. [saved[SavedHead] EXCEPT ![put[t].file] = put[t].content] \in [Files -> Contents]
          BY <3>1, <5>1
        <5>3. saved' \in Seq([Files -> Contents]) /\ SavedHead' = SavedHead + 1
          BY <4>2, <5>2, AppendProperties DEF SavedHead
        <5> QED BY <2>0, <4>2, <5>3, WebAssumption DEF SavedRevs
      <4> QED BY <2>5, <4>1, <4>2 DEF ServeSave
    <3> QED BY <2>5, <3>4, <3>5 DEF ServeSave
  <2>6. ASSUME NEW t \in Tabs, ServeFull(t) PROVE TabsTypeOK'
    <3>1. put[t] \in [state : {"sent", "saved", "conflict", "unchanged", "error"},
                       file : Files, content : Contents, base : SavedRevs, seen : SavedRevs, tab : {"kept", "moved"}]
      BY <2>6 DEF ServeFull, NoSave
    <3>2. [put[t] EXCEPT !.state = "error"] \in [state : {"sent", "saved", "conflict", "unchanged", "error"},
                       file : Files, content : Contents, base : SavedRevs, seen : SavedRevs, tab : {"kept", "moved"}]
      BY <3>1
    <3> QED BY <2>6, <3>2 DEF ServeFull, SavedHead
  <2>7. ASSUME Reconcile PROVE TabsTypeOK'
    BY <2>0, <2>7 DEF Reconcile, SavedHead
  <2>8. ASSUME NEW t \in Tabs, Answered(t) PROVE TabsTypeOK'
    <3>1. [state |-> "reload", rev |-> SavedHead] \in [state : {"reload"}, rev : SavedRevs]
      BY <2>0
    <3> QED BY <2>8, <3>1 DEF Answered, SavedHead
  <2>9. ASSUME NEW t \in Tabs, Reloaded(t) PROVE TabsTypeOK'
    <3>1. put[t].rev \in SavedRevs
      BY <2>9 DEF Reloaded, NoSave
    <3> QED BY <2>9, <3>1 DEF Reloaded, Shut, SavedHead
  <2>10. ASSUME NEW t \in Tabs, Refused(t) PROVE TabsTypeOK'
    BY <2>10 DEF Refused, Shut, SavedHead
  <2>11. ASSUME NEW t \in Tabs, Poll(t) PROVE TabsTypeOK'
    BY <2>0, <2>11 DEF Poll, SavedHead
  <2>12. ASSUME NEW t \in Tabs, Arrive(t) PROVE TabsTypeOK'
    <3>1. PICK r \in fetches[t] : /\ view' = [view EXCEPT ![t] = r] /\ fetches' = [fetches EXCEPT ![t] = @ \ {r}]
                                /\ dialog' = [dialog EXCEPT ![t].tab = IF r = view[t] THEN @ ELSE "moved"]
      BY <2>12 DEF Arrive
    <3>2. view' \in [Tabs -> SavedRevs] /\ fetches' \in [Tabs -> SUBSET SavedRevs]
      BY <3>1
    <3>3. dialog' \in [Tabs -> [file : Files, seen : SavedRevs, tab : {"kept", "moved"}] \cup {Closed}]
      BY <3>1, ArrivedForm
    <3> QED BY <2>12, <3>2, <3>3 DEF Arrive, SavedHead
  <2>13. CASE UNCHANGED tabsVars
    BY <2>13 DEF tabsVars, SavedHead
  <2> QED BY <2>1, <2>2, <2>3, <2>4, <2>5, <2>6, <2>7, <2>8, <2>9, <2>10, <2>11, <2>12, <2>13
          DEF TabsNext, TabUser, Server, Browser
<1> QED BY <1>1, <1>2, PTL DEF TabsSpec

\* A form whose tab kept its revision was copied from it, and its save is based on it.
TabKeeps ==
  \A t \in Tabs :
    /\ dialog[t].tab = "kept" => dialog[t].seen = view[t]
    /\ put[t].state = "sent" /\ put[t].tab = "kept" => put[t].base = put[t].seen

\* Tabs reload, forms are opened, saved, kept and closed: it stays so.
LEMMA TabKeepsStep ==
  ASSUME TabsTypeOK, TabKeeps, [TabsNext]_tabsVars
  PROVE  TabKeeps'
<1> USE DEF TabsTypeOK
<1>1. ASSUME NEW t \in Tabs, NEW p, put' = [put EXCEPT ![t] = p], p.state # "sent",
             UNCHANGED <<view, dialog>>
      PROVE  TabKeeps'
  BY <1>1 DEF TabKeeps
<1>2. ASSUME NEW t \in Tabs, OpenForm(t) PROVE TabKeeps'
  BY <1>2 DEF OpenForm, TabKeeps
<1>3. ASSUME NEW t \in Tabs, OpenYAML(t) PROVE TabKeeps'
  BY <1>3 DEF OpenYAML, TabKeeps
<1>4. ASSUME NEW t \in Tabs, Cancel(t) PROVE TabKeeps'
  BY <1>4 DEF Cancel, Closed, TabKeeps
<1>5. ASSUME NEW t \in Tabs, Submit(t) PROVE TabKeeps'
  <2>1. PICK v \in Contents :
          put' = [put EXCEPT ![t] = [state |-> "sent", file |-> dialog[t].file, content |-> v,
                                     base |-> IfMatch(t), seen |-> dialog[t].seen, tab |-> dialog[t].tab]]
    BY <1>5 DEF Submit
  <2> QED BY <1>5, <2>1 DEF Submit, IfMatch, TabKeeps
<1>6. ASSUME NEW t \in Tabs, Server(t) PROVE TabKeeps'
  <2>1. put[t] \in [state : {"sent", "saved", "conflict", "unchanged", "error"},
                    file : Files, content : Contents, base : SavedRevs, seen : SavedRevs, tab : {"kept", "moved"}]
    BY <1>6 DEF Server, ServeSave, ServeFull, NoSave
  <2>2. \A st \in {"conflict", "unchanged", "saved", "error"} : [put[t] EXCEPT !.state = st].state = st
    BY <2>1
  <2>3. /\ \E st \in {"conflict", "unchanged", "saved", "error"} : put' = [put EXCEPT ![t].state = st]
        /\ UNCHANGED <<view, dialog>>
    BY <1>6 DEF Server, ServeSave, ServeFull
  <2> QED BY <1>1, <2>2, <2>3
<1>7. ASSUME NEW t \in Tabs, Answered(t) PROVE TabKeeps'
  <2>1. [state |-> "reload", rev |-> SavedHead].state # "sent"
    OBVIOUS
  <2>2. put' = [put EXCEPT ![t] = [state |-> "reload", rev |-> SavedHead]] /\ UNCHANGED <<view, dialog>>
    BY <1>7 DEF Answered
  <2> QED BY <1>1, <2>1, <2>2
<1>8. ASSUME NEW t \in Tabs, Reloaded(t) PROVE TabKeeps'
  BY <1>8 DEF Reloaded, Shut, Closed, NoSave, TabKeeps
<1>9. ASSUME NEW t \in Tabs, Refused(t) PROVE TabKeeps'
  BY <1>9 DEF Refused, Shut, Closed, NoSave, TabKeeps
<1>10. ASSUME NEW t \in Tabs, Arrive(t) PROVE TabKeeps'
  <2>1. PICK r \in fetches[t] : /\ view' = [view EXCEPT ![t] = r]
                               /\ dialog' = [dialog EXCEPT ![t].tab = IF r = view[t] THEN @ ELSE "moved"]
    BY <1>10 DEF Arrive
  <2>2. UNCHANGED put
    BY <1>10 DEF Arrive
  <2> QED BY <2>1, <2>2, ArrivedForm DEF TabKeeps
<1>11. CASE Reconcile \/ (\E t \in Tabs : Poll(t)) \/ UNCHANGED tabsVars
  BY <1>11 DEF Reconcile, Poll, tabsVars, TabKeeps
<1> QED BY <1>2, <1>3, <1>4, <1>5, <1>6, <1>7, <1>8, <1>9, <1>10, <1>11 DEF TabsNext, TabUser, Browser

\* A save overwrites a change its user has not seen only after a poll reloaded the
\* tab under the form, or with a YAML text that was not of the tab's revision
\* (core.js save, objectForm and yamlEditor submit, store.go Update).
THEOREM LostOnlyByReloads == TabsSpec => LostOnlyByReload
<1>1. TabsTypeOK /\ TabKeeps /\ [TabsNext]_tabsVars => [SavesOverSeen]_tabsVars
  <2> SUFFICES ASSUME TabsTypeOK, TabKeeps, TabsNext, NEW t \in Tabs, SaveLands(t), put[t].tab = "kept"
               PROVE  SameAsSeen(put[t])
    BY DEF SavesOverSeen
  <2> USE DEF SaveLands, TabsTypeOK
  <2>1. put[t].state = "sent" /\ put'[t].state = "saved" /\ put[t] # put'[t]
    OBVIOUS
  <2>2. ASSUME NEW u \in Tabs, NEW p, put' = [put EXCEPT ![u] = p], p.state # "saved" PROVE FALSE
    BY <2>1, <2>2
  <2>3. ASSUME NEW u \in Tabs, TabUser(u) PROVE FALSE
    <3>1. CASE Submit(u)
      BY <2>2, <3>1 DEF Submit
    <3>2. CASE OpenForm(u) \/ OpenYAML(u) \/ Cancel(u)
      BY <2>1, <3>2 DEF OpenForm, OpenYAML, Cancel
    <3> QED BY <2>3, <3>1, <3>2 DEF TabUser
  <2>4. ASSUME NEW u \in Tabs, Browser(u) PROVE FALSE
    <3>1. CASE Answered(u)
      BY <2>2, <3>1 DEF Answered
    <3>2. CASE Reloaded(u) \/ Refused(u)
      BY <2>2, <3>2 DEF Reloaded, Refused, NoSave
    <3> QED BY <2>4, <3>1, <3>2 DEF Browser
  <2>5. ASSUME NEW u \in Tabs, Poll(u) \/ Arrive(u) PROVE FALSE
    BY <2>1, <2>5 DEF Poll, Arrive
  <2>6. ASSUME Reconcile PROVE FALSE
    BY <2>1, <2>6 DEF Reconcile
  <2>7. ASSUME NEW u \in Tabs, ServeFull(u) PROVE FALSE
    BY <2>1, <2>7 DEF ServeFull
  <2>8. PICK u \in Tabs : ServeSave(u)
    BY <2>3, <2>4, <2>5, <2>6, <2>7 DEF TabsNext, Server
  <2>9. u = t
    BY <2>1, <2>8 DEF ServeSave
  <2>10. ~Conflicts(put[t])
    <3>1. put[t] \in [state : {"sent", "saved", "conflict", "unchanged", "error"},
                       file : Files, content : Contents, base : SavedRevs, seen : SavedRevs, tab : {"kept", "moved"}]
      BY <2>1 DEF NoSave
    <3>2. [put[t] EXCEPT !.state = "conflict"].state = "conflict"
      BY <3>1
    <3> QED BY <2>1, <2>8, <2>9, <3>2 DEF ServeSave
  <2>11. put[t].base = put[t].seen
    BY <2>1 DEF TabKeeps
  <2> QED BY <2>10, <2>11 DEF Conflicts, SameAsSeen
<1>2. TabsInit => TabKeeps
  BY DEF TabsInit, TabKeeps, Closed, NoSave
<1>3. TabsTypeOK /\ TabKeeps /\ [TabsNext]_tabsVars => TabKeeps'
  BY TabKeepsStep
<1> QED BY <1>1, <1>2, <1>3, TabsTypeCorrect, PTL DEF TabsSpec, LostOnlyByReload
=============================================================================
