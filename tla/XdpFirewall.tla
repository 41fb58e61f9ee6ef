------------------------------ MODULE XdpFirewall ------------------------------
(***************************************************************************)
(* The archived XDP firewall (archive/PoC-basic-xdp-firewall), still the    *)
(* payload of the image: main.go polls rules.yaml and writes the rules into *)
(* a map slot by slot, the number of rules last; bpf/firewall.c walks the   *)
(* map for a packet at the same time.  A write to the map that fails is     *)
(* reported and not repeated.                                              *)
(*                                                                         *)
(* An address has two bytes of two bits instead of four of eight; a port    *)
(* has two bytes of one bit.  A packet is what the program reads of it: the *)
(* port is the bytes that follow 20 bytes of IP header, whatever they are.  *)
(***************************************************************************)
EXTENDS Integers, Sequences, FiniteSets, SequencesExt

CONSTANTS RuleFiles,    \* contents of rules.yaml: sequences of rules, or Broken, or NoFile
          Broken,       \* content that does not parse
          NoFile,       \* there is no file
          Packets,      \* packets that arrive
          MaxRules,     \* slots of the map (256 in the program)
          MaxWrites,    \* bound on the editor's writes
          MaxTime,      \* bound on modification times
          MaxFailures,  \* bound on the writes to the maps that fail
          ToUpper(_)    \* strings.ToUpper

Bytes == [1..2 -> 0..3]
Ports == 0..3

\* A CIDR as it is written: nothing, an address, a prefix whose host bits need not
\* be 0, or anything else, IPv6 included.
Cidrs ==
  [kind : {"empty", "other"}] \cup [kind : {"address"}, ip : Bytes]
    \cup [kind : {"prefix"}, ip : Bytes, len : 0..4]

RuleSpecs ==
  [priority : Int, src : Cidrs, dst : Cidrs, port : Ports, proto : STRING, action : STRING]

\* A frame with a whole IPv4 header, or any other, of which the rest means nothing.
Frames ==
  [ipv4 : BOOLEAN, src : Bytes, dst : Bytes, proto : Nat, dport : [1..2 -> 0..1], whole : BOOLEAN]

XdpAssumption ==
  /\ MaxRules \in Nat /\ MaxWrites \in Nat /\ MaxTime \in Nat /\ MaxFailures \in Nat
  /\ {Broken, NoFile} \subseteq RuleFiles
  /\ RuleFiles \ {Broken, NoFile} \subseteq Seq(RuleSpecs)
  /\ Packets \subseteq Frames

VARIABLES rulesFile, mtime,    \* rules.yaml: its content and modification time
          polling, statted, slotNo, \* the poller: its step, the time it saw, the next slot
          lastModTime,
          cur,            \* the rules it installs or has installed, in order
          slots, count,   \* the maps "rules" and "config"
          scan,           \* the packet under way
          old,            \* ghost: the rules installed before cur
          intact, wasIntact, \* ghost: no Put of the installation of cur, of old, has failed
          during,         \* ghost: the lists of rules in use since the scan began, if known
          newest, fresh,  \* ghost: newest modification time so far; the file is newer than any before
          writes, failures

editor == <<rulesFile, mtime, newest, fresh, writes>>
poller == <<polling, statted, slotNo, lastModTime, cur, old, intact, wasIntact, failures>>
maps == <<slots, count>>
xdpVars == <<editor, poller, maps, scan, during>>

-----------------------------------------------------------------------------
(* Addresses and ports as registers of a little-endian host *)

Little(b, w) == b[1] + w * b[2]
Big(b, w) == w * b[1] + b[2]
FromBig(n, w) == <<n \div w, n % w>>

MaskBytes(len) == CASE len = 0 -> <<0, 0>> [] len = 1 -> <<2, 0>> [] len = 2 -> <<3, 0>>
                    [] len = 3 -> <<3, 2>> [] len = 4 -> <<3, 3>>

AllOnes == Little(<<3, 3>>, 4)

\* parseCIDR
ParseCIDR(cidr) ==
  CASE cidr.kind = "empty"   -> [ip |-> 0, mask |-> 0]
    [] cidr.kind = "address" -> [ip |-> Little(cidr.ip, 4), mask |-> AllOnes]
    [] cidr.kind = "prefix"  ->
         [ip |-> Little(cidr.ip, 4),
          mask |-> Little(FromBig(Big(MaskBytes(cidr.len), 4), 4), 4)]
    [] cidr.kind = "other"   -> [ip |-> AllOnes, mask |-> AllOnes]

htons(port) == Little(FromBig(port, 2), 2)

ProtoToUint8(proto) ==
  LET p == ToUpper(proto) IN CASE p = "ICMP" -> 1 [] p = "TCP" -> 6 [] p = "UDP" -> 17 [] OTHER -> 0

ActionToUint8(action) == IF ToUpper(action) = "PASS" THEN 1 ELSE 0

\* What syncRules makes of a rule.
Compile(r) ==
  [src |-> ParseCIDR(r.src), dst |-> ParseCIDR(r.dst), port |-> htons(r.port),
   proto |-> ProtoToUint8(r.proto), action |-> ActionToUint8(r.action)]

\* A slot no rule was ever put into: all zero, it matches everything.
Zero == [src |-> [ip |-> 0, mask |-> 0], dst |-> [ip |-> 0, mask |-> 0],
         port |-> 0, proto |-> 0, action |-> 0]

\* The bits of a register that are 1; those of a & b are in both.
Ones(n) == {i \in 1..4 : (n \div <<1, 2, 4, 8>>[i]) % 2 = 1}

\* The match of firewall_filter: registers are loaded from the bytes of the
\* packet; only TCP and UDP with a whole header have a port.
Masked(reg, cidr) == Ones(reg) \cap Ones(cidr.mask) = Ones(cidr.ip) \cap Ones(cidr.mask)
DstPort(p) == IF p.proto \in {6, 17} /\ p.whole THEN Little(p.dport, 2) ELSE 0
Matches(slot, p) ==
  /\ Masked(Little(p.src, 4), slot.src)
  /\ Masked(Little(p.dst, 4), slot.dst)
  /\ slot.proto \in {0, p.proto}
  /\ slot.port \in {0, DstPort(p)}

-----------------------------------------------------------------------------
Parses(f) == f \notin {Broken, NoFile}

\* sort.Slice is not stable: rules of one priority come in any order.
ByPriority(l) == \A i, j \in DOMAIN l : i < j => l[i].priority <= l[j].priority
Sorted(f) == {l \in {[i \in DOMAIN f |-> f[p[i]]] : p \in SetToSeqs(DOMAIN f)} : ByPriority(l)}

RuleLists == UNION {Sorted(f) : f \in {g \in RuleFiles : Parses(g)}}
NoScan == [step |-> "idle"]

XdpTypeOK ==
  /\ rulesFile \in RuleFiles /\ mtime \in 0..MaxTime /\ newest \in 0..MaxTime
  /\ polling \in {"sleep", "load", "put"} /\ slotNo \in 1..MaxRules + 1
  /\ statted \in 0..MaxTime /\ lastModTime \in 0..MaxTime
  /\ {cur, old} \cup during \subseteq RuleLists \cup {<<>>}
  /\ slots \in [1..MaxRules -> {Zero} \cup {Compile(r) : r \in UNION {Range(l) : l \in RuleLists}}]
  /\ count \in 0..MaxRules
  /\ scan.step \in {"idle", "slot", "action", "done"}
  /\ {fresh, intact, wasIntact} \subseteq BOOLEAN
  /\ writes \in 0..MaxWrites /\ failures \in 0..MaxFailures

XdpInit ==
  /\ rulesFile = NoFile /\ mtime = 0 /\ newest = 0 /\ fresh = FALSE /\ writes = 0
  /\ polling = "sleep" /\ statted = 0 /\ slotNo = 1 /\ lastModTime = 0
  /\ cur = <<>> /\ old = <<>> /\ intact = TRUE /\ wasIntact = TRUE /\ failures = 0
  /\ slots = [i \in 1..MaxRules |-> Zero] /\ count = 0
  /\ scan = NoScan /\ during = {}

\* The editor replaces, breaks or deletes the file; a restored file may bring
\* an old time with it, and two writes may share one.
Write ==
  /\ writes < MaxWrites /\ writes' = writes + 1
  /\ rulesFile' \in RuleFiles \ {rulesFile}
  /\ mtime' \in 1..MaxTime
  /\ fresh' = (mtime' > newest)
  /\ newest' = IF fresh' THEN mtime' ELSE newest
  /\ UNCHANGED <<poller, maps, scan, during>>

-----------------------------------------------------------------------------
(* The poller *)

Stat ==
  /\ polling = "sleep"
  /\ rulesFile # NoFile
  /\ mtime > lastModTime
  /\ statted' = mtime
  /\ polling' = "load"
  /\ UNCHANGED <<editor, slotNo, lastModTime, cur, old, intact, wasIntact, failures, maps, scan, during>>

\* loadConfig reads the file as it is now; when that fails lastModTime stays.
LoadFails ==
  /\ polling = "load"
  /\ ~Parses(rulesFile)
  /\ polling' = "sleep"
  /\ UNCHANGED <<editor, statted, slotNo, lastModTime, cur, old, intact, wasIntact, failures,
                 maps, scan, during>>

Load ==
  /\ polling = "load"
  /\ Parses(rulesFile)
  /\ cur' \in Sorted(rulesFile)
  /\ old' = cur /\ wasIntact' = intact /\ intact' = TRUE
  /\ slotNo' = 1
  /\ polling' = "put"
  /\ during' = IF during = {} THEN {} ELSE during \cup {cur'}
  /\ UNCHANGED <<editor, statted, lastModTime, failures, maps, scan>>

\* Mutants: the count is written first; the time is taken when all is done.
Mutant_CountAt(n) == IF slotNo = 1 THEN n ELSE count
Mutant_SeenTime == mtime

\* The count while slot k is being written, of n.
CountAt(n) == count
SeenTime == statted

\* Rules beyond the size of the map are left out.
Installing == IF Len(cur) < MaxRules THEN Len(cur) ELSE MaxRules

Put ==
  /\ polling = "put" /\ slotNo <= Installing
  /\ slots' = [slots EXCEPT ![slotNo] = Compile(cur[slotNo])]
  /\ count' = CountAt(Installing)
  /\ slotNo' = slotNo + 1
  /\ UNCHANGED <<editor, polling, statted, lastModTime, cur, old, intact, wasIntact, failures, scan, during>>

PutCount ==
  /\ polling = "put" /\ slotNo = Installing + 1
  /\ count' = slotNo - 1
  /\ lastModTime' = SeenTime
  /\ polling' = "sleep"
  /\ UNCHANGED <<editor, statted, slotNo, cur, old, intact, wasIntact, failures, slots, scan, during>>

\* A Put that fails leaves in the map what was there, and the poller goes on: to
\* the next rule, or to sleep with the time of the file remembered.
Fails == failures < MaxFailures /\ failures' = failures + 1 /\ intact' = FALSE

PutFails ==
  /\ polling = "put" /\ slotNo <= Installing
  /\ Fails
  /\ slotNo' = slotNo + 1
  /\ UNCHANGED <<editor, polling, statted, lastModTime, cur, old, wasIntact, maps, scan, during>>

PutCountFails ==
  /\ polling = "put" /\ slotNo = Installing + 1
  /\ Fails
  /\ lastModTime' = SeenTime
  /\ polling' = "sleep"
  /\ UNCHANGED <<editor, statted, slotNo, cur, old, wasIntact, maps, scan, during>>

-----------------------------------------------------------------------------
(* The packet *)

\* The map holds the rules of cur, or in an installation those of old and cur: no
\* Put of the installations that they come from has failed.
MapKnown == IF polling = "put" THEN wasIntact ELSE intact
InUse == IF ~MapKnown THEN {} ELSE IF polling = "put" THEN {old, cur} ELSE {cur}

Begin(p) ==
  /\ scan = NoScan /\ p.ipv4
  /\ scan' = [step |-> "slot", packet |-> p, rules |-> count, i |-> 1]
  /\ during' = InUse
  /\ UNCHANGED <<editor, poller, maps>>

\* Frames that are short or not IPv4 are not the firewall's: they pass.
PassOther(p) ==
  /\ scan = NoScan /\ ~p.ipv4
  /\ scan' = [step |-> "done", packet |-> p, action |-> 1]
  /\ during' = InUse
  /\ UNCHANGED <<editor, poller, maps>>

\* Slot i may be half written while it is read.
Racing(i) == polling = "put" /\ slotNo = i /\ i <= Installing /\ slots[i] # Compile(cur[i])

\* One turn of the loop: a slot that is being written matches or not.
ReadSlot ==
  /\ scan.step = "slot"
  /\ scan.i <= scan.rules
  /\ \E matched \in IF Racing(scan.i) THEN BOOLEAN ELSE {Matches(slots[scan.i], scan.packet)} :
       scan' = IF matched THEN [scan EXCEPT !.step = "action"] ELSE [scan EXCEPT !.i = @ + 1]
  /\ UNCHANGED <<editor, poller, maps, during>>

Done(action) == [step |-> "done", packet |-> scan.packet, action |-> action]

\* The action is read after the match, from whatever is in the slot by then.
ReadAction ==
  /\ scan.step = "action"
  /\ \E slot \in {slots[scan.i]} \cup (IF Racing(scan.i) THEN {Compile(cur[scan.i])} ELSE {}) :
       scan' = Done(slot.action)
  /\ UNCHANGED <<editor, poller, maps, during>>

Default == 0

NoMatch ==
  /\ scan.step = "slot"
  /\ scan.i > scan.rules
  /\ scan' = Done(Default)
  /\ UNCHANGED <<editor, poller, maps, during>>

NextPacket ==
  /\ scan.step = "done"
  /\ scan' = NoScan /\ during' = {}
  /\ UNCHANGED <<editor, poller, maps>>

PollRules == Stat \/ LoadFails \/ Load \/ Put \/ PutCount \/ PutFails \/ PutCountFails

XdpNext ==
  \/ Write \/ PollRules
  \/ \E p \in Packets : Begin(p) \/ PassOther(p)
  \/ ReadSlot \/ ReadAction \/ NoMatch \/ NextPacket

\* The poller is a goroutine that sleeps and goes on, whether a Put fails or not.
XdpSpec == XdpInit /\ [][XdpNext]_xdpVars
XdpFairSpec == XdpSpec /\ WF_xdpVars(PollRules)

-----------------------------------------------------------------------------
(* Properties *)

\* The addresses a CIDR stands for, bit by bit.
Bits(b) == <<b[1] \div 2, b[1] % 2, b[2] \div 2, b[2] % 2>>
InCIDR(b, cidr) ==
  CASE cidr.kind = "empty"   -> TRUE
    [] cidr.kind = "address" -> b = cidr.ip
    [] cidr.kind = "prefix"  -> SubSeq(Bits(b), 1, cidr.len) = SubSeq(Bits(cidr.ip), 1, cidr.len)
    [] cidr.kind = "other"   -> b = <<3, 3>>

\* A packet is of a rule as the file says it: byte orders left out.
Covers(r, p) ==
  /\ InCIDR(p.src, r.src) /\ InCIDR(p.dst, r.dst)
  /\ ToUpper(r.proto) \in {"ICMP", "TCP", "UDP"} => p.proto = ProtoToUint8(r.proto)
  /\ r.port # 0 => p.proto \in {6, 17} /\ p.whole /\ Big(p.dport, 2) = r.port

\* The actions a list of rules has for a packet: those of the rules of lowest
\* priority that cover it, of the MaxRules of lowest priority.
Kept(l) == {i \in DOMAIN l : Cardinality({j \in DOMAIN l : l[j].priority < l[i].priority}) < MaxRules}
Verdicts(l, p) ==
  LET hits == {i \in Kept(l) : Covers(l[i], p)}
      best == {i \in hits : \A j \in hits : l[i].priority <= l[j].priority}
      cut  == Cardinality(Kept(l)) > MaxRules   \* equal priorities at the limit: some are left out
  IN  {ActionToUint8(l[i].action) : i \in best}
        \cup (IF hits = {} \/ cut THEN {0} ELSE {})

\* An IPv4 packet judged while nothing is being installed, and after an
\* installation of which no Put failed, gets the action of the rule of lowest
\* priority that covers it, and is dropped without one, whatever the byte order
\* of addresses, masks and ports (main.go parseCIDR, htons, syncRules; firewall.c
\* firewall_filter).
QuietVerdict ==
  scan.step = "done" /\ scan.packet.ipv4 /\ Cardinality(during) = 1 =>
    \A l \in during : scan.action \in Verdicts(l, scan.packet)

\* The slots in use hold rules of the list that is being installed or of the
\* one before it: what older and longer lists left in the map never comes back,
\* and what a failed Put has left is gone after the next installation without one
\* (main.go syncRules: the count is written last).
NoLeftovers ==
  MapKnown => \A i \in 1..count : \E l \in {old, cur} : i <= Len(l) /\ slots[i] = Compile(l[i])

\* An IPv4 packet that finds the map as it was installed passes only when some
\* list in use since its scan began has a rule that passes packets, however the
\* scan, the installation and its failures interleave.
PassNeedsAPassRule ==
  scan.step = "done" /\ scan.packet.ipv4 /\ scan.action = 1 /\ during # {} =>
    \E l \in during : \E r \in Range(l) : ToUpper(r.action) = "PASS"

\* However packets and the poller interleave: an IPv4 packet that no installation
\* overlaps is judged as the file says, no rule comes back that was replaced, and
\* what passes was let through by a rule, but for what a Put that failed has left
\* until the next installation is whole (main.go syncRules, firewall.c
\* firewall_filter).
PacketsJudged == QuietVerdict /\ NoLeftovers /\ PassNeedsAPassRule

Installed ==
  /\ polling = "sleep" /\ cur \in Sorted(rulesFile)
  /\ intact => count = Installing /\ \A i \in 1..count : slots[i] = Compile(cur[i])

\* The last version of the file is written to the map in the end, when it parses
\* and is newer than every version before it, whatever was written between the
\* poller's look at the time and its read of the content; it is then in force
\* unless a Put of it failed, which is not repeated (main.go 100-125, 351-360).
FreshIsInstalled == <>[](fresh /\ Parses(rulesFile) => Installed)
=============================================================================
