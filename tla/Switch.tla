------------------------------- MODULE Switch -------------------------------
(***************************************************************************)
(* The data plane of switch/master/master.p4 between a trigger and the     *)
(* RDMA NIC of the introspected host. A trigger is a forged READ response  *)
(* that carries a start address; every response that enters the switch is  *)
(* turned, in one pass through the ingress and the egress pipeline, into   *)
(* the next READ request or is dropped at the end of the walk. The         *)
(* registers of the pipeline are the only memory of the walk.              *)
(*                                                                         *)
(* An address is one number. The guest's address space is, upwards: NULL   *)
(* and physical memory; the direct map from DirectBase; vmalloc space from *)
(* VmallocBase; the kernel image from ImageBase; modules from ModuleBase.  *)
(***************************************************************************)
EXTENDS Integers, Sequences, FiniteSets, MatchAction

CONSTANTS
  Scenario,       \* set of [tbl, init, start, owner, mem, field, chk]: the tables, the
                  \* QPN and the address every policy's trigger carries, the policy of
                  \* every client QPN, the guest's memory, the number of the field a
                  \* client QPN reads, and the bounds <<low, high>> every field of a
                  \* policy is asserted to lie in, or <<>>
  Policies,       \* the policies, numbered as main.cc numbers them
  ServerQpn,      \* QPNs of the server's ends of the connections
  Coef,           \* client QPN - server QPN of a connection
  DirectBase, VmallocBase, ImageBase, ModuleBase, PhysBase,
  Page, Radix, Nx,     \* words per page, entries per table, the no-execute bit
  Half,                \* half of the low word of a value, for range checks
  CountMod, PsnMod,    \* 2^32 of max_entry, 2^24 of a PSN
  AddrRegs, PageRegs, MaxRegs, PsnRegs,    \* instance_count of the registers
  FirstPsn,            \* the PSN connection setup agreed on
  MaxTriggers,         \* bound: triggers per policy
  MaxLoss,             \* bound: packets the network may lose per queue
  Overlap              \* policies that may be triggered while they are walking

VARIABLES
  scn,      \* the scenario, fixed when switch and guest are set up
  reg,      \* the registers of the pipeline
  up,       \* client QPN -> responses on their way to the switch
  down,     \* server QPN -> requests on their way to the NIC
  nic,      \* server QPN -> PSN the NIC expects next
  log,      \* policy -> READ responses mirrored since its last trigger
  alarm,    \* policy -> values reported out of range since its last trigger
  trig,     \* policy -> triggers sent
  ended,    \* policy -> walks that ended
  stray,    \* dqpn of requests no connection owns
  refused,  \* server QPNs on which the NIC answered a request with a NAK
  lost      \* server QPN -> requests and responses lost

vars == <<scn, reg, up, down, nic, log, alarm, trig, ended, stray, refused, lost>>

ClientQpn == {q + Coef : q \in ServerQpn}
Installed == Scenario       \* a definition, so that TLC evaluates it once
Tbl == scn.tbl
Mem == scn.mem

Hit(t, k) == k \in DOMAIN Tbl[t]
Act(t, k) == Tbl[t][k].act
Arg(t, k) == Tbl[t][k].arg[1]

\* What setup_qpn_ts.cmd and the compiler's rows agree on with the declarations
\* of master.p4: register indices below instance_count, numbers as parameters,
\* and a PSN register of its own for every connection.
Sends(t, name, S) == \A k \in DOMAIN t[name] : t[name][k].arg[1] \in S
ASSUME SizeAssumption ==
  /\ {Half, CountMod, PsnMod, Page, Radix, Nx} \subseteq Nat \ {0}
  /\ {Coef, DirectBase, ImageBase, PhysBase} \subseteq Int
  /\ ServerQpn \subseteq Int \ {0}           \* QPN 0 is no connection's
  /\ FirstPsn \in 0..(PsnMod - 1)
ASSUME TableAssumption ==
  \A sc \in Scenario :
    LET t == sc.tbl IN
    /\ Sends(t, "cache_process_addr_to_reg", AddrRegs)
    /\ Sends(t, "cache_process_page_addr_to_reg", PageRegs)
    /\ Sends(t, "cache_dqpn_page_walk", PageRegs)
    /\ Sends(t, "cache_qpn_page_walk", PageRegs)
    /\ Sends(t, "read_update_max_entry", MaxRegs)
    /\ Sends(t, "read_update_psn", PsnRegs)
    /\ \A k1, k2 \in DOMAIN t["read_update_psn"] :
         t["read_update_psn"][k1].arg[1] = t["read_update_psn"][k2].arg[1] => k1 = k2
    /\ \A name \in {"cache_len_into_md", "mark_vmalloc_bit_p1", "direct_transfer",
                    "encode_mod_offset", "encode_mod_offset_pre", "cache_size_into_md"} :
         Sends(t, name, Int)
    /\ \A name \in {"end_transfer", "check_null", "pgt_transfer"} :
         Sends(t, name, Int) /\ \A k \in DOMAIN t[name] : t[name][k].arg[2] \in Int
    /\ \A k \in DOMAIN t["add_offset"] :
         t["add_offset"][k].act = "pgd" => t["add_offset"][k].arg[1] \in Int
ASSUME GuestAssumption ==
  \A sc \in Scenario :
    /\ sc.init \in [Policies -> {q + Coef : q \in ServerQpn}]
    /\ sc.start \in [Policies -> Int]
    /\ sc.owner \in [{q + Coef : q \in ServerQpn} -> Policies]
    /\ \A a \in DOMAIN sc.mem : sc.mem[a] \in Int


\* What the compiler gives to policy p. Its states: the QPNs of its connections,
\* at either end (pgt_mod_dqpn takes a server QPN for one), twenty fake states and
\* the final one. Where a packet of p may be headed: its connections, the end, or
\* nowhere (0 and -1, the "no QPN" of the compiler). Levels are the client QPNs a
\* page walk reads its four tables through.
Clients(sc, p) == {q \in ClientQpn : sc.owner[q] = p}
Servers(sc, p) == {d \in ServerQpn : sc.owner[d + Coef] = p}
States(sc, p) ==
  Clients(sc, p) \union Servers(sc, p) \union (20*p .. (20*p + 19)) \union {998 - p}
Goals(sc, p) == Clients(sc, p) \union Servers(sc, p) \union {0, -1, 999 - p}
Levels(sc) ==
  {k[1] : k \in DOMAIN sc.tbl["mark_walking_bit"]}
    \union {k[1] : k \in {x \in DOMAIN sc.tbl["pgt_transfer"] : x[2] = 0}}
LevelGoals(sc) == {d \in ServerQpn : d + Coef \in Levels(sc)}

\* The rows that a packet of p can hit.
Own(sc, p, name) == {k \in DOMAIN sc.tbl[name] : k[1] \in States(sc, p)}

\* The rows of p keep a packet p's. Its connections are p's at both ends, and a
\* walk ends in its final state only;
PlacesOwn(sc, p) ==
  /\ sc.init[p] \in Clients(sc, p) \ Levels(sc)
  /\ Clients(sc, p) \intersect ({999 - p} \union ServerQpn) = {}
  /\ Goals(sc, p) \intersect ServerQpn \subseteq Servers(sc, p)
  /\ \A d \in Goals(sc, p) : <<d>> \in DOMAIN sc.tbl["end_of_fetching"] => d = 999 - p
\* transitions lead to states and goals of p, never into the middle of a page walk;
TransfersOwn(sc, p) ==
  LET t == sc.tbl
      Away == Goals(sc, p) \ LevelGoals(sc)
  IN  /\ \A name \in {"end_transfer", "check_null"} : \A k \in Own(sc, p, name) :
           /\ t[name][k].arg[1] \in States(sc, p) \ Levels(sc)
           /\ t[name][k].arg[2] \in Away
           /\ t[name][k].arg[2] = 999 - p => t[name][k].arg[1] = 998 - p
      /\ \A k \in Own(sc, p, "direct_transfer") :
           t["direct_transfer"][k].arg[1] \in Away \ {999 - p}
\* a page walk of p is entered only where the state is parked, and that state is
\* taken back only in the last level;
WalksOwn(sc, p) ==
  LET walk == sc.tbl["pgt_transfer"]
      park == sc.tbl["cache_qpn_page_walk"]
  IN  /\ \A k \in Own(sc, p, "pgt_transfer") :
           /\ k[1] # 998 - p
           /\ walk[k].arg[1] \in Servers(sc, p) /\ walk[k].arg[2] \in States(sc, p)
           /\ k[2] # 0 => /\ <<k[1], k[2], 0>> \in DOMAIN park
                          /\ park[<<k[1], k[2], 0>>].act = "cache"
      /\ \A name \in {"cache_dqpn_page_walk", "cache_qpn_page_walk"} :
           \A k \in Own(sc, p, name) :
             k[1] # 998 - p /\ (sc.tbl[name][k].act # "cache" => k[3] # 0)
\* and the registers named are p's.
RegistersOwn(sc, p) ==
  LET Uses(name, S) == \A k \in Own(sc, p, name) : sc.tbl[name][k].arg[1] \in S
  IN  /\ Uses("cache_dqpn_page_walk", {p})
      /\ Uses("cache_qpn_page_walk", {p})
      /\ Uses("cache_process_page_addr_to_reg", {p})
      /\ Uses("cache_process_addr_to_reg", 15*p .. (15*p + 14))
      /\ Uses("read_update_max_entry", 3*p .. (3*p + 2))
\* main.cc keeps the policies apart this way as long as none has more than three
\* counted loops, fifteen base addresses or twenty loops.
ASSUME OwnAssumption ==
  /\ Policies \subseteq Nat
  /\ \A sc \in Scenario, p \in Policies :
       PlacesOwn(sc, p) /\ TransfersOwn(sc, p) /\ WalksOwn(sc, p) /\ RegistersOwn(sc, p)

\* The rows of a field that is asserted to lie in <<low, high>>: an alarm when both
\* range checks miss, and at most the ranges gen_readload_code gives them.
BoundsOf(sc, q) ==
  IF q \in DOMAIN sc.field THEN sc.chk[sc.owner[q]][sc.field[q]] ELSE <<>>
ASSUME CheckAssumption ==
  \A sc \in Scenario : \A q \in ClientQpn :
    LET t == sc.tbl
        b == BoundsOf(sc, q)
    IN b # <<>> =>
       /\ b[1] \in Nat /\ b[2] \in Nat
       /\ <<q, 0, 0>> \in DOMAIN t["gen_mali_alarm"]
       /\ \A k \in DOMAIN t["exact_match"] : k[1] = q =>
            k \in { <<q, b[2] \div Half, 0, b[2] % Half>>,
                    <<q, b[1] \div Half, b[1] % Half, Half - 1>> }
       /\ \A k \in DOMAIN t["range_match"] : k[1] = q =>
            k = <<q, b[1] \div Half + 1, b[2] \div Half - 1>>

-----------------------------------------------------------------------------
(* Parser. A response carries the dqpn and, as payload, one word.          *)

Parse(q, v) ==
  [qpn |-> q, dqpn |-> q, addr |-> v, max_len |-> 0, addr_type |-> 0,
   vmalloc_bit |-> 0, walking_bit |-> 0, k1 |-> 0, k2 |-> 0, end_bit |-> 0,
   iter_entry |-> 0, mod_value |-> 0, cached_addr |-> 0, page_offset |-> 0,
   entry_size |-> 0, psn |-> 0, drop |-> FALSE]

\* The type of an address by its upper bits: 1 image and modules, 2 direct map
\* and vmalloc, 0 physical.
AddrType(a) == IF a >= ImageBase THEN 1 ELSE IF a >= DirectBase THEN 2 ELSE 0

\* mark_vmalloc_bit_p2: the byte tests 0xc0 and 0xa0 of setup_qpn_ts.cmd.
VmallocRange(type, a) ==
  \/ type = 1 /\ a >= ModuleBase
  \/ type = 2 /\ a >= VmallocBase

-----------------------------------------------------------------------------
(* Ingress. s is [m, r]: the packet's metadata and the registers.          *)

MarkWalking(s) ==
  IF Hit("mark_walking_bit", <<s.m.dqpn>>) THEN [s EXCEPT !.m.walking_bit = 1] ELSE s

CacheLen(s) ==
  IF Hit("cache_len_into_md", <<s.m.qpn>>)
  THEN [s EXCEPT !.m.max_len = Arg("cache_len_into_md", <<s.m.qpn>>)] ELSE s

MarkVmalloc(s) ==
  LET k == <<s.m.qpn, AddrType(s.m.addr)>>
      type == IF Hit("mark_vmalloc_bit_p1", k) THEN Arg("mark_vmalloc_bit_p1", k) ELSE 0
  IN  [s EXCEPT !.m.addr_type = type,
                !.m.vmalloc_bit = IF VmallocRange(type, s.m.addr) THEN 1 ELSE 0]

\* exact_match and range_match: is the low word inside the asserted bounds?
BorderOpen(q, hi, lo) ==                                    \* mutant
  \E k \in DOMAIN Tbl["exact_match"] : k[1] = q /\ k[2] = hi /\ k[3] <= lo
Border(q, hi, lo) ==
  \E k \in DOMAIN Tbl["exact_match"] : k[1] = q /\ k[2] = hi /\ k[3] <= lo /\ lo <= k[4]
Middle(q, hi) ==
  \E k \in DOMAIN Tbl["range_match"] : k[1] = q /\ k[2] <= hi /\ hi <= k[3]
RangeMatch(s) ==
  LET hi == (s.m.addr \div Half) % Half
      lo == s.m.addr % Half
  IN  [s EXCEPT !.m.k1 = IF Border(s.m.qpn, hi, lo) THEN 1 ELSE 0,
                !.m.k2 = IF Middle(s.m.qpn, hi) THEN 1 ELSE 0]

EndTransfer(s) ==
  LET k == <<s.m.qpn>> IN
  IF Hit("end_transfer", k)
  THEN [s EXCEPT !.m.qpn = Arg("end_transfer", k), !.m.dqpn = Tbl["end_transfer"][k].arg[2]]
  ELSE s

CheckNull(s) ==
  LET k == <<s.m.qpn, s.m.addr>> IN
  IF Hit("check_null", k)
  THEN [s EXCEPT !.m.qpn = Arg("check_null", k), !.m.dqpn = Tbl["check_null"][k].arg[2]]
  ELSE s

\* A trip count is loaded before the loop, from the response or from the row.
\* update_max_entry leaves 1 in iter_entry on the last round and 2 otherwise,
\* and decrements the register in the latter case.
LoadCountOnce(old, n) == IF old = 0 THEN n % CountMod ELSE old      \* mutant
LoadCount(old, n) == n % CountMod
MaxEntryAt(s, i, last) ==
  LET k == <<s.m.qpn>>
      a == Act("read_update_max_entry", k)
  IN  IF ~Hit("read_update_max_entry", k) THEN s
      ELSE IF a = "read_max_entry" THEN [s EXCEPT !.r.max[i] = LoadCount(@, s.m.addr)]
      ELSE IF a = "read_const_length" THEN [s EXCEPT !.r.max[i] = LoadCount(@, s.m.max_len)]
      ELSE IF s.r.max[i] = last THEN [s EXCEPT !.m.iter_entry = 1]
      ELSE [s EXCEPT !.m.iter_entry = 2, !.r.max[i] = (@ - 1) % CountMod]
CountRegister(s) == Arg("read_update_max_entry", <<s.m.qpn>>)
MaxEntryToZero(s) == MaxEntryAt(s, CountRegister(s), 0)     \* mutant
MaxEntryShared(s) == MaxEntryAt(s, 0, 1)                    \* mutant
MaxEntry(s) == MaxEntryAt(s, CountRegister(s), 1)

TraverseEnd(s) ==
  IF Hit("check_traverse_end", <<s.m.qpn, s.m.addr>>) THEN [s EXCEPT !.m.end_bit = 1] ELSE s

DirectTransfer(s) ==
  LET k == <<s.m.qpn, s.m.end_bit, s.m.iter_entry>> IN
  IF Hit("direct_transfer", k) THEN [s EXCEPT !.m.dqpn = Arg("direct_transfer", k)] ELSE s

EndOfFetchingNop(s) == s                                    \* mutant
EndOfFetching(s) ==
  IF Hit("end_of_fetching", <<s.m.dqpn>>) THEN [s EXCEPT !.m.drop = TRUE] ELSE s

\* Park the state before a page walk, or resume it after the last level. dqpn
\* goes first: reading qpn back changes the key of both tables.
CacheDqpn(s) ==
  LET k == <<s.m.qpn, s.m.vmalloc_bit, s.m.walking_bit>>
      i == Arg("cache_dqpn_page_walk", k)
  IN  IF ~Hit("cache_dqpn_page_walk", k) THEN s
      ELSE IF Act("cache_dqpn_page_walk", k) = "cache" THEN [s EXCEPT !.r.dwalk[i] = s.m.dqpn]
      ELSE [s EXCEPT !.m.dqpn = s.r.dwalk[i]]

CacheQpn(s) ==
  LET k == <<s.m.qpn, s.m.vmalloc_bit, s.m.walking_bit>>
      i == Arg("cache_qpn_page_walk", k)
  IN  IF ~Hit("cache_qpn_page_walk", k) THEN s
      ELSE IF Act("cache_qpn_page_walk", k) = "cache" THEN [s EXCEPT !.r.qwalk[i] = s.m.qpn]
      ELSE [s EXCEPT !.m.qpn = s.r.qwalk[i]]

PgtTransfer(s) ==
  LET k == <<s.m.qpn, s.m.vmalloc_bit>> IN
  IF Hit("pgt_transfer", k)
  THEN [s EXCEPT !.m.dqpn = Arg("pgt_transfer", k), !.m.qpn = Tbl["pgt_transfer"][k].arg[2]]
  ELSE s

\* encode_mod_offset_pre and mod_field_parameters_pre: a constant move.
ModOffsetPre(s) ==
  LET k == <<s.m.qpn, s.m.dqpn>>
      n == IF Hit("encode_mod_offset_pre", k) THEN Arg("encode_mod_offset_pre", k)
                                              ELSE s.m.mod_value
      t == "mod_field_parameters_pre"
  IN  IF ~Hit(t, k) THEN [s EXCEPT !.m.mod_value = n]
      ELSE IF Act(t, k) = "mod_field_parameters_add_pre"
      THEN [s EXCEPT !.m.mod_value = n, !.m.addr = @ + n]
      ELSE [s EXCEPT !.m.mod_value = n, !.m.addr = @ - n]

Checks(s) == RangeMatch(MarkVmalloc(CacheLen(MarkWalking(s))))
Transfers(s) ==
  EndOfFetching(DirectTransfer(TraverseEnd(MaxEntry(CheckNull(EndTransfer(s))))))
Ingress(s) == ModOffsetPre(PgtTransfer(CacheQpn(CacheDqpn(Transfers(Checks(s))))))

-----------------------------------------------------------------------------
(* Egress.                                                                 *)

CacheSize(s) ==
  IF Hit("cache_size_into_md", <<s.m.qpn>>)
  THEN [s EXCEPT !.m.entry_size = Arg("cache_size_into_md", <<s.m.qpn>>)] ELSE s

PageAddr(s) ==
  LET t == "cache_process_page_addr_to_reg"
      k == <<s.m.qpn, s.m.walking_bit>>
      i == Arg(t, k)
  IN  IF ~Hit(t, k) THEN s
      ELSE IF Act(t, k) = "cache"
      THEN [s EXCEPT !.r.page[i] = s.m.addr, !.m.cached_addr = s.m.addr]
      ELSE [s EXCEPT !.m.cached_addr = s.r.page[i]]

\* The bits of the cached address that index each level of the page tables.
TableOffset(level, a) ==
  CASE level = "pgd"  -> (a \div (Page * Radix * Radix * Radix)) % Radix
    [] level = "pud"  -> (a \div (Page * Radix * Radix)) % Radix
    [] level = "pmd"  -> (a \div (Page * Radix)) % Radix
    [] level = "pte"  -> (a \div Page) % Radix
    [] level = "page" -> a % Page
    [] OTHER          -> 0

AddOffsets(s) ==
  LET k == <<s.m.qpn, s.m.walking_bit>> IN
  IF ~Hit("add_offset", k) THEN s
  ELSE [s EXCEPT
         !.m.page_offset = TableOffset(Act("add_offset", k), s.m.cached_addr),
         !.m.addr = IF Act("add_offset", k) = "pgd" THEN Arg("add_offset", k) ELSE @]

\* Strip the attribute bits of a table entry, then add the offset.
MaskAndMakeUp(s) ==
  LET k == <<s.m.qpn, s.m.walking_bit>>
      base == IF Hit("mask_base_addr", k)
              THEN (s.m.addr % Nx) - (s.m.addr % Page) ELSE s.m.addr
  IN  [s EXCEPT !.m.addr = IF Hit("make_up_addr", k) THEN base + s.m.page_offset ELSE base]

ProcessAddr(s) ==
  LET t == "cache_process_addr_to_reg"
      k == <<s.m.qpn, s.m.dqpn>>
      i == Arg(t, k)
  IN  IF ~Hit(t, k) THEN s
      ELSE IF Act(t, k) = "write" THEN [s EXCEPT !.r.addr[i] = s.m.addr]
      ELSE IF Act(t, k) = "read" THEN [s EXCEPT !.m.addr = s.r.addr[i]]
      ELSE [s EXCEPT !.m.addr = s.r.addr[i] + s.m.entry_size,
                     !.r.addr[i] = s.r.addr[i] + s.m.entry_size]

\* trans_mode and addr_translation: direct map and image become physical.
Linear(a, phys) ==
  IF AddrType(a) = 1 THEN a - ImageBase + phys ELSE IF AddrType(a) = 2 THEN a - DirectBase ELSE a
TranslateNoBase(s) == [s EXCEPT !.m.addr = Linear(@, 0)]    \* mutant
Translate(s) == [s EXCEPT !.m.addr = Linear(@, PhysBase)]

ModOffset(s) ==
  LET k == <<s.m.qpn, s.m.dqpn>>
      n == IF Hit("encode_mod_offset", k) THEN Arg("encode_mod_offset", k) ELSE s.m.mod_value
      t == "mod_field_parameters"
  IN  IF ~Hit(t, k) THEN [s EXCEPT !.m.mod_value = n]
      ELSE IF Act(t, k) = "mod_field_parameters_add"
      THEN [s EXCEPT !.m.mod_value = n, !.m.addr = @ + n]
      ELSE [s EXCEPT !.m.mod_value = n, !.m.addr = @ - n]

NextPsnStuck(n) == n                                        \* mutant
NextPsnWide(n) == n + 1                                     \* mutant
NextPsn(n) == (n + 1) % PsnMod
UpdatePsn(s) ==
  LET k == <<s.m.dqpn>>
      i == Arg("read_update_psn", k)
  IN  IF ~Hit("read_update_psn", k) THEN s
      ELSE [s EXCEPT !.r.psn[i] = NextPsn(@), !.m.psn = NextPsn(s.r.psn[i])]

Egress(s) ==
  UpdatePsn(ModOffset(Translate(ProcessAddr(MaskAndMakeUp(AddOffsets(PageAddr(CacheSize(s))))))))

-----------------------------------------------------------------------------
(* Actions.                                                                *)

Init ==
  /\ scn \in Installed
  /\ reg = [addr  |-> [i \in AddrRegs |-> 0], page |-> [i \in PageRegs |-> 0],
            dwalk |-> [i \in PageRegs |-> 0], qwalk |-> [i \in PageRegs |-> 0],
            max   |-> [i \in MaxRegs |-> 0],
            psn   |-> [i \in PsnRegs |-> (FirstPsn - 1) % PsnMod]]
  /\ up = [q \in ClientQpn |-> <<>>]
  /\ down = [q \in ServerQpn |-> <<>>]
  /\ nic = [q \in ServerQpn |-> FirstPsn]
  /\ log = [p \in Policies |-> <<>>]
  /\ alarm = [p \in Policies |-> {}]
  /\ trig = [p \in Policies |-> 0]
  /\ ended = [p \in Policies |-> 0]
  /\ stray = {}
  /\ refused = {}
  /\ lost = [q \in ServerQpn |-> [req |-> 0, resp |-> 0]]

\* The policy a client QPN, and the server's end of the same connection, serves.
Owner(q) == scn.owner[q]
Quiet(p) == \A q \in ServerQpn :
              Owner(q + Coef) = p => up[q + Coef] = <<>> /\ down[q] = <<>>

\* control/send.cpp forges a response that carries the policy's start address.
Trigger(p) ==
  /\ trig[p] < MaxTriggers
  /\ p \in Overlap \/ Quiet(p)
  /\ trig' = [trig EXCEPT ![p] = @ + 1]
  /\ log' = [log EXCEPT ![p] = <<>>]
  /\ alarm' = [alarm EXCEPT ![p] = {}]
  /\ up' = [up EXCEPT ![scn.init[p]] = Append(@, scn.start[p])]
  /\ UNCHANGED <<scn, reg, down, nic, ended, stray, refused, lost>>

\* The head of a queue leaves it.
PopUp(q)   == up[q] # <<>> /\ up' = [up EXCEPT ![q] = Tail(@)]
PopDown(q) == down[q] # <<>> /\ down' = [down EXCEPT ![q] = Tail(@)]

\* A request leaves for the NIC once; the mirrored copy of the response does not.
SendMirrored(q, d, r) ==                                    \* mutant
  [down EXCEPT ![d] = IF Hit("cloning", <<q>>) THEN @ \o <<r, r>> ELSE Append(@, r)]
Send(q, d, r) == [down EXCEPT ![d] = Append(@, r)]

\* What leaves the switch when a response on q has become in after the ingress
\* and out after the egress pipeline: a mirrored copy, if q is read for a field,
\* and the next request, unless the walk ended.
Emit(q, in, out) ==
  LET v == Head(up[q])
      d == out.m.dqpn
  IN
  /\ reg' = out.r
  /\ log' = IF Hit("cloning", <<q>>)
            THEN [log EXCEPT ![Owner(q)] = Append(@, [qpn |-> q, val |-> v])] ELSE log
  /\ alarm' = IF Hit("cloning", <<q>>) /\ Hit("gen_mali_alarm", <<q, in.m.k1, in.m.k2>>)
              THEN [alarm EXCEPT ![Owner(q)] = @ \union {v}] ELSE alarm
  /\ ended' = IF in.m.drop THEN [ended EXCEPT ![999 - d] = @ + 1] ELSE ended
  /\ down' = IF ~in.m.drop /\ d \in ServerQpn
             THEN Send(q, d, [psn |-> out.m.psn, addr |-> out.m.addr]) ELSE down
  /\ stray' = IF in.m.drop \/ d \in ServerQpn THEN stray ELSE stray \union {d}

\* One pass of a response through the switch.
Pass(q) ==
  /\ PopUp(q)
  /\ \E in \in {Ingress([m |-> Parse(q, Head(up[q])), r |-> reg])} :
     \E out \in {IF in.m.drop THEN in ELSE Egress(in)} : Emit(q, in, out)
  /\ UNCHANGED <<scn, nic, trig, refused, lost>>

\* The NIC executes a READ whose PSN it expects, executes a repeated one again,
\* and answers any other with a NAK, which the switch forwards to a client that
\* never asked: it has no further effect.
Nic(q) ==
  /\ PopDown(q)
  /\ LET r == Head(down[q])
         ahead == (r.psn - nic[q]) % PsnMod
         serve == (ahead = 0 \/ ahead >= PsnMod \div 2) /\ r.addr \in DOMAIN Mem
     IN  /\ nic' = [nic EXCEPT ![q] = IF serve /\ ahead = 0 THEN (@ + 1) % PsnMod ELSE @]
         /\ up' = IF serve THEN [up EXCEPT ![q + Coef] = Append(@, Mem[r.addr])] ELSE up
         /\ refused' = IF serve THEN refused ELSE refused \union {q}
  /\ UNCHANGED <<scn, reg, log, alarm, trig, ended, stray, lost>>

\* Neither the switch nor the trigger keeps a timer: what is lost stays lost.
LoseRequest(q) ==
  /\ lost[q].req < MaxLoss
  /\ PopDown(q)
  /\ lost' = [lost EXCEPT ![q].req = @ + 1]
  /\ UNCHANGED <<scn, reg, up, nic, log, alarm, trig, ended, stray, refused>>

LoseResponse(q) ==
  /\ lost[q].resp < MaxLoss
  /\ PopUp(q + Coef)
  /\ lost' = [lost EXCEPT ![q].resp = @ + 1]
  /\ UNCHANGED <<scn, reg, down, nic, log, alarm, trig, ended, stray, refused>>

Next ==
  \/ \E p \in Policies : Trigger(p)
  \/ \E q \in ClientQpn : Pass(q)
  \/ \E q \in ServerQpn : Nic(q) \/ LoseRequest(q) \/ LoseResponse(q)

Spec == Init /\ [][Next]_vars

\* The switch and the NIC work at line rate: the head of a queue is taken. Only
\* Pass and LoseResponse take it from up, only Nic and LoseRequest from down.
Fairness ==
  /\ \A q \in ClientQpn : WF_up(PopUp(q))
  /\ \A q \in ServerQpn : WF_down(PopDown(q))

FairSpec == Spec /\ Fairness

-----------------------------------------------------------------------------
(* Properties that do not depend on the policies.                          *)

Registers ==
  [addr : [AddrRegs -> Int], page : [PageRegs -> Int], dwalk : [PageRegs -> Int],
   qwalk : [PageRegs -> Int], max : [MaxRegs -> Int], psn : [PsnRegs -> 0..(PsnMod - 1)]]
Request  == [psn : Int, addr : Int]
Response == [qpn : ClientQpn, val : Int]

TypeOK ==
  /\ scn \in Installed
  /\ reg \in Registers
  /\ up \in [ClientQpn -> Seq(Int)]
  /\ down \in [ServerQpn -> Seq(Request)]
  /\ nic \in [ServerQpn -> 0..(PsnMod - 1)]
  /\ log \in [Policies -> Seq(Response)]
  /\ alarm \in [Policies -> SUBSET Int]
  /\ trig \in [Policies -> Nat]
  /\ ended \in [Policies -> Nat]
  /\ stray \subseteq Int
  /\ refused \subseteq ServerQpn
  /\ lost \in [ServerQpn -> [req : Nat, resp : Nat]]

\* The PSN register of a connection and the PSN counter of its NIC agree: the
\* requests on their way carry the PSNs the NIC expects next, in order, and the
\* register holds the last of them. (update_psn of master.p4 numbers requests on
\* its own; nothing in the NIC's answer corrects it.) It is what a lost or
\* refused request breaks.
Succ(n) == (n + 1) % PsnMod
PsnRegister(q) == reg.psn[Arg("read_update_psn", <<q>>)]
Follows(d, r, n) ==
  /\ IF d = <<>> THEN Succ(r) = n ELSE d[1].psn = n /\ d[Len(d)].psn = r
  /\ \A i \in 1..(Len(d) - 1) : d[i+1].psn = Succ(d[i].psn)
InSync(q) == Follows(down[q], PsnRegister(q), nic[q])
PsnInSync ==
  \A q \in ServerQpn :
    Hit("read_update_psn", <<q>>) /\ lost[q].req = 0 /\ q \notin refused => InSync(q)

\* Without losses no request is refused: every READ the switch issues goes to a
\* connection that exists, carries the PSN expected there and an address that is
\* backed by memory.
NoRefusal == refused = {} /\ stray = {}

\* No value outside the bounds it is asserted to be in goes unreported. The assert
\* is on the low word of the value, two halves wide.
Outside(b, v) ==
  LET w == v % (Half * Half) IN b # <<>> /\ ~(b[1] <= w /\ w <= b[2])
AlarmSound ==
  \A p \in Policies : \A i \in DOMAIN log[p] :
    Outside(BoundsOf(scn, log[p][i].qpn), log[p][i].val) => log[p][i].val \in alarm[p]

\* A walk is one packet: each response the switch takes in leaves it as one
\* request, or ends the walk. Counted by the places where a packet of p is: in the
\* queues of a connection, or among what was lost there.
Held ==
  [c \in ServerQpn \X {"up", "down", "req", "resp"} |->
     CASE c[2] = "up"   -> Len(up[c[1] + Coef])
       [] c[2] = "down" -> Len(down[c[1]])
       [] c[2] = "req"  -> lost[c[1]].req
       [] c[2] = "resp" -> lost[c[1]].resp]
Places(p) ==
  UNION {{c} \X (1..Held[c]) : c \in {x \in DOMAIN Held : Owner(x[1] + Coef) = p}}
OnePacket ==
  NoRefusal => \A p \in Policies : Cardinality(Places(p)) = trig[p] - ended[p]

\* A policy's registers change only with a packet of its own.
Mine(p) ==
  << [i \in AddrRegs \intersect (15*p .. (15*p + 14)) |-> reg.addr[i]],
     [i \in MaxRegs \intersect (3*p .. (3*p + 2)) |-> reg.max[i]],
     [i \in PageRegs \intersect {p} |-> <<reg.page[i], reg.dwalk[i], reg.qwalk[i]>>],
     [q \in {x \in Servers(scn, p) : Hit("read_update_psn", <<x>>)} |-> PsnRegister(q)] >>
Packets(p) == [q \in Clients(scn, p) |-> up[q]]
Isolated == [][\A p \in Policies : Packets(p)' = Packets(p) => Mine(p)' = Mine(p)]_vars
=============================================================================
