--------------------------- MODULE IsolationProofs ---------------------------
(***************************************************************************)
(* Proofs about what the policies of a switch share: that a packet stays   *)
(* its policy's and touches that policy's registers only (Isolated), that  *)
(* a walk is one packet (OnePacket), and that no value outside its bounds  *)
(* goes unreported (AlarmSound). They hold for every set of tables         *)
(* OwnAssumption and CheckAssumption allow, for every guest and however    *)
(* the walks interleave. Each table has a lemma that says whose the packet *)
(* is when it leaves, the pipelines compose them, and the inductions over  *)
(* the actions use the pipelines only.                                     *)
(***************************************************************************)
EXTENDS SwitchProofs, DivModProofs, FiniteSetTheorems

\* Registers t differ from r in those of policy p at most, PSNs aside.
Within(p, r, t) ==
  /\ \A i \in AddrRegs : i \notin 15*p .. (15*p + 14) => t.addr[i] = r.addr[i]
  /\ \A i \in MaxRegs : i \notin 3*p .. (3*p + 2) => t.max[i] = r.max[i]
  /\ \A i \in PageRegs : i # p => /\ t.page[i] = r.page[i]
                                  /\ t.dwalk[i] = r.dwalk[i]
                                  /\ t.qwalk[i] = r.qwalk[i]

\* The fields that decide whose a packet is.
Same(s, t) ==
  /\ t.m.qpn = s.m.qpn /\ t.m.dqpn = s.m.dqpn /\ t.m.drop = s.m.drop
  /\ t.m.walking_bit = s.m.walking_bit /\ t.m.k1 = s.m.k1 /\ t.m.k2 = s.m.k2

\* What every stage does that is not about QPNs or page walks.
Passes(p, s, t) ==
  Same(s, t) /\ t.r.dwalk = s.r.dwalk /\ t.r.qwalk = s.r.qwalk /\ Within(p, s.r, t.r)

\* Where a packet of p that entered on q may be between two tables of the ingress
\* pipeline, before a page walk is entered or resumed.
Away(p) == Goals(scn, p) \ LevelGoals(scn)
At(p, q, s) ==
  /\ s.m.qpn \in States(scn, p) /\ s.m.dqpn \in Away(p)
  /\ q \notin Levels(scn) => s.m.qpn \notin Levels(scn)
  /\ s.m.dqpn = 999 - p => s.m.qpn = 998 - p
  /\ s.m.drop => s.m.dqpn = 999 - p
  /\ s.m.walking_bit # 0 => q \in Levels(scn)

\* What a page walk of p left in the registers that resume it; a state parked
\* before the packet came in is never overwritten by anything else.
Resumable(p, q, r) ==
  /\ p \in PageRegs => r.dwalk[p] \in Away(p)
  /\ p \in PageRegs /\ (q \in Levels(scn) \/ reg.qwalk[p] \in States(scn, p)) =>
       r.qwalk[p] \in States(scn, p)

\* What one policy and one response of it have in common in the lemmas below.
Arrives(p, q) == scn \in Installed /\ p \in Policies /\ q \in Clients(scn, p)

-----------------------------------------------------------------------------
(* Small facts about the relations.                                        *)

\* Stages compose.
LEMMA WithinTrans ==
  ASSUME NEW p, NEW r, NEW t, NEW u, Within(p, r, t), Within(p, t, u)
  PROVE  Within(p, r, u)
BY Zenon DEF Within

\* Tables that pass a packet of p on compose.
LEMMA PassesTrans ==
  ASSUME NEW p, NEW s, NEW t, NEW u, Passes(p, s, t), Passes(p, t, u)
  PROVE  Passes(p, s, u)
<1>1. Within(p, s.r, u.r)
  BY WithinTrans DEF Passes
<1> QED BY <1>1, Zenon DEF Passes, Same

\* A packet a stage passes on stays where it is.
LEMMA PassesAt ==
  ASSUME NEW p, NEW q, NEW s, NEW t, Passes(p, s, t), At(p, q, s), Resumable(p, q, s.r)
  PROVE  At(p, q, t) /\ Resumable(p, q, t.r)
BY DEF Passes, Same, At, Resumable

\* Metadata that decides nothing.
LEMMA SetData ==
  ASSUME NEW p, NEW s \in Packet
  PROVE  /\ Passes(p, s, s)
         /\ \A a : Passes(p, s, [s EXCEPT !.m.addr = a])
         /\ \A a : Passes(p, s, [s EXCEPT !.m.end_bit = a])
         /\ \A a : Passes(p, s, [s EXCEPT !.m.iter_entry = a])
         /\ \A a : Passes(p, s, [s EXCEPT !.m.mod_value = a])
         /\ \A a : Passes(p, s, [s EXCEPT !.m.entry_size = a])
         /\ \A a : Passes(p, s, [s EXCEPT !.m.cached_addr = a])
         /\ \A a : Passes(p, s, [s EXCEPT !.m.psn = a])
         /\ \A a, b : Passes(p, s, [s EXCEPT !.m.mod_value = a, !.m.addr = b])
         /\ \A a, b : Passes(p, s, [s EXCEPT !.m.page_offset = a, !.m.addr = b])
<1>1. s.m \in Meta /\ s = [m |-> s.m, r |-> s.r]
  BY DEF Packet
<1>2. Within(p, s.r, s.r)
  BY DEF Within
<1>3. \A a : Passes(p, s, [s EXCEPT !.m.addr = a])
  BY <1>1, <1>2 DEF Passes, Same, Meta
<1>4. \A a : Passes(p, s, [s EXCEPT !.m.end_bit = a])
  BY <1>1, <1>2 DEF Passes, Same, Meta
<1>5. \A a : Passes(p, s, [s EXCEPT !.m.iter_entry = a])
  BY <1>1, <1>2 DEF Passes, Same, Meta
<1>6. \A a : Passes(p, s, [s EXCEPT !.m.mod_value = a])
  BY <1>1, <1>2 DEF Passes, Same, Meta
<1>7. \A a : Passes(p, s, [s EXCEPT !.m.entry_size = a])
  BY <1>1, <1>2 DEF Passes, Same, Meta
<1>8. \A a : Passes(p, s, [s EXCEPT !.m.cached_addr = a])
  BY <1>1, <1>2 DEF Passes, Same, Meta
<1>9. \A a : Passes(p, s, [s EXCEPT !.m.psn = a])
  BY <1>1, <1>2 DEF Passes, Same, Meta
<1>10. \A a, b : Passes(p, s, [s EXCEPT !.m.mod_value = a, !.m.addr = b])
  BY <1>1, <1>2 DEF Passes, Same, Meta
<1>11. \A a, b : Passes(p, s, [s EXCEPT !.m.page_offset = a, !.m.addr = b])
  BY <1>1, <1>2 DEF Passes, Same, Meta
<1>12. Passes(p, s, s)
  BY <1>2 DEF Passes, Same
<1> QED BY <1>3, <1>4, <1>5, <1>6, <1>7, <1>8, <1>9, <1>10, <1>11, <1>12, Zenon

\* A register of p's written.
LEMMA WriteOwn ==
  ASSUME NEW p \in Nat, NEW s \in Packet, NEW i, NEW n
  PROVE  /\ i \in 15*p .. (15*p + 14) => Passes(p, s, [s EXCEPT !.r.addr[i] = n])
         /\ i \in 3*p .. (3*p + 2) => Passes(p, s, [s EXCEPT !.r.max[i] = n])
         /\ i = p => Passes(p, s, [s EXCEPT !.r.page[i] = n])
<1>1. s.r \in Registers /\ s = [m |-> s.m, r |-> s.r]
  BY DEF Packet
<1> QED BY <1>1 DEF Passes, Same, Within, Registers

\* What parking writes.
LEMMA ParkDqpn ==
  ASSUME NEW p, p \in PageRegs, NEW s \in Packet, NEW n
  PROVE  LET t == [s EXCEPT !.r.dwalk[p] = n] IN
         t.m = s.m /\ Within(p, s.r, t.r) /\ t.r.qwalk = s.r.qwalk /\ t.r.dwalk[p] = n
<1>1. s.r \in Registers /\ s = [m |-> s.m, r |-> s.r]
  BY DEF Packet
<1> QED BY <1>1 DEF Within, Registers

\* A write to the register of p that parks the state.
LEMMA ParkQpn ==
  ASSUME NEW p, p \in PageRegs, NEW s \in Packet, NEW n
  PROVE  LET t == [s EXCEPT !.r.qwalk[p] = n] IN
         t.m = s.m /\ Within(p, s.r, t.r) /\ t.r.dwalk = s.r.dwalk /\ t.r.qwalk[p] = n
<1>1. s.r \in Registers /\ s = [m |-> s.m, r |-> s.r]
  BY DEF Packet
<1> QED BY <1>1 DEF Within, Registers

-----------------------------------------------------------------------------
(* What the rows that a packet of p can hit do.                            *)

\* The assumption about the tables, for the policy a packet belongs to.
LEMMA RowsOwn ==
  ASSUME NEW p, NEW q, Arrives(p, q)
  PROVE  /\ p \in Nat /\ scn \in Scenario /\ q \in Clients(scn, p)
         /\ PlacesOwn(scn, p) /\ TransfersOwn(scn, p)
         /\ WalksOwn(scn, p) /\ RegistersOwn(scn, p)
BY OwnAssumption DEF Arrives, Installed

\* A client QPN of p is a state and a goal of p, and is no end of the walk; the
\* walk ends, and the NIC is reached, with goals of p only.
LEMMA PolicyFacts ==
  ASSUME NEW p, NEW q, Arrives(p, q)
  PROVE  /\ 999 - p # q
         /\ q \in States(scn, p) /\ q \in Away(p)
         /\ \A d \in Goals(scn, p) : d \in ServerQpn => d \in Servers(scn, p)
         /\ \A d \in Goals(scn, p) : Hit("end_of_fetching", <<d>>) => d = 999 - p
<1>1. q \in Clients(scn, p) /\ PlacesOwn(scn, p)
  BY RowsOwn
<1>2. q \in States(scn, p) /\ q \in Goals(scn, p)
  BY <1>1 DEF States, Goals
<1>3. q \notin ServerQpn /\ 999 - p # q
  BY <1>1 DEF PlacesOwn
<1>4. \A d \in Goals(scn, p) : d \in ServerQpn => d \in Servers(scn, p)
  BY <1>1 DEF PlacesOwn
<1>5. \A d \in Goals(scn, p) : Hit("end_of_fetching", <<d>>) => d = 999 - p
  BY <1>1 DEF PlacesOwn, Hit, Tbl
<1> QED BY <1>2, <1>3, <1>4, <1>5 DEF Away, LevelGoals

\* end_transfer_tab and check_null_tab.
LEMMA TransferRow ==
  ASSUME NEW p, NEW q, Arrives(p, q), NEW name \in {"end_transfer", "check_null"},
         NEW k, Hit(name, k), k[1] \in States(scn, p)
  PROVE  LET x == Arg(name, k)
             d == Tbl[name][k].arg[2]
         IN  /\ x \in States(scn, p) /\ x \notin Levels(scn)
             /\ d \in Away(p)
             /\ d = 999 - p => x = 998 - p
<1>1. TransfersOwn(scn, p)
  BY RowsOwn
<1> QED BY <1>1 DEF TransfersOwn, Own, Hit, Arg, Tbl, Away

\* direct_transfer_tab.
LEMMA DirectRow ==
  ASSUME NEW p, NEW q, Arrives(p, q),
         NEW k, Hit("direct_transfer", k), k[1] \in States(scn, p)
  PROVE  Arg("direct_transfer", k) \in Away(p) /\ Arg("direct_transfer", k) # 999 - p
<1>1. TransfersOwn(scn, p)
  BY RowsOwn
<1> QED BY <1>1 DEF TransfersOwn, Own, Hit, Arg, Tbl, Away

\* pgt_transfer_tab.
LEMMA WalkRow ==
  ASSUME NEW p, NEW q, Arrives(p, q),
         NEW k, Hit("pgt_transfer", k), k[1] \in States(scn, p)
  PROVE  /\ k[1] # 998 - p
         /\ Arg("pgt_transfer", k) \in Goals(scn, p)
         /\ Tbl["pgt_transfer"][k].arg[2] \in States(scn, p)
         /\ k[2] = 0 => k[1] \in Levels(scn)
         /\ k[2] # 0 => /\ Hit("cache_qpn_page_walk", <<k[1], k[2], 0>>)
                        /\ Act("cache_qpn_page_walk", <<k[1], k[2], 0>>) = "cache"
<1>1. WalksOwn(scn, p)
  BY RowsOwn
<1>2. Arg("pgt_transfer", k) \in Servers(scn, p)
  BY <1>1 DEF WalksOwn, Own, Hit, Arg, Tbl
<1>3. k[2] = 0 => k[1] \in Levels(scn)
  BY DEF Hit, Tbl, Levels
<1>4. /\ k[1] # 998 - p
      /\ Tbl["pgt_transfer"][k].arg[2] \in States(scn, p)
      /\ k[2] # 0 => /\ Hit("cache_qpn_page_walk", <<k[1], k[2], 0>>)
                     /\ Act("cache_qpn_page_walk", <<k[1], k[2], 0>>) = "cache"
  BY <1>1 DEF WalksOwn, Own, Hit, Act, Tbl
<1> QED BY <1>2, <1>3, <1>4 DEF Goals

\* cache_dqpn_page_walk_tab and cache_qpn_page_walk_tab.
LEMMA ParkRow ==
  ASSUME NEW p, NEW q, Arrives(p, q),
         NEW name \in {"cache_dqpn_page_walk", "cache_qpn_page_walk"},
         NEW k, Hit(name, k), k[1] \in States(scn, p)
  PROVE  /\ k[1] # 998 - p
         /\ Arg(name, k) = p /\ p \in PageRegs
         /\ Act(name, k) # "cache" => k[3] # 0
<1>1. scn \in Scenario /\ WalksOwn(scn, p) /\ RegistersOwn(scn, p)
  BY RowsOwn
<1>2. Arg(name, k) \in PageRegs
  BY <1>1, TableAssumption DEF Hit, Arg, Tbl, Sends
<1>3. Arg(name, k) = p
  BY <1>1 DEF RegistersOwn, Own, Hit, Arg, Tbl
<1>4. k[1] # 998 - p /\ (Act(name, k) # "cache" => k[3] # 0)
  BY <1>1 DEF WalksOwn, Own, Hit, Act, Tbl
<1> QED BY <1>2, <1>3, <1>4

\* The tables that name a register.
LEMMA RegisterRow ==
  ASSUME NEW p, NEW q, Arrives(p, q), NEW k, k[1] \in States(scn, p)
  PROVE  /\ Hit("cache_process_page_addr_to_reg", k) =>
              Arg("cache_process_page_addr_to_reg", k) = p
         /\ Hit("cache_process_addr_to_reg", k) =>
              Arg("cache_process_addr_to_reg", k) \in 15*p .. (15*p + 14)
         /\ Hit("read_update_max_entry", k) =>
              Arg("read_update_max_entry", k) \in 3*p .. (3*p + 2)
<1>1. RegistersOwn(scn, p)
  BY RowsOwn
<1> QED BY <1>1 DEF RegistersOwn, Own, Hit, Arg, Tbl

-----------------------------------------------------------------------------
(* Ingress, table by table.                                                *)

\* The two range checks of a word on q: k1 and k2 of a packet that carries it.
Borders(q, v) == IF Border(q, (v \div Half) % Half, v % Half) THEN 1 ELSE 0
Middles(q, v) == IF Middle(q, (v \div Half) % Half) THEN 1 ELSE 0

\* The marks and checks leave the QPNs and the registers alone; the walking bit
\* is set on a level of a page walk only.
LEMMA ChecksOwn ==
  ASSUME NEW p, NEW q, Arrives(p, q), NEW v \in Int, NEW r \in Registers, q \in Int
  PROVE  LET t == Checks([m |-> Parse(q, v), r |-> r]) IN
         /\ t \in Packet /\ t.r = r
         /\ At(p, q, t) /\ ~t.m.drop
         /\ t.m.k1 = Borders(q, v) /\ t.m.k2 = Middles(q, v)
<1> DEFINE s == [m |-> Parse(q, v), r |-> r]
           s1 == MarkWalking(s)
           s2 == CacheLen(s1)
           s3 == MarkVmalloc(s2)
           s4 == RangeMatch(s3)
           Ok(x) == /\ x.m.qpn = q /\ x.m.dqpn = q /\ x.m.addr = v /\ ~x.m.drop /\ x.r = r
                    /\ x.m.walking_bit # 0 => q \in Levels(scn)
<1>1. s \in Packet /\ scn \in Installed
  BY ParseType DEF Arrives
<1>2. Ok(s) /\ s.m.walking_bit = 0
  BY DEF Parse
<1>3. s1 \in Packet /\ Ok(s1)
  <2>1. s1 \in Packet
    BY <1>1, MarkWalkingKeeps DEF Keeps
  <2>2. Hit("mark_walking_bit", <<q>>) => q \in Levels(scn)
    BY DEF Hit, Tbl, Levels
  <2> QED BY <1>1, <1>2, <2>1, <2>2 DEF MarkWalking, Packet, Meta
<1> HIDE DEF s, s1
<1>4. s2 \in Packet /\ Ok(s2)
  <2>1. s2 \in Packet
    BY <1>1, <1>3, CacheLenKeeps DEF Keeps
  <2> QED BY <1>3, <2>1 DEF CacheLen, Packet, Meta
<1> HIDE DEF s2
<1>5. s3 \in Packet /\ Ok(s3)
  <2>1. s3 \in Packet
    BY <1>1, <1>4, MarkVmallocKeeps DEF Keeps
  <2> QED BY <1>4, <2>1, Zenon DEF MarkVmalloc, Packet, Meta
<1> HIDE DEF s3
<1>6. s4 \in Packet /\ Ok(s4) /\ s4.m.k1 = Borders(q, v) /\ s4.m.k2 = Middles(q, v)
  <2>1. s4 \in Packet
    BY <1>1, <1>5, RangeMatchKeeps DEF Keeps
  <2>2. s4 = [s3 EXCEPT !.m.k1 = Borders(q, v), !.m.k2 = Middles(q, v)]
    BY <1>5 DEF RangeMatch, Borders, Middles
  <2> HIDE DEF s4
  <2> QED BY <1>5, <2>1, <2>2 DEF Packet, Meta
<1>7. At(p, q, s4)
  <2>1. q \in States(scn, p) /\ q \in Away(p) /\ 999 - p # q
    BY PolicyFacts
  <2> QED BY <1>6, <2>1 DEF At
<1>8. Checks([m |-> Parse(q, v), r |-> r]) = s4
  BY DEF Checks, s, s1, s2, s3
<1> QED BY <1>6, <1>7, <1>8

\* What the transitions keep beside the place of the packet.
Walks(p, s, t) ==
  /\ t.m.walking_bit = s.m.walking_bit /\ t.m.k1 = s.m.k1 /\ t.m.k2 = s.m.k2
  /\ t.r.dwalk = s.r.dwalk /\ t.r.qwalk = s.r.qwalk /\ Within(p, s.r, t.r)

\* Tables that keep a packet of p to p's registers compose.
LEMMA WalksTrans ==
  ASSUME NEW p, NEW s, NEW t, NEW u, Walks(p, s, t), Walks(p, t, u) PROVE Walks(p, s, u)
<1>1. Within(p, s.r, u.r)
  BY WithinTrans DEF Walks
<1> QED BY <1>1, Zenon DEF Walks

\* A table that passes a packet on keeps it to p's registers.
LEMMA PassesWalks == ASSUME NEW p, NEW s, NEW t, Passes(p, s, t) PROVE Walks(p, s, t)
BY DEF Passes, Same, Walks

\* Setting both QPNs, or one.
LEMMA SetBoth ==
  ASSUME NEW p, NEW s \in Packet, NEW x, NEW d
  PROVE  LET t == [s EXCEPT !.m.qpn = x, !.m.dqpn = d] IN
         t.m.qpn = x /\ t.m.dqpn = d /\ t.m.drop = s.m.drop /\ Walks(p, s, t)
<1>1. s.m \in Meta /\ s = [m |-> s.m, r |-> s.r] /\ Within(p, s.r, s.r)
  BY DEF Packet, Within
<1> QED BY <1>1 DEF Walks, Meta

\* The same in the order of pgt_transfer.
LEMMA SetDqpnFirst ==
  ASSUME NEW p, NEW s \in Packet, NEW x, NEW d
  PROVE  LET t == [s EXCEPT !.m.dqpn = d, !.m.qpn = x] IN
         t.m.qpn = x /\ t.m.dqpn = d /\ t.m.drop = s.m.drop /\ t.r = s.r /\ Walks(p, s, t)
<1>1. s.m \in Meta /\ s = [m |-> s.m, r |-> s.r] /\ Within(p, s.r, s.r)
  BY DEF Packet, Within
<1> QED BY <1>1 DEF Walks, Meta

\* direct_transfer sets the goal alone.
LEMMA SetDqpn ==
  ASSUME NEW p, NEW s \in Packet, NEW d, NEW t, t = [s EXCEPT !.m.dqpn = d]
  PROVE  t.m.qpn = s.m.qpn /\ t.m.dqpn = d /\ t.m.drop = s.m.drop /\ Walks(p, s, t)
<1>1. s.m \in Meta /\ s = [m |-> s.m, r |-> s.r] /\ Within(p, s.r, s.r)
  BY DEF Packet, Within
<1> QED BY <1>1 DEF Walks, Meta

\* end_transfer_tab and check_null_tab move the packet to a state and a goal of p.
LEMMA EndTransferOwn ==
  ASSUME NEW p, NEW q, Arrives(p, q), NEW s \in Packet, At(p, q, s), ~s.m.drop
  PROVE  At(p, q, EndTransfer(s)) /\ ~EndTransfer(s).m.drop /\ Walks(p, s, EndTransfer(s))
<1> DEFINE k == <<s.m.qpn>>
           x == Arg("end_transfer", k)
           d == Tbl["end_transfer"][k].arg[2]
<1>1. CASE ~Hit("end_transfer", k)
  BY <1>1, SetData, PassesWalks DEF EndTransfer
<1>2. CASE Hit("end_transfer", k)
  <2>1. k[1] \in States(scn, p)
    BY DEF At
  <2>2. x \in States(scn, p) /\ x \notin Levels(scn) /\ d \in Away(p) /\ (d = 999 - p => x = 998 - p)
    BY <1>2, <2>1, TransferRow
  <2>3. EndTransfer(s) = [s EXCEPT !.m.qpn = x, !.m.dqpn = d]
    BY <1>2 DEF EndTransfer
  <2> HIDE DEF k, x, d
  <2> DEFINE t == [s EXCEPT !.m.qpn = x, !.m.dqpn = d]
  <2>4. t.m.qpn = x /\ t.m.dqpn = d /\ t.m.drop = s.m.drop /\ Walks(p, s, t)
    BY SetBoth
  <2> HIDE DEF t
  <2>5. At(p, q, t)
    BY <2>2, <2>4 DEF At, Walks
  <2> QED BY <2>3, <2>4, <2>5 DEF t
<1> QED BY <1>1, <1>2

\* check_null_tab does what end_transfer_tab does, on a NULL pointer.
LEMMA CheckNullOwn ==
  ASSUME NEW p, NEW q, Arrives(p, q), NEW s \in Packet, At(p, q, s), ~s.m.drop
  PROVE  At(p, q, CheckNull(s)) /\ ~CheckNull(s).m.drop /\ Walks(p, s, CheckNull(s))
<1> DEFINE k == <<s.m.qpn, s.m.addr>>
           x == Arg("check_null", k)
           d == Tbl["check_null"][k].arg[2]
<1>1. CASE ~Hit("check_null", k)
  BY <1>1, SetData, PassesWalks DEF CheckNull
<1>2. CASE Hit("check_null", k)
  <2>1. k[1] \in States(scn, p)
    BY DEF At
  <2>2. x \in States(scn, p) /\ x \notin Levels(scn) /\ d \in Away(p) /\ (d = 999 - p => x = 998 - p)
    BY <1>2, <2>1, TransferRow
  <2>3. CheckNull(s) = [s EXCEPT !.m.qpn = x, !.m.dqpn = d]
    BY <1>2 DEF CheckNull
  <2> HIDE DEF k, x, d
  <2> DEFINE t == [s EXCEPT !.m.qpn = x, !.m.dqpn = d]
  <2>4. t.m.qpn = x /\ t.m.dqpn = d /\ t.m.drop = s.m.drop /\ Walks(p, s, t)
    BY SetBoth
  <2> HIDE DEF t
  <2>5. At(p, q, t)
    BY <2>2, <2>4 DEF At, Walks
  <2> QED BY <2>3, <2>4, <2>5 DEF t
<1> QED BY <1>1, <1>2

\* read_update_max_entry_tab writes a trip count of p at most.
LEMMA MaxEntryOwn ==
  ASSUME NEW p, NEW q, Arrives(p, q), NEW s \in Packet, s.m.qpn \in States(scn, p)
  PROVE  Passes(p, s, MaxEntry(s))
<1> DEFINE k == <<s.m.qpn>>
           i == Arg("read_update_max_entry", k)
           a == Act("read_update_max_entry", k)
<1>0. p \in Nat
  BY RowsOwn
<1>1. CASE ~Hit("read_update_max_entry", k)
  BY <1>1, SetData DEF MaxEntry, MaxEntryAt, CountRegister
<1>2. CASE Hit("read_update_max_entry", k)
  <2>1. k[1] \in States(scn, p)
    OBVIOUS
  <2>2. i \in 3*p .. (3*p + 2)
    BY <1>2, <2>1, RegisterRow
  <2>3. CASE a \in {"read_max_entry", "read_const_length"}
    <3>1. PICK n : MaxEntry(s) = [s EXCEPT !.r.max[i] = n]
      BY <1>2, <2>3 DEF MaxEntry, MaxEntryAt, CountRegister
    <3>2. Passes(p, s, [s EXCEPT !.r.max[i] = n])
      BY <1>0, <2>2, WriteOwn
    <3> QED BY <3>1, <3>2
  <2>4. CASE a \notin {"read_max_entry", "read_const_length"} /\ s.r.max[i] = 1
    <3>1. MaxEntry(s) = [s EXCEPT !.m.iter_entry = 1]
      BY <1>2, <2>4 DEF MaxEntry, MaxEntryAt, CountRegister
    <3>2. Passes(p, s, [s EXCEPT !.m.iter_entry = 1])
      BY SetData
    <3> QED BY <3>1, <3>2
  <2>5. CASE a \notin {"read_max_entry", "read_const_length"} /\ s.r.max[i] # 1
    <3> DEFINE t == [s EXCEPT !.m.iter_entry = 2]
               n == (s.r.max[i] - 1) % CountMod
    <3>1. t \in Packet
      BY DEF Packet, Meta
    <3>4. Passes(p, s, t)
      BY SetData
    <3>2. MaxEntry(s) = [t EXCEPT !.r.max[i] = n]
      BY <1>2, <2>5 DEF MaxEntry, MaxEntryAt, CountRegister
    <3> HIDE DEF t, n
    <3>3. Passes(p, t, [t EXCEPT !.r.max[i] = n])
      BY <1>0, <2>2, <3>1, WriteOwn
    <3> QED BY <3>2, <3>3, <3>4, PassesTrans
  <2> QED BY <2>3, <2>4, <2>5
<1> QED BY <1>1, <1>2

\* direct_transfer_tab sends the packet to a goal of p, never to the end.
LEMMA DirectTransferOwn ==
  ASSUME NEW p, NEW q, Arrives(p, q), NEW s \in Packet, At(p, q, s), ~s.m.drop
  PROVE  /\ At(p, q, DirectTransfer(s)) /\ ~DirectTransfer(s).m.drop
         /\ Walks(p, s, DirectTransfer(s))
<1> DEFINE k == <<s.m.qpn, s.m.end_bit, s.m.iter_entry>>
           d == Arg("direct_transfer", k)
<1>1. CASE ~Hit("direct_transfer", k)
  BY <1>1, SetData, PassesWalks DEF DirectTransfer
<1>2. CASE Hit("direct_transfer", k)
  <2>1. k[1] \in States(scn, p)
    BY DEF At
  <2>2. d \in Away(p) /\ d # 999 - p
    BY <1>2, <2>1, DirectRow
  <2>3. DirectTransfer(s) = [s EXCEPT !.m.dqpn = d]
    BY <1>2 DEF DirectTransfer
  <2> HIDE DEF k, d
  <2> DEFINE t == [s EXCEPT !.m.dqpn = d]
  <2>4. t.m.qpn = s.m.qpn /\ t.m.dqpn = d /\ t.m.drop = s.m.drop /\ Walks(p, s, t)
    BY SetDqpn
  <2> HIDE DEF t
  <2>5. At(p, q, t)
    BY <2>2, <2>4 DEF At, Walks
  <2> QED BY <2>3, <2>4, <2>5 DEF t
<1> QED BY <1>1, <1>2

\* end_of_fetching_tab drops the packet in p's final state only.
LEMMA EndOfFetchingOwn ==
  ASSUME NEW p, NEW q, Arrives(p, q), NEW s \in Packet, At(p, q, s), ~s.m.drop
  PROVE  At(p, q, EndOfFetching(s)) /\ Walks(p, s, EndOfFetching(s))
<1>1. CASE ~Hit("end_of_fetching", <<s.m.dqpn>>)
  BY <1>1, SetData, PassesWalks DEF EndOfFetching
<1>2. CASE Hit("end_of_fetching", <<s.m.dqpn>>)
  <2>1. s.m.dqpn = 999 - p
    BY <1>2, PolicyFacts DEF At, Away
  <2>2. EndOfFetching(s) = [s EXCEPT !.m.drop = TRUE]
    BY <1>2 DEF EndOfFetching
  <2>3. s.m \in Meta /\ s = [m |-> s.m, r |-> s.r] /\ Within(p, s.r, s.r)
    BY DEF Packet, Within
  <2>4. /\ EndOfFetching(s).m.qpn = s.m.qpn /\ EndOfFetching(s).m.dqpn = s.m.dqpn
        /\ Walks(p, s, EndOfFetching(s))
    BY <2>2, <2>3 DEF Walks, Meta
  <2> QED BY <2>1, <2>4 DEF At, Walks
<1> QED BY <1>1, <1>2

\* The transitions keep a packet p's.
LEMMA TransfersStay ==
  ASSUME NEW p, NEW q, Arrives(p, q), NEW s \in Packet, At(p, q, s), ~s.m.drop
  PROVE  Transfers(s) \in Packet /\ At(p, q, Transfers(s)) /\ Walks(p, s, Transfers(s))
<1> DEFINE s1 == EndTransfer(s)
           s2 == CheckNull(s1)
           s3 == MaxEntry(s2)
           s4 == TraverseEnd(s3)
           s5 == DirectTransfer(s4)
           s6 == EndOfFetching(s5)
           Ok(x) == x \in Packet /\ At(p, q, x) /\ Walks(p, s, x)
<1>0. scn \in Installed
  BY DEF Arrives
<1>1. Ok(s1) /\ ~s1.m.drop
  BY <1>0, EndTransferOwn, EndTransferKeeps DEF Keeps
<1> HIDE DEF s1
<1>2. Ok(s2) /\ ~s2.m.drop
  BY <1>0, <1>1, CheckNullOwn, CheckNullKeeps, WalksTrans DEF Keeps
<1> HIDE DEF s2
<1>3. Ok(s3) /\ ~s3.m.drop
  <2>1. s3 \in Packet
    BY <1>0, <1>2, MaxEntryKeeps DEF Keeps
  <2>2. Passes(p, s2, s3)
    BY <1>2, MaxEntryOwn DEF At
  <2> QED BY <1>2, <2>1, <2>2, PassesWalks, WalksTrans DEF Passes, Same, At
<1> HIDE DEF s3
<1>4. Ok(s4) /\ ~s4.m.drop
  <2>1. s4 \in Packet
    BY <1>3, TraverseEndKeeps DEF Keeps
  <2>2. Passes(p, s3, s4)
    BY <1>3, SetData DEF TraverseEnd
  <2> QED BY <1>3, <2>1, <2>2, PassesWalks, WalksTrans DEF Passes, Same, At
<1> HIDE DEF s4
<1>5. Ok(s5) /\ ~s5.m.drop
  BY <1>0, <1>4, DirectTransferOwn, DirectTransferKeeps, WalksTrans DEF Keeps
<1> HIDE DEF s5
<1>6. Ok(s6)
  BY <1>5, EndOfFetchingOwn, EndOfFetchingKeeps, WalksTrans DEF Keeps
<1> QED BY <1>6 DEF s1, s2, s3, s4, s5, s6, Transfers

-----------------------------------------------------------------------------
(* Parking and resuming.                                                   *)

\* Where a packet may be once it can be parked or resumed: the goal may be any
\* that was parked, but a packet that ended its walk is left alone.
Parts(p, q, s) ==
  /\ s.m.qpn \in States(scn, p) /\ s.m.dqpn \in Away(p)
  /\ q \notin Levels(scn) => s.m.qpn \notin Levels(scn)
  /\ s.m.drop => s.m.dqpn = 999 - p /\ s.m.qpn = 998 - p
  /\ s.m.walking_bit # 0 => q \in Levels(scn)

\* What parking and resuming keep.
Steady(p, s, t) ==
  /\ t.m.drop = s.m.drop /\ t.m.walking_bit = s.m.walking_bit
  /\ t.m.vmalloc_bit = s.m.vmalloc_bit
  /\ t.m.k1 = s.m.k1 /\ t.m.k2 = s.m.k2 /\ Within(p, s.r, t.r)

\* cache_dqpn_page_walk parks a goal of p, or gives back the one parked.
LEMMA CacheDqpnOwn ==
  ASSUME NEW p, NEW q, Arrives(p, q), NEW s \in Packet, Parts(p, q, s),
         Resumable(p, q, s.r)
  PROVE  LET t == CacheDqpn(s) IN
         Parts(p, q, t) /\ Resumable(p, q, t.r) /\ Steady(p, s, t)
<1> DEFINE name == "cache_dqpn_page_walk"
           k == <<s.m.qpn, s.m.vmalloc_bit, s.m.walking_bit>>
           i == Arg(name, k)
<1>0. /\ p \in Nat /\ s.m \in Meta /\ s.r \in Registers /\ s = [m |-> s.m, r |-> s.r]
      /\ Within(p, s.r, s.r)
  BY RowsOwn DEF Packet, Within
<1>1. CASE ~Hit(name, k)
  <2>1. CacheDqpn(s) = s
    BY <1>1 DEF CacheDqpn
  <2> QED BY <1>0, <2>1 DEF Steady
<1>2. CASE Hit(name, k)
  <2>1. k[1] \in States(scn, p)
    BY DEF Parts
  <2>2. k[1] # 998 - p /\ i = p /\ p \in PageRegs
    BY <1>2, <2>1, ParkRow
  <2>3. ~s.m.drop
    BY <2>2 DEF Parts
  <2>4. CASE Act(name, k) = "cache"
    <3> DEFINE n == s.m.dqpn
               t == [s EXCEPT !.r.dwalk[p] = n]
    <3>1. CacheDqpn(s) = t
      BY <1>2, <2>2, <2>4 DEF CacheDqpn
    <3> HIDE DEF n
    <3>2. /\ t.m = s.m /\ Within(p, s.r, t.r) /\ t.r.qwalk = s.r.qwalk
          /\ t.r.dwalk[p] = n
      BY <2>2, ParkDqpn
    <3> HIDE DEF t
    <3> QED BY <3>1, <3>2 DEF Parts, Resumable, Steady, n
  <2>5. CASE Act(name, k) # "cache"
    <3> DEFINE t == [s EXCEPT !.m.dqpn = s.r.dwalk[i]]
    <3>1. CacheDqpn(s) = t
      BY <1>2, <2>5 DEF CacheDqpn
    <3>2. /\ t.m.dqpn = s.r.dwalk[p] /\ t.m.qpn = s.m.qpn /\ t.m.drop = s.m.drop
          /\ t.m.walking_bit = s.m.walking_bit /\ t.m.vmalloc_bit = s.m.vmalloc_bit
          /\ t.m.k1 = s.m.k1 /\ t.m.k2 = s.m.k2 /\ t.r = s.r
      BY <1>0, <2>2 DEF Meta
    <3> HIDE DEF t
    <3> QED BY <1>0, <2>2, <2>3, <3>1, <3>2 DEF Parts, Resumable, Steady
  <2> QED BY <2>4, <2>5
<1> QED BY <1>1, <1>2

\* On its way into a page walk the packet leaves its state behind.
Parked(p, q, t) ==
  LET k == <<t.m.qpn, t.m.vmalloc_bit, 0>> IN
  q \notin Levels(scn) /\ Hit("cache_qpn_page_walk", k) /\ Act("cache_qpn_page_walk", k) = "cache"
    => t.r.qwalk[p] \in States(scn, p)

\* cache_qpn_page_walk parks a state of p, or gives back the one parked; a packet
\* that goes on into a page walk has parked it.
LEMMA CacheQpnOwn ==
  ASSUME NEW p, NEW q, Arrives(p, q), NEW s \in Packet, Parts(p, q, s),
         Resumable(p, q, s.r)
  PROVE  LET t == CacheQpn(s) IN
         /\ Parts(p, q, t) /\ Resumable(p, q, t.r) /\ Steady(p, s, t)
         /\ Parked(p, q, t)
<1> DEFINE name == "cache_qpn_page_walk"
           k == <<s.m.qpn, s.m.vmalloc_bit, s.m.walking_bit>>
           i == Arg(name, k)
<1>0. /\ p \in Nat /\ s.m \in Meta /\ s.r \in Registers /\ s = [m |-> s.m, r |-> s.r]
      /\ Within(p, s.r, s.r)
  BY RowsOwn DEF Packet, Within
<1>1. CASE ~Hit(name, k)
  <2>1. CacheQpn(s) = s
    BY <1>1 DEF CacheQpn
  <2>2. q \notin Levels(scn) => k = <<s.m.qpn, s.m.vmalloc_bit, 0>>
    BY DEF Parts
  <2>3. Parked(p, q, s)
    BY <1>1, <2>2 DEF Parked
  <2> QED BY <1>0, <2>1, <2>3 DEF Steady
<1>2. CASE Hit(name, k)
  <2>1. k[1] \in States(scn, p)
    BY DEF Parts
  <2>2. k[1] # 998 - p /\ i = p /\ p \in PageRegs /\ (Act(name, k) # "cache" => k[3] # 0)
    BY <1>2, <2>1, ParkRow
  <2>3. ~s.m.drop
    BY <2>2 DEF Parts
  <2>4. CASE Act(name, k) = "cache"
    <3> DEFINE n == s.m.qpn
               t == [s EXCEPT !.r.qwalk[p] = n]
    <3>1. CacheQpn(s) = t
      BY <1>2, <2>2, <2>4 DEF CacheQpn
    <3> HIDE DEF n
    <3>2. /\ t.m = s.m /\ Within(p, s.r, t.r) /\ t.r.dwalk = s.r.dwalk
          /\ t.r.qwalk[p] = n
      BY <2>2, ParkQpn
    <3> HIDE DEF t
    <3> QED BY <3>1, <3>2 DEF Parts, Resumable, Steady, n, Parked
  <2>5. CASE Act(name, k) # "cache"
    <3> DEFINE t == [s EXCEPT !.m.qpn = s.r.qwalk[i]]
    <3>1. CacheQpn(s) = t
      BY <1>2, <2>5 DEF CacheQpn
    <3>2. /\ t.m.qpn = s.r.qwalk[p] /\ t.m.dqpn = s.m.dqpn /\ t.m.drop = s.m.drop
          /\ t.m.walking_bit = s.m.walking_bit /\ t.m.vmalloc_bit = s.m.vmalloc_bit
          /\ t.m.k1 = s.m.k1 /\ t.m.k2 = s.m.k2 /\ t.r = s.r
      BY <1>0, <2>2 DEF Meta
    <3>3. q \in Levels(scn) /\ s.r.qwalk[p] \in States(scn, p)
      BY <2>2, <2>5 DEF Parts, Resumable
    <3> HIDE DEF t
    <3> QED BY <1>0, <2>3, <3>1, <3>2, <3>3 DEF Parts, Resumable, Steady, Parked
  <2> QED BY <2>4, <2>5
<1> QED BY <1>1, <1>2

\* A packet of p that leaves the ingress pipeline: where it goes, and, if that is a
\* level of a page walk, that the walk can be resumed.
Leaves(p, q, t) ==
  /\ t.m.qpn \in States(scn, p) /\ t.m.dqpn \in Goals(scn, p)
  /\ t.m.drop => t.m.dqpn = 999 - p
  /\ p \in PageRegs => t.r.dwalk[p] \in Away(p)
  /\ p \in PageRegs /\ (\/ q \in Levels(scn) \/ reg.qwalk[p] \in States(scn, p)
                      \/ t.m.dqpn \in LevelGoals(scn)) =>
       t.r.qwalk[p] \in States(scn, p)

\* pgt_transfer_tab takes a packet into a page walk, or on to its next level.
LEMMA PgtTransferOwn ==
  ASSUME NEW p, NEW q, Arrives(p, q), NEW s \in Packet, Parts(p, q, s),
         Resumable(p, q, s.r), Parked(p, q, s)
  PROVE  LET t == PgtTransfer(s) IN
         Leaves(p, q, t) /\ t.m.k1 = s.m.k1 /\ t.m.k2 = s.m.k2 /\ Within(p, s.r, t.r)
<1> DEFINE k == <<s.m.qpn, s.m.vmalloc_bit>>
           d == Arg("pgt_transfer", k)
           x == Tbl["pgt_transfer"][k].arg[2]
<1>0. Within(p, s.r, s.r)
  BY DEF Within
<1>1. CASE ~Hit("pgt_transfer", k)
  <2>1. PgtTransfer(s) = s
    BY <1>1 DEF PgtTransfer
  <2> QED BY <1>0, <2>1 DEF Parts, Resumable, Leaves, Away
<1>2. CASE Hit("pgt_transfer", k)
  <2>1. k[1] \in States(scn, p)
    BY DEF Parts
  <2>2. /\ k[1] # 998 - p /\ d \in Goals(scn, p) /\ x \in States(scn, p)
        /\ k[2] = 0 => k[1] \in Levels(scn)
        /\ k[2] # 0 => /\ Hit("cache_qpn_page_walk", <<k[1], k[2], 0>>)
                       /\ Act("cache_qpn_page_walk", <<k[1], k[2], 0>>) = "cache"
    BY <1>2, <2>1, WalkRow
  <2>3. ~s.m.drop
    BY <2>2 DEF Parts
  <2>4. q \notin Levels(scn) => s.r.qwalk[p] \in States(scn, p)
    BY <2>2 DEF Parts, Parked
  <2>5. PgtTransfer(s) = [s EXCEPT !.m.dqpn = d, !.m.qpn = x]
    BY <1>2 DEF PgtTransfer
  <2> HIDE DEF k, d, x
  <2> DEFINE t == [s EXCEPT !.m.dqpn = d, !.m.qpn = x]
  <2>6. t.m.qpn = x /\ t.m.dqpn = d /\ t.m.drop = s.m.drop /\ t.r = s.r /\ Walks(p, s, t)
    BY SetDqpnFirst
  <2> HIDE DEF t
  <2>7. Leaves(p, q, t)
    BY <2>2, <2>3, <2>4, <2>6 DEF Leaves, Resumable
  <2> QED BY <2>5, <2>6, <2>7 DEF Walks, t
<1> QED BY <1>1, <1>2

\* encode_mod_offset and mod_field_parameters move the address only, in either
\* pipeline.
LEMMA ModOffsetPasses ==
  ASSUME NEW p, NEW s \in Packet
  PROVE  Passes(p, s, ModOffsetPre(s)) /\ Passes(p, s, ModOffset(s))
<1> DEFINE k == <<s.m.qpn, s.m.dqpn>>
           Moved(t) == \E a, b : \/ t = [s EXCEPT !.m.mod_value = a]
                                 \/ t = [s EXCEPT !.m.mod_value = a, !.m.addr = b]
<1>1. Moved(ModOffsetPre(s))
  <2> DEFINE n == IF Hit("encode_mod_offset_pre", k) THEN Arg("encode_mod_offset_pre", k)
                                                     ELSE s.m.mod_value
  <2>1. \/ ModOffsetPre(s) = [s EXCEPT !.m.mod_value = n]
        \/ ModOffsetPre(s) = [s EXCEPT !.m.mod_value = n, !.m.addr = @ + n]
        \/ ModOffsetPre(s) = [s EXCEPT !.m.mod_value = n, !.m.addr = @ - n]
    BY Zenon DEF ModOffsetPre
  <2> HIDE DEF n
  <2> QED BY <2>1
<1>2. Moved(ModOffset(s))
  <2> DEFINE n == IF Hit("encode_mod_offset", k) THEN Arg("encode_mod_offset", k)
                                                 ELSE s.m.mod_value
  <2>1. \/ ModOffset(s) = [s EXCEPT !.m.mod_value = n]
        \/ ModOffset(s) = [s EXCEPT !.m.mod_value = n, !.m.addr = @ + n]
        \/ ModOffset(s) = [s EXCEPT !.m.mod_value = n, !.m.addr = @ - n]
    BY Zenon DEF ModOffset
  <2> HIDE DEF n
  <2> QED BY <2>1
<1>3. ASSUME NEW t, Moved(t) PROVE Passes(p, s, t)
  <2>1. PICK a, b : \/ t = [s EXCEPT !.m.mod_value = a]
                    \/ t = [s EXCEPT !.m.mod_value = a, !.m.addr = b]
    BY <1>3
  <2>2. /\ Passes(p, s, [s EXCEPT !.m.mod_value = a])
        /\ Passes(p, s, [s EXCEPT !.m.mod_value = a, !.m.addr = b])
    BY SetData
  <2> QED BY <2>1, <2>2, Zenon
<1> QED BY <1>1, <1>2, <1>3, Zenon

\* What leaves stays as it is through tables that pass it on.
LEMMA PassesLeaves ==
  ASSUME NEW p, NEW q, NEW s, NEW t, Passes(p, s, t), Leaves(p, q, s)
  PROVE  Leaves(p, q, t)
BY DEF Passes, Same, Leaves

-----------------------------------------------------------------------------
(* The whole ingress pipeline.                                             *)

\* A response to a packet of p leaves the ingress pipeline as p's: it wrote p's
\* registers only, and its range checks are those of the value it carries.
LEMMA IngressOwn ==
  ASSUME NEW p, NEW q, Arrives(p, q), q \in Int, NEW v \in Int, NEW r \in Registers,
         Resumable(p, q, r)
  PROVE  LET in == Ingress([m |-> Parse(q, v), r |-> r]) IN
         /\ in \in Packet /\ Leaves(p, q, in) /\ Within(p, r, in.r)
         /\ in.m.k1 = Borders(q, v) /\ in.m.k2 = Middles(q, v)
<1> DEFINE s == [m |-> Parse(q, v), r |-> r]
           s1 == Checks(s)
           s2 == Transfers(s1)
           s3 == CacheDqpn(s2)
           s4 == CacheQpn(s3)
           s5 == PgtTransfer(s4)
           s6 == ModOffsetPre(s5)
           Marks(x) == x.m.k1 = Borders(q, v) /\ x.m.k2 = Middles(q, v) /\ Within(p, r, x.r)
<1>0. scn \in Installed /\ Within(p, r, r)
  BY DEF Arrives, Within
<1>1. s1 \in Packet /\ s1.r = r /\ At(p, q, s1) /\ ~s1.m.drop /\ Marks(s1)
  <2>1. /\ s1 \in Packet /\ s1.r = r /\ At(p, q, s1) /\ ~s1.m.drop
        /\ s1.m.k1 = Borders(q, v) /\ s1.m.k2 = Middles(q, v)
    BY ChecksOwn
  <2> HIDE DEF s1
  <2> QED BY <1>0, <2>1
<1> HIDE DEF s, s1
<1>2. s2 \in Packet /\ Parts(p, q, s2) /\ Resumable(p, q, s2.r) /\ Marks(s2)
  <2>1. s2 \in Packet /\ At(p, q, s2) /\ Walks(p, s1, s2)
    BY <1>1, TransfersStay
  <2> HIDE DEF s2
  <2>2. Parts(p, q, s2)
    BY <2>1 DEF At, Parts
  <2> QED BY <1>1, <2>1, <2>2, WithinTrans DEF Walks, Resumable
<1> HIDE DEF s2
<1>3. s3 \in Packet /\ Parts(p, q, s3) /\ Resumable(p, q, s3.r) /\ Marks(s3)
  <2>1. s3 \in Packet
    BY <1>0, <1>2, CacheDqpnKeeps DEF Keeps
  <2>2. Parts(p, q, s3) /\ Resumable(p, q, s3.r) /\ Steady(p, s2, s3)
    BY <1>2, CacheDqpnOwn
  <2> HIDE DEF s3
  <2> QED BY <1>2, <2>1, <2>2, WithinTrans DEF Steady
<1> HIDE DEF s3
<1>4. s4 \in Packet /\ Parts(p, q, s4) /\ Resumable(p, q, s4.r) /\ Parked(p, q, s4) /\ Marks(s4)
  <2>1. s4 \in Packet
    BY <1>0, <1>3, CacheQpnKeeps DEF Keeps
  <2>2. Parts(p, q, s4) /\ Resumable(p, q, s4.r) /\ Parked(p, q, s4) /\ Steady(p, s3, s4)
    BY <1>3, CacheQpnOwn
  <2> HIDE DEF s4
  <2> QED BY <1>3, <2>1, <2>2, WithinTrans DEF Steady
<1> HIDE DEF s4
<1>5. s5 \in Packet /\ Leaves(p, q, s5) /\ Marks(s5)
  <2>1. s5 \in Packet
    BY <1>0, <1>4, PgtTransferKeeps DEF Keeps
  <2>2. Leaves(p, q, s5) /\ s5.m.k1 = s4.m.k1 /\ s5.m.k2 = s4.m.k2 /\ Within(p, s4.r, s5.r)
    BY <1>4, PgtTransferOwn
  <2> HIDE DEF s5
  <2> QED BY <1>4, <2>1, <2>2, WithinTrans
<1> HIDE DEF s5
<1>6. s6 \in Packet /\ Leaves(p, q, s6) /\ Marks(s6)
  <2>1. s6 \in Packet
    BY <1>0, <1>5, ModOffsetPreKeeps DEF Keeps
  <2>2. Passes(p, s5, s6)
    BY <1>5, ModOffsetPasses
  <2> HIDE DEF s6
  <2>3. Leaves(p, q, s6)
    BY <1>5, <2>2, PassesLeaves
  <2> QED BY <1>5, <2>1, <2>2, <2>3, WithinTrans DEF Passes, Same
<1> QED BY <1>6 DEF s, s1, s2, s3, s4, s5, s6, Ingress

-----------------------------------------------------------------------------
(* Egress, table by table: it writes registers of p, moves the address, and *)
(* sends the packet where the ingress pipeline decided.                    *)

\* cache_process_page_addr_to_reg writes the page-walk register of p only.
LEMMA PageAddrPasses ==
  ASSUME NEW p, NEW q, Arrives(p, q), NEW s \in Packet, s.m.qpn \in States(scn, p)
  PROVE  Passes(p, s, PageAddr(s))
<1> DEFINE t == "cache_process_page_addr_to_reg"
           k == <<s.m.qpn, s.m.walking_bit>>
           i == Arg(t, k)
<1>0. p \in Nat
  BY RowsOwn
<1>1. CASE ~Hit(t, k)
  BY <1>1, SetData DEF PageAddr
<1>2. CASE Hit(t, k)
  <2>1. k[1] \in States(scn, p)
    OBVIOUS
  <2>2. i = p
    BY <1>2, <2>1, RegisterRow
  <2>3. CASE Act(t, k) = "cache"
    <3> DEFINE n == s.m.addr
               u == [s EXCEPT !.m.cached_addr = n]
    <3>1. u \in Packet
      BY DEF Packet, Meta
    <3>2. PageAddr(s) = [u EXCEPT !.r.page[i] = n]
      BY <1>2, <2>3 DEF PageAddr
    <3> HIDE DEF n
    <3>3. Passes(p, s, u)
      BY SetData
    <3> HIDE DEF u
    <3>4. Passes(p, u, [u EXCEPT !.r.page[i] = n])
      BY <1>0, <2>2, <3>1, WriteOwn
    <3> QED BY <3>2, <3>3, <3>4, PassesTrans
  <2>4. CASE Act(t, k) # "cache"
    <3> DEFINE a == s.r.page[i]
    <3>1. PageAddr(s) = [s EXCEPT !.m.cached_addr = a]
      BY <1>2, <2>4 DEF PageAddr
    <3> HIDE DEF a
    <3>2. Passes(p, s, [s EXCEPT !.m.cached_addr = a])
      BY SetData
    <3> QED BY <3>1, <3>2
  <2> QED BY <2>3, <2>4
<1> QED BY <1>1, <1>2

\* cache_process_addr_to_reg writes a base address of p only.
LEMMA ProcessAddrPasses ==
  ASSUME NEW p, NEW q, Arrives(p, q), NEW s \in Packet, s.m.qpn \in States(scn, p)
  PROVE  Passes(p, s, ProcessAddr(s))
<1> DEFINE t == "cache_process_addr_to_reg"
           k == <<s.m.qpn, s.m.dqpn>>
           i == Arg(t, k)
           n == s.r.addr[i] + s.m.entry_size
<1>0. p \in Nat /\ scn \in Installed
  BY RowsOwn DEF Installed
<1>1. CASE ~Hit(t, k)
  BY <1>1, SetData DEF ProcessAddr
<1>2. CASE Hit(t, k)
  <2>1. k[1] \in States(scn, p)
    OBVIOUS
  <2>2. i \in 15*p .. (15*p + 14)
    BY <1>2, <2>1, RegisterRow
  <2>3. i \in AddrRegs
    BY <1>0, <1>2, TableAssumption DEF Hit, Arg, Tbl, Installed, Sends
  <2>4. CASE Act(t, k) = "write"
    <3> DEFINE a == s.m.addr
    <3>1. ProcessAddr(s) = [s EXCEPT !.r.addr[i] = a]
      BY <1>2, <2>4 DEF ProcessAddr
    <3> HIDE DEF a
    <3>2. Passes(p, s, [s EXCEPT !.r.addr[i] = a])
      BY <1>0, <2>2, WriteOwn
    <3> QED BY <3>1, <3>2
  <2>5. CASE Act(t, k) # "write" /\ Act(t, k) = "read"
    <3> DEFINE a == s.r.addr[i]
    <3>1. ProcessAddr(s) = [s EXCEPT !.m.addr = a]
      BY <1>2, <2>5 DEF ProcessAddr
    <3> HIDE DEF a
    <3>2. Passes(p, s, [s EXCEPT !.m.addr = a])
      BY SetData
    <3> QED BY <3>1, <3>2
  <2>6. CASE Act(t, k) # "write" /\ Act(t, k) # "read"
    <3> DEFINE u == [s EXCEPT !.m.addr = n]
    <3>1. n \in Int
      BY <2>3 DEF Packet, Meta, Registers
    <3>2. ProcessAddr(s) = [u EXCEPT !.r.addr[i] = n]
      BY <1>2, <2>6 DEF ProcessAddr
    <3> HIDE DEF n
    <3>3. u \in Packet
      BY <3>1 DEF Packet, Meta
    <3>4. Passes(p, s, u)
      BY SetData
    <3> HIDE DEF u
    <3>5. Passes(p, u, [u EXCEPT !.r.addr[i] = n])
      BY <1>0, <2>2, <3>3, WriteOwn
    <3> QED BY <3>2, <3>4, <3>5, PassesTrans
  <2> QED BY <2>4, <2>5, <2>6
<1> QED BY <1>1, <1>2

\* The tables that move the address or set the size of an entry.
LEMMA AddressPasses ==
  ASSUME NEW p, NEW s \in Packet
  PROVE  /\ Passes(p, s, CacheSize(s)) /\ Passes(p, s, AddOffsets(s))
         /\ Passes(p, s, MaskAndMakeUp(s)) /\ Passes(p, s, Translate(s))
<1>1. Passes(p, s, CacheSize(s))
  BY SetData DEF CacheSize
<1>2. Passes(p, s, AddOffsets(s))
  <2> DEFINE k == <<s.m.qpn, s.m.walking_bit>>
             n == TableOffset(Act("add_offset", k), s.m.cached_addr)
             a == IF Act("add_offset", k) = "pgd" THEN Arg("add_offset", k) ELSE s.m.addr
  <2>1. \/ AddOffsets(s) = s
        \/ AddOffsets(s) = [s EXCEPT !.m.page_offset = n, !.m.addr = a]
    BY Zenon DEF AddOffsets
  <2> HIDE DEF n, a
  <2>2. Passes(p, s, [s EXCEPT !.m.page_offset = n, !.m.addr = a]) /\ Passes(p, s, s)
    BY SetData
  <2> QED BY <2>1, <2>2
<1>3. Passes(p, s, MaskAndMakeUp(s))
  <2>1. PICK a : MaskAndMakeUp(s) = [s EXCEPT !.m.addr = a]
    BY Zenon DEF MaskAndMakeUp
  <2>2. Passes(p, s, [s EXCEPT !.m.addr = a])
    BY SetData
  <2> QED BY <2>1, <2>2
<1>4. Passes(p, s, Translate(s))
  <2>1. PICK a : Translate(s) = [s EXCEPT !.m.addr = a]
    BY Zenon DEF Translate
  <2>2. Passes(p, s, [s EXCEPT !.m.addr = a])
    BY SetData
  <2> QED BY <2>1, <2>2
<1> QED BY <1>1, <1>2, <1>3, <1>4

\* read_update_psn_tab writes a PSN register, which Isolated treats apart.
LEMMA UpdatePsnPasses ==
  ASSUME NEW p, NEW s \in Packet PROVE Passes(p, s, UpdatePsn(s))
<1> DEFINE k == <<s.m.dqpn>>
           i == Arg("read_update_psn", k)
<1>1. CASE ~Hit("read_update_psn", k)
  BY <1>1, SetData DEF UpdatePsn
<1>2. CASE Hit("read_update_psn", k)
  <2> DEFINE n == NextPsn(s.r.psn[i])
             t == [s EXCEPT !.r.psn[i] = n, !.m.psn = n]
  <2>1. UpdatePsn(s) = t
    BY <1>2 DEF UpdatePsn
  <2>2. s.m \in Meta /\ s.r \in Registers /\ s = [m |-> s.m, r |-> s.r]
    BY DEF Packet
  <2> HIDE DEF n
  <2>3. Passes(p, s, t)
    BY <2>2 DEF Passes, Same, Within, Meta, Registers
  <2> QED BY <2>1, <2>3
<1> QED BY <1>1, <1>2

\* The egress pipeline passes a packet of p on: it writes p's registers and the PSN
\* registers, which UpdatePsnPasses is about.
LEMMA EgressOwn ==
  ASSUME NEW p, NEW q, Arrives(p, q), NEW s \in Packet, Leaves(p, q, s)
  PROVE  Passes(p, s, Egress(s))
<1> DEFINE s1 == CacheSize(s)
           s2 == PageAddr(s1)
           s3 == AddOffsets(s2)
           s4 == MaskAndMakeUp(s3)
           s5 == ProcessAddr(s4)
           s6 == Translate(s5)
           s7 == ModOffset(s6)
           s8 == UpdatePsn(s7)
           Ok(x) == x \in Packet /\ Passes(p, s, x) /\ x.m.qpn \in States(scn, p)
<1>0. scn \in Installed /\ s.m.qpn \in States(scn, p)
  BY DEF Arrives, Leaves
<1>a. ASSUME NEW x, NEW y, Ok(x), y \in Packet, Passes(p, x, y) PROVE Ok(y)
  BY <1>a, PassesTrans DEF Passes, Same
<1>1. Ok(s1)
  BY <1>0, AddressPasses, CacheSizeKeeps DEF Keeps, Passes, Same
<1> HIDE DEF s1
<1>2. Ok(s2)
  <2>1. s2 \in Packet
    BY <1>0, <1>1, PageAddrKeeps DEF Keeps
  <2>2. Passes(p, s1, s2)
    BY <1>1, PageAddrPasses
  <2> HIDE DEF s2
  <2> QED BY <1>1, <1>a, <2>1, <2>2, Zenon
<1> HIDE DEF s2
<1>3. Ok(s3)
  <2>1. s3 \in Packet
    BY <1>0, <1>2, AddOffsetsKeeps DEF Keeps
  <2>2. Passes(p, s2, s3)
    BY <1>2, AddressPasses
  <2> HIDE DEF s3
  <2> QED BY <1>2, <1>a, <2>1, <2>2, Zenon
<1> HIDE DEF s3
<1>4. Ok(s4)
  <2>1. s4 \in Packet
    BY <1>0, <1>3, MaskAndMakeUpKeeps DEF Keeps
  <2>2. Passes(p, s3, s4)
    BY <1>3, AddressPasses
  <2> HIDE DEF s4
  <2> QED BY <1>3, <1>a, <2>1, <2>2, Zenon
<1> HIDE DEF s4
<1>5. Ok(s5)
  <2>1. s5 \in Packet
    BY <1>0, <1>4, ProcessAddrKeeps DEF Keeps
  <2>2. Passes(p, s4, s5)
    BY <1>4, ProcessAddrPasses
  <2> HIDE DEF s5
  <2> QED BY <1>4, <1>a, <2>1, <2>2, Zenon
<1> HIDE DEF s5
<1>6. Ok(s6)
  <2>1. s6 \in Packet
    BY <1>0, <1>5, TranslateKeeps DEF Keeps
  <2>2. Passes(p, s5, s6)
    BY <1>5, AddressPasses
  <2> HIDE DEF s6
  <2> QED BY <1>5, <1>a, <2>1, <2>2, Zenon
<1> HIDE DEF s6
<1>7. Ok(s7)
  <2>1. s7 \in Packet
    BY <1>0, <1>6, ModOffsetKeeps DEF Keeps
  <2>2. Passes(p, s6, s7)
    BY <1>6, ModOffsetPasses
  <2> HIDE DEF s7
  <2> QED BY <1>6, <1>a, <2>1, <2>2, Zenon
<1> HIDE DEF s7
<1>8. Passes(p, s, s8)
  <2>1. Passes(p, s7, s8)
    BY <1>7, UpdatePsnPasses
  <2> QED BY <1>7, <2>1, PassesTrans
<1> QED BY <1>8 DEF s1, s2, s3, s4, s5, s6, s7, s8, Egress


-----------------------------------------------------------------------------
(* A pass, as far as the policies are concerned.                           *)

\* What a packet of p parked: a goal of p outside the page walks, and, while a
\* packet of p is between two levels of a page walk, a state of p. It is what lets
\* the last level give the packet back to its policy.
StateParked ==
  \A p \in Policies : p \in PageRegs =>
    /\ reg.dwalk[p] \in Away(p)
    /\ \A q \in Clients(scn, p) \intersect Levels(scn) :
         up[q] # <<>> \/ down[q - Coef] # <<>> => reg.qwalk[p] \in States(scn, p)

\* A response on q finds what it may resume.
LEMMA ArrivesParked ==
  ASSUME TypeOK, StateParked, NEW q \in ClientQpn, up[q] # <<>>
  PROVE  Arrives(Owner(q), q) /\ Resumable(Owner(q), q, reg)
<1>1. scn \in Installed /\ Owner(q) \in Policies
  BY GuestAssumption DEF TypeOK, Installed, Owner, ClientQpn
<1>2. q \in Clients(scn, Owner(q))
  BY DEF Clients, Owner
<1> QED BY <1>1, <1>2 DEF Arrives, Resumable, StateParked

\* The packet of a policy leaves the switch as a packet of that policy: it wrote
\* the policy's registers only, ended the policy's walk, or left as a request on a
\* connection of the policy, numbered by that connection's register.
LEMMA PassOwn ==
  ASSUME TypeOK, StateParked, NEW q \in ClientQpn, Pass(q)
  PROVE  \E out \in Packet :
           LET d == out.m.dqpn
               p == Owner(q)
           IN
           /\ reg' = out.r /\ Within(p, reg, reg') /\ Leaves(p, q, out)
           /\ \/ /\ ended' = [ended EXCEPT ![p] = @ + 1]
                 /\ reg'.psn = reg.psn /\ down' = down /\ stray' = stray
              \/ /\ ended' = ended
                 /\ IF Hit("read_update_psn", <<d>>)
                    THEN \E n : reg'.psn = [reg.psn EXCEPT ![Arg("read_update_psn", <<d>>)] = n]
                    ELSE reg'.psn = reg.psn
                 /\ \/ d \in ServerQpn /\ stray' = stray /\ \E e \in Request :
                                            down' = [down EXCEPT ![d] = Append(@, e)]
                    \/ d \notin ServerQpn /\ stray' = stray \union {d} /\ down' = down
<1> DEFINE p == Owner(q)
           s == [m |-> Parse(q, Head(up[q])), r |-> reg]
           in == Ingress(s)
<1>1. /\ scn \in Installed /\ reg \in Registers /\ up[q] \in Seq(Int) /\ up[q] # <<>>
      /\ Head(up[q]) \in Int /\ q \in Int
  BY ClientQpnInt DEF TypeOK, Pass, PopUp
<1>2. Arrives(p, q) /\ Resumable(p, q, reg)
  BY <1>1, ArrivesParked
<1>3. s \in Packet /\ s.r = reg
  BY <1>1, ParseType
<1>4. Keeps(s, in)
  BY <1>1, <1>3, IngressKeeps
<1>5. in \in Packet /\ Leaves(p, q, in) /\ Within(p, reg, in.r)
  BY <1>1, <1>2, IngressOwn
<1>6. Emit(q, in, IF in.m.drop THEN in ELSE Egress(in))
  BY Zenon DEF Pass
<1>7. p \in Nat
  BY <1>2, RowsOwn
<1> HIDE DEF s, in, p
<1>8. CASE in.m.drop
  <2> DEFINE x == 999 - in.m.dqpn
  <2>1. in.r.psn = reg.psn /\ in.m.dqpn = 999 - p
    BY <1>3, <1>4, <1>5, <1>8 DEF Keeps, Leaves
  <2>2. /\ reg' = in.r /\ down' = down /\ stray' = stray
        /\ ended' = [ended EXCEPT ![x] = @ + 1]
    BY <1>6, <1>8 DEF Emit, Send
  <2>3. x = p
    BY <1>7, <2>1
  <2> HIDE DEF x
  <2>4. ended' = [ended EXCEPT ![p] = @ + 1]
    BY <2>2, <2>3
  <2> QED BY <1>5, <2>1, <2>2, <2>4 DEF p
<1>9. CASE ~in.m.drop
  <2> DEFINE out == Egress(in)
  <2>1. out \in Packet /\ Stamps(in, out) /\ in.r.psn = reg.psn
    BY <1>1, <1>3, <1>5, <1>4, EgressStamps DEF Keeps
  <2>2. Passes(p, in, out)
    BY <1>2, <1>5, EgressOwn
  <2> HIDE DEF out
  <2>3. Leaves(p, q, out) /\ Within(p, reg, out.r)
    BY <1>5, <2>2, PassesLeaves, WithinTrans DEF Passes
  <2>4. Emit(q, in, out)
    BY <1>6, <1>9 DEF out
  <2>5. reg' = out.r /\ ended' = ended
    BY <1>9, <2>4 DEF Emit, Send
  <2>6. IF Hit("read_update_psn", <<out.m.dqpn>>)
        THEN \E n : reg'.psn = [reg.psn EXCEPT ![Arg("read_update_psn", <<out.m.dqpn>>)] = n]
        ELSE reg'.psn = reg.psn
    BY <2>1, <2>5 DEF Stamps
  <2> DEFINE e == [psn |-> out.m.psn, addr |-> out.m.addr]
  <2>7. e \in Request
    BY <2>1 DEF Packet, Meta, Request
  <2>8. \/ out.m.dqpn \in ServerQpn /\ stray' = stray
           /\ down' = [down EXCEPT ![out.m.dqpn] = Append(@, e)]
        \/ out.m.dqpn \notin ServerQpn /\ stray' = stray \union {out.m.dqpn} /\ down' = down
    BY <1>9, <2>4 DEF Emit, Send
  <2> HIDE DEF e
  <2> QED BY <2>1, <2>3, <2>5, <2>6, <2>7, <2>8 DEF p
<1> QED BY <1>8, <1>9

-----------------------------------------------------------------------------
(* What is parked stays a policy's.                                        *)

\* Before the first walk the registers hold 0, which is no level of a walk.
LEMMA InitParked == ASSUME Init PROVE StateParked
<1> SUFFICES ASSUME NEW p \in Policies, p \in PageRegs
             PROVE  /\ reg.dwalk[p] \in Away(p)
                    /\ \A q \in Clients(scn, p) : up[q] = <<>> /\ down[q - Coef] = <<>>
  BY DEF StateParked
<1>1. reg.dwalk[p] = 0
  BY DEF Init
<1>2. 0 \in Goals(scn, p) /\ 0 \notin LevelGoals(scn)
  BY SizeAssumption DEF Goals, LevelGoals
<1>3. ASSUME NEW q \in Clients(scn, p) PROVE up[q] = <<>> /\ down[q - Coef] = <<>>
  <2>1. PICK d \in ServerQpn : q = d + Coef
    BY DEF Clients, ClientQpn
  <2>2. q \in ClientQpn /\ q - Coef = d
    BY <2>1, SizeAssumption DEF ClientQpn
  <2> QED BY <2>2 DEF Init
<1> QED BY <1>1, <1>2, <1>3 DEF Away

\* The server's end of a client QPN.
LEMMA ServerEnd ==
  ASSUME NEW q \in ClientQpn
  PROVE  q - Coef \in ServerQpn /\ (q - Coef) + Coef = q
         /\ \A d \in ServerQpn : d + Coef = q => d = q - Coef
BY SizeAssumption DEF ClientQpn

\* A policy's packet parks a state and a goal of that policy.
LEMMA PassParked ==
  ASSUME TypeOK, StateParked, NEW c \in ClientQpn, Pass(c) PROVE StateParked'
<1>0. scn' = scn /\ up[c] # <<>> /\ up' = [up EXCEPT ![c] = Tail(@)]
  BY DEF Pass, PopUp
<1>1. PICK out \in Packet :
        /\ reg' = out.r /\ Within(Owner(c), reg, reg') /\ Leaves(Owner(c), c, out)
        /\ \/ down' = down
           \/ out.m.dqpn \in ServerQpn /\ \E e \in Request :
                down' = [down EXCEPT ![out.m.dqpn] = Append(@, e)]
  BY PassOwn
<1>2. Arrives(Owner(c), c)
  BY <1>0, ArrivesParked
<1>3. up \in [ClientQpn -> Seq(Int)] /\ down \in [ServerQpn -> Seq(Request)]
  BY DEF TypeOK
<1> SUFFICES ASSUME NEW p \in Policies, p \in PageRegs
             PROVE  /\ reg'.dwalk[p] \in Away(p)
                    /\ \A q \in Clients(scn, p) \intersect Levels(scn) :
                         up'[q] # <<>> \/ down'[q - Coef] # <<>> =>
                           reg'.qwalk[p] \in States(scn, p)
  BY <1>0 DEF StateParked, Away
<1>4. CASE p # Owner(c)
  <2>1. reg'.dwalk[p] = reg.dwalk[p] /\ reg'.qwalk[p] = reg.qwalk[p]
    BY <1>1, <1>4 DEF Within
  <2>2. ASSUME NEW q \in Clients(scn, p) PROVE up'[q] = up[q] /\ down'[q - Coef] = down[q - Coef]
    <3>1. q \in ClientQpn /\ q # c
      BY <1>4 DEF Clients, Owner
    <3>2. up'[q] = up[q]
      BY <1>0, <1>3, <3>1
    <3>3. out.m.dqpn \in ServerQpn => out.m.dqpn # q - Coef
      <4>1. out.m.dqpn \in ServerQpn => scn.owner[out.m.dqpn + Coef] = Owner(c)
        BY <1>1, <1>2, PolicyFacts DEF Leaves, Servers
      <4>2. scn.owner[q] = p
        BY DEF Clients
      <4> QED BY <1>4, <3>1, <4>1, <4>2, ServerEnd
    <3>4. q - Coef \in ServerQpn
      BY <3>1, ServerEnd
    <3> QED BY <1>1, <1>3, <3>2, <3>3, <3>4
  <2> QED BY <2>1, <2>2 DEF StateParked
<1>5. CASE p = Owner(c)
  <2>1. reg'.dwalk[p] \in Away(p)
    BY <1>1, <1>5 DEF Leaves
  <2>2. ASSUME NEW q \in Clients(scn, p) \intersect Levels(scn),
               up'[q] # <<>> \/ down'[q - Coef] # <<>>
        PROVE  reg'.qwalk[p] \in States(scn, p)
    <3>0. q \in ClientQpn /\ q - Coef \in ServerQpn /\ q = (q - Coef) + Coef
      BY ServerEnd DEF Clients
    <3>1. CASE c \in Levels(scn) \/ out.m.dqpn \in LevelGoals(scn)
      BY <1>1, <1>5, <3>1 DEF Leaves
    <3>2. CASE c \notin Levels(scn) /\ out.m.dqpn \notin LevelGoals(scn)
      <4>1. up'[q] = up[q]
        BY <1>0, <1>3, <3>0, <3>2
      <4>2. out.m.dqpn \in ServerQpn => out.m.dqpn # q - Coef
        BY <3>0, <3>2 DEF LevelGoals
      <4>3. down'[q - Coef] = down[q - Coef]
        BY <1>1, <1>3, <3>0, <4>2
      <4>4. reg.qwalk[p] \in States(scn, p)
        BY <2>2, <4>1, <4>3 DEF StateParked
      <4> QED BY <1>1, <1>5, <4>4 DEF Leaves
    <3> QED BY <3>1, <3>2
  <2> QED BY <2>1, <2>2
<1> QED BY <1>4, <1>5

\* The other actions write no register; a trigger starts outside the page walks,
\* and the NIC moves a packet along its connection.
LEMMA OtherParked ==
  ASSUME TypeOK, StateParked,
         \/ \E p \in Policies : Trigger(p)
         \/ \E d \in ServerQpn : Nic(d) \/ LoseRequest(d) \/ LoseResponse(d)
         \/ UNCHANGED vars
  PROVE  StateParked'
<1>0. scn' = scn /\ reg' = reg
  BY DEF Trigger, Nic, LoseRequest, LoseResponse, vars
<1>1. up \in [ClientQpn -> Seq(Int)] /\ down \in [ServerQpn -> Seq(Request)]
  BY DEF TypeOK
<1> SUFFICES ASSUME NEW p \in Policies, NEW q \in Clients(scn, p) \intersect Levels(scn),
                    up'[q] # <<>> \/ down'[q - Coef] # <<>>
             PROVE  up[q] # <<>> \/ down[q - Coef] # <<>>
  BY <1>0 DEF StateParked, Away
<1>2. q \in ClientQpn /\ q - Coef \in ServerQpn /\ q = (q - Coef) + Coef
      /\ \A d \in ServerQpn : d + Coef = q => d = q - Coef
  BY ServerEnd DEF Clients
<1>3. ASSUME NEW a \in Policies, Trigger(a) PROVE up'[q] = up[q] /\ down' = down
  <2>1. scn.init[a] # q
    BY OwnAssumption DEF PlacesOwn, TypeOK, Installed
  <2>2. down' = down /\ up' = [up EXCEPT ![scn.init[a]] = Append(@, scn.start[a])]
    BY <1>3 DEF Trigger
  <2> DEFINE v == scn.start[a]
             w == scn.init[a]
  <2> HIDE DEF v, w
  <2>3. w # q /\ up' = [up EXCEPT ![w] = Append(@, v)]
    BY <2>1, <2>2 DEF v, w
  <2>4. up'[q] = up[q]
    BY <1>1, <1>2, <2>3
  <2> QED BY <2>2, <2>4
<1>4. ASSUME NEW d \in ServerQpn, Nic(d) PROVE up[q] # <<>> \/ down[q - Coef] # <<>>
  <2>1. down[d] # <<>> /\ down' = [down EXCEPT ![d] = Tail(@)]
        /\ (up' = up \/ \E v : up' = [up EXCEPT ![d + Coef] = Append(@, v)])
    BY <1>4 DEF Nic, PopDown
  <2>2. CASE d = q - Coef
    BY <2>1, <2>2
  <2>3. CASE d # q - Coef
    <3>1. up'[q] = up[q] /\ down'[q - Coef] = down[q - Coef]
      BY <1>1, <1>2, <2>1, <2>3
    <3> QED BY <3>1
  <2> QED BY <2>2, <2>3
<1>5. ASSUME NEW d \in ServerQpn, LoseRequest(d) PROVE up[q] # <<>> \/ down[q - Coef] # <<>>
  <2>1. down[d] # <<>> /\ down' = [down EXCEPT ![d] = Tail(@)] /\ up' = up
    BY <1>5 DEF LoseRequest, PopDown
  <2> QED BY <1>1, <1>2, <2>1
<1>6. ASSUME NEW d \in ServerQpn, LoseResponse(d) PROVE up[q] # <<>> \/ down[q - Coef] # <<>>
  <2>1. up[d + Coef] # <<>> /\ up' = [up EXCEPT ![d + Coef] = Tail(@)] /\ down' = down
    BY <1>6 DEF LoseResponse, PopUp
  <2> QED BY <1>1, <1>2, <2>1
<1> QED BY <1>3, <1>4, <1>5, <1>6 DEF vars

\* The induction step of every theorem below.
LEMMA StepParked == TypeOK /\ StateParked /\ [Next]_vars => (TypeOK /\ StateParked)'
<1> SUFFICES ASSUME TypeOK, StateParked, [Next]_vars PROVE StateParked'
  BY StepType
<1> QED BY PassParked, OtherParked DEF Next

\* What a page walk left behind always leads back to the policy that walks, in
\* every interleaving and after every loss.
THEOREM ParkedAlways == Spec => [](TypeOK /\ StateParked)
<1>1. Init => TypeOK /\ StateParked
  BY InitType, InitParked
<1> QED BY <1>1, StepParked, PTL DEF Spec

-----------------------------------------------------------------------------
(* A policy's registers change only with a packet of its own.              *)

\* The registers of two policies are disjoint: what a packet of one may write
\* leaves the other's alone.
LEMMA WithinOther ==
  ASSUME TypeOK, NEW p \in Policies, NEW o \in Policies, o # p, Within(p, reg, reg')
  PROVE  /\ \A i \in AddrRegs \intersect (15*o .. (15*o + 14)) : reg'.addr[i] = reg.addr[i]
         /\ \A i \in MaxRegs \intersect (3*o .. (3*o + 2)) : reg'.max[i] = reg.max[i]
         /\ \A i \in PageRegs \intersect {o} : /\ reg'.page[i] = reg.page[i]
                                               /\ reg'.dwalk[i] = reg.dwalk[i]
                                               /\ reg'.qwalk[i] = reg.qwalk[i]
<1>1. p \in Nat /\ o \in Nat
  BY OwnAssumption
<1>2. \A i \in 15*o .. (15*o + 14) : i \notin 15*p .. (15*p + 14)
  BY <1>1
<1>3. \A i \in 3*o .. (3*o + 2) : i \notin 3*p .. (3*p + 2)
  BY <1>1
<1> QED BY <1>2, <1>3 DEF Within

\* A pass advances the PSN register of a connection of its own policy.
LEMMA PassOtherPsn ==
  ASSUME TypeOK, StateParked, NEW c \in ClientQpn, Pass(c),
         NEW o \in Policies, o # Owner(c),
         NEW x \in Servers(scn, o), Hit("read_update_psn", <<x>>)
  PROVE  PsnRegister(x)' = PsnRegister(x)
<1>0. scn' = scn /\ up[c] # <<>> /\ scn \in Installed
  BY DEF Pass, PopUp, TypeOK
<1>1. PICK out \in Packet :
        /\ Leaves(Owner(c), c, out)
        /\ \/ reg'.psn = reg.psn
           \/ /\ Hit("read_update_psn", <<out.m.dqpn>>)
              /\ \E n : reg'.psn = [reg.psn EXCEPT ![Arg("read_update_psn", <<out.m.dqpn>>)] = n]
  BY PassOwn
<1>2. Arrives(Owner(c), c)
  BY <1>0, ArrivesParked
<1>3. x \in ServerQpn /\ scn.owner[x + Coef] = o
  BY DEF Servers
<1>4. x # out.m.dqpn
  <2>1. out.m.dqpn \in ServerQpn => scn.owner[out.m.dqpn + Coef] = Owner(c)
    BY <1>1, <1>2, PolicyFacts DEF Leaves, Servers
  <2> QED BY <1>3, <2>1
<1> DEFINE a == Arg("read_update_psn", <<x>>)
<1>5. a \in PsnRegs /\ reg.psn \in [PsnRegs -> 0..(PsnMod - 1)]
  BY RegisterType DEF TypeOK, Registers
<1>6. Hit("read_update_psn", <<out.m.dqpn>>) => Arg("read_update_psn", <<out.m.dqpn>>) # a
  BY <1>0, <1>4, RegisterOwn
<1>7. reg'.psn[a] = reg.psn[a]
  BY <1>1, <1>5, <1>6
<1> QED BY <1>0, <1>7 DEF PsnRegister, Arg, Tbl

\* A queue that loses its head is another queue.
LEMMA TailShorter == ASSUME NEW S, NEW s \in Seq(S), s # <<>> PROVE Tail(s) # s
<1> DEFINE t == Tail(s)
<1>1. Len(t) = Len(s) - 1 /\ Len(s) \in Nat
  OBVIOUS
<1> HIDE DEF t
<1>2. t # s
  BY <1>1
<1> QED BY <1>2 DEF t

\* A pass takes a packet of the policy it serves, and leaves the registers of the
\* others alone.
LEMMA PassIsolated ==
  ASSUME TypeOK, StateParked, NEW c \in ClientQpn, Pass(c),
         NEW o \in Policies, Packets(o)' = Packets(o)
  PROVE  Mine(o)' = Mine(o)
<1>0. scn' = scn /\ up[c] # <<>> /\ up' = [up EXCEPT ![c] = Tail(@)]
  BY DEF Pass, PopUp
<1>1. Owner(c) \in Policies
  BY <1>0, ArrivesParked DEF Arrives
<1>2. CASE o = Owner(c)
  <2>1. c \in Clients(scn, o)
    BY <1>2 DEF Clients, Owner
  <2>2. up'[c] = up[c]
    <3>1. Packets(o)[c] = up[c]
      BY <2>1 DEF Packets
    <3>2. Packets(o)'[c] = up'[c]
      BY <1>0, <2>1 DEF Packets, Clients
    <3> QED BY <3>1, <3>2
  <2>3. up \in [ClientQpn -> Seq(Int)] /\ up[c] \in Seq(Int)
    BY DEF TypeOK
  <2>4. Tail(up[c]) # up[c]
    BY <1>0, <2>3, TailShorter
  <2>5. up'[c] = Tail(up[c])
    BY <1>0, <2>3
  <2> QED BY <2>2, <2>4, <2>5
<1>3. CASE o # Owner(c)
  <2>1. Within(Owner(c), reg, reg')
    BY PassOwn
  <2>2. /\ \A i \in AddrRegs \intersect (15*o .. (15*o + 14)) : reg'.addr[i] = reg.addr[i]
        /\ \A i \in MaxRegs \intersect (3*o .. (3*o + 2)) : reg'.max[i] = reg.max[i]
        /\ \A i \in PageRegs \intersect {o} : /\ reg'.page[i] = reg.page[i]
                                              /\ reg'.dwalk[i] = reg.dwalk[i]
                                              /\ reg'.qwalk[i] = reg.qwalk[i]
    BY <1>1, <1>3, <2>1, WithinOther
  <2> DEFINE S == {x \in Servers(scn, o) : Hit("read_update_psn", <<x>>)}
  <2>3. \A x \in S : PsnRegister(x)' = PsnRegister(x)
    BY <1>3, PassOtherPsn
  <2>4. S' = S
    BY <1>0 DEF Servers, Hit, Tbl
  <2>5. [x \in S |-> PsnRegister(x)]' = [x \in S |-> PsnRegister(x)]
    BY <2>3, <2>4
  <2>6. [i \in AddrRegs \intersect (15*o .. (15*o + 14)) |-> reg.addr[i]]'
        = [i \in AddrRegs \intersect (15*o .. (15*o + 14)) |-> reg.addr[i]]
    BY <2>2
  <2>7. [i \in MaxRegs \intersect (3*o .. (3*o + 2)) |-> reg.max[i]]'
        = [i \in MaxRegs \intersect (3*o .. (3*o + 2)) |-> reg.max[i]]
    BY <2>2
  <2>8. [i \in PageRegs \intersect {o} |-> <<reg.page[i], reg.dwalk[i], reg.qwalk[i]>>]'
        = [i \in PageRegs \intersect {o} |-> <<reg.page[i], reg.dwalk[i], reg.qwalk[i]>>]
    BY <2>2
  <2> QED BY <2>5, <2>6, <2>7, <2>8, Zenon DEF Mine
<1> QED BY <1>2, <1>3

\* The other actions write no register.
LEMMA OtherIsolated ==
  ASSUME \/ \E p \in Policies : Trigger(p)
         \/ \E d \in ServerQpn : Nic(d) \/ LoseRequest(d) \/ LoseResponse(d)
         \/ UNCHANGED vars,
         NEW o
  PROVE  Mine(o)' = Mine(o)
<1>1. scn' = scn /\ reg' = reg
  BY DEF Trigger, Nic, LoseRequest, LoseResponse, vars
<1> QED BY <1>1 DEF Mine, Servers, Hit, Tbl, PsnRegister, Arg

\* However the walks of several policies interleave, overlap and get lost, a policy
\* finds its base addresses, trip counts, parked states and PSNs as its own last
\* packet left them: the one register file of the pipeline is several.
THEOREM PoliciesIsolated == Spec => Isolated
<1>1. TypeOK /\ StateParked /\ [Next]_vars =>
        [\A p \in Policies : Packets(p)' = Packets(p) => Mine(p)' = Mine(p)]_vars
  <2> SUFFICES ASSUME TypeOK, StateParked, [Next]_vars,
                      NEW o \in Policies, Packets(o)' = Packets(o)
               PROVE  Mine(o)' = Mine(o)
    OBVIOUS
  <2> QED BY PassIsolated, OtherIsolated DEF Next
<1> QED BY <1>1, ParkedAlways, PTL DEF Spec, Isolated

-----------------------------------------------------------------------------
(* A walk is one packet. Packets are counted by their places, so that one  *)
(* packet more or less is one element more or less of a finite set.        *)

\* The places at D, of which h has some number at each point.
Cells(h, D) == UNION {{c} \X (1..h[c]) : c \in D}

\* g is h with k more at c.
More(K, h, g, c, k) == \A x \in K : g[x] = IF x = c THEN h[x] + k ELSE h[x]

\* What a cell is.
LEMMA InCells ==
  ASSUME NEW h, NEW D, NEW y
  PROVE  y \in Cells(h, D) <=> \E x \in D : \E i \in 1..h[x] : y = <<x, i>>
BY DEF Cells

\* One more at c is one place more, or none if c is not in D.
LEMMA CellsAdd ==
  ASSUME NEW K, NEW D \in SUBSET K, NEW h \in [K -> Nat], NEW g \in [K -> Nat],
         NEW c \in K, More(K, h, g, c, 1)
  PROVE  /\ c \in D => Cells(g, D) = Cells(h, D) \union {<<c, h[c] + 1>>}
         /\ <<c, h[c] + 1>> \notin Cells(h, D)
         /\ c \notin D => Cells(g, D) = Cells(h, D)
<1>1. \A x \in K : g[x] = IF x = c THEN h[x] + 1 ELSE h[x]
  BY DEF More
<1>2. \A x \in K : x # c => 1..g[x] = 1..h[x]
  BY <1>1
<1>3. 1..g[c] = (1..h[c]) \union {h[c] + 1} /\ h[c] + 1 \notin 1..h[c]
  BY <1>1
<1>4. c \in D => Cells(g, D) = Cells(h, D) \union {<<c, h[c] + 1>>}
  <2> SUFFICES ASSUME c \in D, NEW y
               PROVE  y \in Cells(g, D) <=> y \in Cells(h, D) \/ y = <<c, h[c] + 1>>
    OBVIOUS
  <2>1. ASSUME y \in Cells(g, D) PROVE y \in Cells(h, D) \/ y = <<c, h[c] + 1>>
    <3>0. PICK x \in D : \E i \in 1..g[x] : y = <<x, i>>
      BY <2>1, InCells
    <3>1. PICK i \in 1..g[x] : y = <<x, i>>
      BY <3>0
    <3>2. CASE x # c
      BY <1>2, <3>1, <3>2, InCells
    <3>3. CASE x = c
      BY <1>3, <3>1, <3>3, InCells
    <3> QED BY <3>2, <3>3
  <2>2. ASSUME y \in Cells(h, D) PROVE y \in Cells(g, D)
    <3>0. PICK x \in D : \E i \in 1..h[x] : y = <<x, i>>
      BY <2>2, InCells
    <3>1. PICK i \in 1..h[x] : y = <<x, i>>
      BY <3>0
    <3>2. i \in 1..g[x]
      BY <1>2, <1>3
    <3> QED BY <3>1, <3>2, InCells
  <2>3. <<c, h[c] + 1>> \in Cells(g, D)
    BY <1>3, InCells
  <2> QED BY <2>1, <2>2, <2>3
<1>5. <<c, h[c] + 1>> \notin Cells(h, D)
  BY <1>3, InCells
<1>6. c \notin D => Cells(g, D) = Cells(h, D)
  BY <1>2 DEF Cells
<1> QED BY <1>4, <1>5, <1>6

\* What is counted at D.
Counts(h, D, n) == IsFiniteSet(Cells(h, D)) /\ Cardinality(Cells(h, D)) = n

\* One packet more at c is one more counted wherever c is counted.
LEMMA CountUp ==
  ASSUME NEW K, NEW D \in SUBSET K, NEW h \in [K -> Nat], NEW g \in [K -> Nat],
         NEW c \in K, More(K, h, g, c, 1), NEW n \in Int, Counts(h, D, n)
  PROVE  Counts(g, D, IF c \in D THEN n + 1 ELSE n)
<1>1. PICK z : /\ c \in D => Cells(g, D) = Cells(h, D) \union {z}
               /\ z \notin Cells(h, D)
               /\ c \notin D => Cells(g, D) = Cells(h, D)
  <2>1. /\ c \in D => Cells(g, D) = Cells(h, D) \union {<<c, h[c] + 1>>}
        /\ <<c, h[c] + 1>> \notin Cells(h, D)
        /\ c \notin D => Cells(g, D) = Cells(h, D)
    BY CellsAdd
  <2> QED BY <2>1
<1>2. IsFiniteSet(Cells(h, D)) /\ Cardinality(Cells(h, D)) = n
  BY DEF Counts
<1>3. CASE c \in D
  <2> DEFINE S == Cells(h, D)
  <2>1. IsFiniteSet(S) /\ Cardinality(S) = n /\ z \notin S /\ Cells(g, D) = S \union {z}
    BY <1>1, <1>2, <1>3
  <2> HIDE DEF S
  <2>2. IsFiniteSet(S \union {z}) /\ Cardinality(S \union {z}) = n + 1
    BY <2>1, FS_AddElement
  <2> QED BY <1>3, <2>1, <2>2 DEF Counts
<1>4. CASE c \notin D
  BY <1>1, <1>4 DEF Counts
<1> QED BY <1>3, <1>4

\* One packet less at c is one less counted wherever c is counted.
LEMMA CountDown ==
  ASSUME NEW K, NEW D \in SUBSET K, NEW h \in [K -> Nat], NEW g \in [K -> Nat],
         NEW c \in K, More(K, h, g, c, -1), NEW n \in Int, Counts(h, D, n)
  PROVE  Counts(g, D, IF c \in D THEN n - 1 ELSE n)
<1> DEFINE z == <<c, g[c] + 1>>
<1>1. More(K, g, h, c, 1)
  BY DEF More
<1>2. /\ c \in D => Cells(h, D) = Cells(g, D) \union {z}
      /\ z \notin Cells(g, D)
      /\ c \notin D => Cells(h, D) = Cells(g, D)
  BY <1>1, CellsAdd
<1> HIDE DEF z
<1>3. IsFiniteSet(Cells(h, D)) /\ Cardinality(Cells(h, D)) = n
  BY DEF Counts
<1>4. CASE c \in D
  <2> DEFINE S == Cells(h, D)
  <2>1. IsFiniteSet(S) /\ Cardinality(S) = n /\ z \in S /\ Cells(g, D) = S \ {z}
    BY <1>2, <1>3, <1>4
  <2> HIDE DEF S
  <2>2. IsFiniteSet(S \ {z}) /\ Cardinality(S \ {z}) = n - 1
    BY <2>1, FS_RemoveElement
  <2> QED BY <1>4, <2>1, <2>2 DEF Counts
<1>5. CASE c \notin D
  BY <1>2, <1>5 DEF Counts
<1> QED BY <1>4, <1>5

-----------------------------------------------------------------------------
(* The points at which packets of a policy are counted.                    *)

Kinds == {"up", "down", "req", "resp"}
Points == ServerQpn \X Kinds
PointsOf(p) == {c \in Points : Owner(c[1] + Coef) = p}

\* The places of the property are the cells counted here.
LEMMA PlacesCells == \A p : Places(p) = Cells(Held, PointsOf(p))
BY Zenon DEF Places, Cells, PointsOf, Points, Kinds, Held

\* What is counted at each point.
HeldAt ==
  \A d \in ServerQpn : /\ Held[<<d, "up">>] = Len(up[d + Coef])
                       /\ Held[<<d, "down">>] = Len(down[d])
                       /\ Held[<<d, "req">>] = lost[d].req
                       /\ Held[<<d, "resp">>] = lost[d].resp

\* Numbers of packets.
HeldCounts == Held \in [Points -> Nat]

\* Every point holds a number of packets, that of its queue or of what was lost.
LEMMA HeldType == TypeOK => HeldCounts /\ HeldAt
<1> SUFFICES ASSUME TypeOK PROVE HeldCounts /\ HeldAt
  OBVIOUS
<1>1. HeldAt
  BY DEF HeldAt, Held
<1>2. \A d \in ServerQpn : d + Coef \in ClientQpn
  BY DEF ClientQpn
<1>3. \A d \in ServerQpn : /\ Len(up[d + Coef]) \in Nat /\ Len(down[d]) \in Nat
                           /\ lost[d].req \in Nat /\ lost[d].resp \in Nat
  BY <1>2 DEF TypeOK
<1>4. \A c \in Points : Held[c] \in Nat
  <2> TAKE c \in Points
  <2>1. PICK d \in ServerQpn, w \in Kinds : c = <<d, w>>
    BY DEF Points
  <2> QED BY <1>1, <1>3, <2>1 DEF HeldAt, Kinds
<1>5. Held = [c \in Points |-> Held[c]]
  BY Zenon DEF Held, Points, Kinds
<1> QED BY <1>1, <1>4, <1>5 DEF HeldCounts

\* One packet taken from c and put at e.
Moved(K, h, g, c, e) ==
  \A x \in K : g[x] = IF x = c THEN h[x] - 1 ELSE IF x = e THEN h[x] + 1 ELSE h[x]

\* Within D, or outside, nothing is gained or lost by it.
LEMMA CountMoved ==
  ASSUME NEW K, NEW D \in SUBSET K, NEW h \in [K -> Nat], NEW g \in [K -> Nat],
         NEW c \in K, NEW e \in K, c # e, c \in D <=> e \in D, Moved(K, h, g, c, e),
         NEW n \in Int, Counts(h, D, n)
  PROVE  Counts(g, D, n)
<1> DEFINE m == [x \in K |-> IF x = c THEN g[x] ELSE h[x]]
<1>1. m \in [K -> Nat]
  OBVIOUS
<1>2. More(K, h, m, c, -1)
  BY DEF More, Moved
<1>3. More(K, m, g, e, 1)
  BY DEF More, Moved
<1> HIDE DEF m
<1>4. Counts(m, D, IF c \in D THEN n - 1 ELSE n)
  BY <1>1, <1>2, CountDown
<1>5. CASE c \in D
  <2>1. Counts(m, D, n - 1) /\ n - 1 \in Int
    BY <1>4, <1>5
  <2>2. Counts(g, D, IF e \in D THEN (n - 1) + 1 ELSE n - 1)
    BY <1>1, <1>3, <2>1, CountUp
  <2>3. (n - 1) + 1 = n
    OBVIOUS
  <2> QED BY <1>5, <2>2, <2>3
<1>6. CASE c \notin D
  <2>1. Counts(m, D, n)
    BY <1>4, <1>6
  <2>2. Counts(g, D, IF e \in D THEN n + 1 ELSE n)
    BY <1>1, <1>3, <2>1, CountUp
  <2> QED BY <1>6, <2>2
<1> QED BY <1>5, <1>6

-----------------------------------------------------------------------------
(* What the actions do to the lengths of the queues.                       *)

\* Append and Tail change one queue's length by one.
LEMMA QueueLengths ==
  ASSUME NEW K, NEW S, NEW f \in [K -> Seq(S)], NEW k \in K, NEW e \in S
  PROVE  /\ \A x \in K : Len([f EXCEPT ![k] = Append(@, e)][x]) =
                           IF x = k THEN Len(f[x]) + 1 ELSE Len(f[x])
         /\ f[k] # <<>> => \A x \in K : Len([f EXCEPT ![k] = Tail(@)][x]) =
                           IF x = k THEN Len(f[x]) - 1 ELSE Len(f[x])
<1>1. \A x \in K : f[x] \in Seq(S)
  OBVIOUS
<1>2. Len(Append(f[k], e)) = Len(f[k]) + 1
  BY <1>1
<1>3. f[k] # <<>> => Len(Tail(f[k])) = Len(f[k]) - 1
  BY <1>1
<1>4. \A x \in K : [f EXCEPT ![k] = Append(@, e)][x] = IF x = k THEN Append(f[k], e) ELSE f[x]
  OBVIOUS
<1>5. \A x \in K : [f EXCEPT ![k] = Tail(@)][x] = IF x = k THEN Tail(f[k]) ELSE f[x]
  OBVIOUS
<1> QED BY <1>2, <1>3, <1>4, <1>5

\* k more responses on the connection of q, or requests.
UpMore(q, k) ==
  \A d \in ServerQpn : Len(up'[d + Coef]) = IF d = q THEN Len(up[d + Coef]) + k ELSE Len(up[d + Coef])
DownMore(q, k) ==
  \A d \in ServerQpn : Len(down'[d]) = IF d = q THEN Len(down[d]) + k ELSE Len(down[d])

\* What leaves or enters up.
LEMMA UpLengths ==
  ASSUME TypeOK, NEW q \in ServerQpn
  PROVE  /\ PopUp(q + Coef) => UpMore(q, -1)
         /\ \A v \in Int : up' = [up EXCEPT ![q + Coef] = Append(@, v)] => UpMore(q, 1)
<1>1. up \in [ClientQpn -> Seq(Int)] /\ \A d \in ServerQpn : d + Coef \in ClientQpn
  BY DEF TypeOK, ClientQpn
<1>2. \A d \in ServerQpn : d + Coef = q + Coef => d = q
  BY SizeAssumption
<1>3. ASSUME PopUp(q + Coef) PROVE UpMore(q, -1)
  <2>1. up[q + Coef] # <<>> /\ up' = [up EXCEPT ![q + Coef] = Tail(@)]
    BY <1>3 DEF PopUp
  <2>2. 0 \in Int
    OBVIOUS
  <2>3. \A x \in ClientQpn : Len([up EXCEPT ![q + Coef] = Tail(@)][x]) =
                               IF x = q + Coef THEN Len(up[x]) - 1 ELSE Len(up[x])
    BY <1>1, <2>1, <2>2, QueueLengths
  <2>4. \A x \in ClientQpn : Len(up'[x]) = IF x = q + Coef THEN Len(up[x]) - 1 ELSE Len(up[x])
    BY <2>1, <2>3
  <2> QED BY <1>1, <1>2, <2>4 DEF UpMore
<1>4. ASSUME NEW v \in Int, up' = [up EXCEPT ![q + Coef] = Append(@, v)] PROVE UpMore(q, 1)
  <2>1. \A x \in ClientQpn : Len([up EXCEPT ![q + Coef] = Append(@, v)][x]) =
                               IF x = q + Coef THEN Len(up[x]) + 1 ELSE Len(up[x])
    BY <1>1, QueueLengths
  <2>2. \A x \in ClientQpn : Len(up'[x]) = IF x = q + Coef THEN Len(up[x]) + 1 ELSE Len(up[x])
    BY <1>4, <2>1
  <2> QED BY <1>1, <1>2, <2>2 DEF UpMore
<1> QED BY <1>3, <1>4

\* What leaves or enters down.
LEMMA DownLengths ==
  ASSUME TypeOK, NEW q \in ServerQpn
  PROVE  /\ PopDown(q) => DownMore(q, -1)
         /\ \A e \in Request : down' = [down EXCEPT ![q] = Append(@, e)] => DownMore(q, 1)
<1>1. down \in [ServerQpn -> Seq(Request)]
  BY DEF TypeOK
<1>2. ASSUME PopDown(q) PROVE DownMore(q, -1)
  <2>1. down[q] # <<>> /\ down' = [down EXCEPT ![q] = Tail(@)]
    BY <1>2 DEF PopDown
  <2>2. [psn |-> 0, addr |-> 0] \in Request
    BY DEF Request
  <2>3. \A x \in ServerQpn : Len([down EXCEPT ![q] = Tail(@)][x]) =
                               IF x = q THEN Len(down[x]) - 1 ELSE Len(down[x])
    BY <1>1, <2>1, <2>2, QueueLengths
  <2> QED BY <2>1, <2>3 DEF DownMore
<1>3. ASSUME NEW e \in Request, down' = [down EXCEPT ![q] = Append(@, e)] PROVE DownMore(q, 1)
  <2>1. \A x \in ServerQpn : Len([down EXCEPT ![q] = Append(@, e)][x]) =
                               IF x = q THEN Len(down[x]) + 1 ELSE Len(down[x])
    BY <1>1, QueueLengths
  <2> QED BY <1>3, <2>1 DEF DownMore
<1> QED BY <1>2, <1>3

\* Points are told apart by connection and kind.
LEMMA MoreAt ==
  ASSUME NEW h, NEW g, NEW q \in ServerQpn, NEW w, NEW k,
         \A d \in ServerQpn, x \in Kinds :
           g[<<d, x>>] = IF d = q /\ x = w THEN h[<<d, x>>] + k ELSE h[<<d, x>>]
  PROVE  More(Points, h, g, <<q, w>>, k)
<1> SUFFICES ASSUME NEW c \in Points
             PROVE  g[c] = IF c = <<q, w>> THEN h[c] + k ELSE h[c]
  BY DEF More
<1>1. PICK d \in ServerQpn, x \in Kinds : c = <<d, x>>
  BY DEF Points
<1>2. c = <<q, w>> <=> d = q /\ x = w
  BY <1>1
<1> QED BY <1>1, <1>2

\* A move between two points, said connection by connection.
LEMMA MovedAt ==
  ASSUME NEW h, NEW g, NEW q \in ServerQpn, NEW w, NEW e \in ServerQpn, NEW y,
         \A d \in ServerQpn, x \in Kinds :
           g[<<d, x>>] = IF d = q /\ x = w THEN h[<<d, x>>] - 1
                         ELSE IF d = e /\ x = y THEN h[<<d, x>>] + 1 ELSE h[<<d, x>>]
  PROVE  Moved(Points, h, g, <<q, w>>, <<e, y>>)
<1> SUFFICES ASSUME NEW c \in Points
             PROVE  g[c] = IF c = <<q, w>> THEN h[c] - 1
                           ELSE IF c = <<e, y>> THEN h[c] + 1 ELSE h[c]
  BY DEF Moved
<1>1. PICK d \in ServerQpn, x \in Kinds : c = <<d, x>>
  BY DEF Points
<1>2. (c = <<q, w>> <=> d = q /\ x = w) /\ (c = <<e, y>> <=> d = e /\ x = y)
  BY <1>1
<1> QED BY <1>1, <1>2

\* The number held at a queue changes as the queue's length does.
LEMMA HeldUp ==
  ASSUME HeldAt, HeldAt', NEW x \in ServerQpn
  PROVE  /\ up' = up => Held'[<<x, "up">>] = Held[<<x, "up">>]
         /\ \A q, k : UpMore(q, k) =>
              Held'[<<x, "up">>] = IF x = q THEN Held[<<x, "up">>] + k ELSE Held[<<x, "up">>]
<1>1. Held'[<<x, "up">>] = Len(up'[x + Coef]) /\ Held[<<x, "up">>] = Len(up[x + Coef])
  BY DEF HeldAt
<1>2. ASSUME NEW q, NEW k, UpMore(q, k)
      PROVE  Held'[<<x, "up">>] = IF x = q THEN Held[<<x, "up">>] + k ELSE Held[<<x, "up">>]
  BY <1>1, <1>2 DEF UpMore
<1> QED BY <1>1, <1>2

\* The points of the requests on their way.
LEMMA HeldDown ==
  ASSUME HeldAt, HeldAt', NEW x \in ServerQpn
  PROVE  /\ down' = down => Held'[<<x, "down">>] = Held[<<x, "down">>]
         /\ \A q, k : DownMore(q, k) =>
              Held'[<<x, "down">>] = IF x = q THEN Held[<<x, "down">>] + k ELSE Held[<<x, "down">>]
<1>1. Held'[<<x, "down">>] = Len(down'[x]) /\ Held[<<x, "down">>] = Len(down[x])
  BY DEF HeldAt
<1>2. ASSUME NEW q, NEW k, DownMore(q, k)
      PROVE  Held'[<<x, "down">>] = IF x = q THEN Held[<<x, "down">>] + k ELSE Held[<<x, "down">>]
  BY <1>1, <1>2 DEF DownMore
<1> QED BY <1>1, <1>2

\* The points of what was lost.
LEMMA HeldLost ==
  ASSUME TypeOK, HeldAt, HeldAt', NEW x \in ServerQpn
  PROVE  /\ lost' = lost => /\ Held'[<<x, "req">>] = Held[<<x, "req">>]
                            /\ Held'[<<x, "resp">>] = Held[<<x, "resp">>]
         /\ \A q : lost' = [lost EXCEPT ![q].req = @ + 1] =>
              /\ Held'[<<x, "req">>] = IF x = q THEN Held[<<x, "req">>] + 1 ELSE Held[<<x, "req">>]
              /\ Held'[<<x, "resp">>] = Held[<<x, "resp">>]
         /\ \A q : lost' = [lost EXCEPT ![q].resp = @ + 1] =>
              /\ Held'[<<x, "req">>] = Held[<<x, "req">>]
              /\ Held'[<<x, "resp">>] = IF x = q THEN Held[<<x, "resp">>] + 1
                                                 ELSE Held[<<x, "resp">>]
<1>1. /\ Held'[<<x, "req">>] = lost'[x].req /\ Held[<<x, "req">>] = lost[x].req
      /\ Held'[<<x, "resp">>] = lost'[x].resp /\ Held[<<x, "resp">>] = lost[x].resp
  BY DEF HeldAt
<1>2. lost \in [ServerQpn -> [req : Nat, resp : Nat]] /\ lost[x] \in [req : Nat, resp : Nat]
  BY DEF TypeOK
<1>3. ASSUME NEW q, lost' = [lost EXCEPT ![q].req = @ + 1]
      PROVE  /\ lost'[x].req = IF x = q THEN lost[x].req + 1 ELSE lost[x].req
             /\ lost'[x].resp = lost[x].resp
  BY <1>2, <1>3
<1>4. ASSUME NEW q, lost' = [lost EXCEPT ![q].resp = @ + 1]
      PROVE  /\ lost'[x].req = lost[x].req
             /\ lost'[x].resp = IF x = q THEN lost[x].resp + 1 ELSE lost[x].resp
  BY <1>2, <1>4
<1> QED BY <1>1, <1>3, <1>4

\* A response is taken from its queue and its request put into one, or the walk
\* is over; the NIC and the network move a packet along its connection.
LEMMA HeldMoves ==
  ASSUME TypeOK, TypeOK', NEW q \in ServerQpn
  PROVE  /\ UpMore(q, 1) /\ UNCHANGED <<down, lost>> =>
              More(Points, Held, Held', <<q, "up">>, 1)
         /\ UpMore(q, -1) /\ UNCHANGED <<down, lost>> =>
              More(Points, Held, Held', <<q, "up">>, -1)
         /\ DownMore(q, -1) /\ UNCHANGED <<up, lost>> =>
              More(Points, Held, Held', <<q, "down">>, -1)
         /\ \A d \in ServerQpn : UpMore(q, -1) /\ DownMore(d, 1) /\ UNCHANGED lost =>
              Moved(Points, Held, Held', <<q, "up">>, <<d, "down">>)
         /\ DownMore(q, -1) /\ UpMore(q, 1) /\ UNCHANGED lost =>
              Moved(Points, Held, Held', <<q, "down">>, <<q, "up">>)
         /\ DownMore(q, -1) /\ UNCHANGED up /\ lost' = [lost EXCEPT ![q].req = @ + 1] =>
              Moved(Points, Held, Held', <<q, "down">>, <<q, "req">>)
         /\ UpMore(q, -1) /\ UNCHANGED down /\ lost' = [lost EXCEPT ![q].resp = @ + 1] =>
              Moved(Points, Held, Held', <<q, "up">>, <<q, "resp">>)
<1>1. HeldAt /\ HeldAt'
  BY HeldType, PTL
<1>2. lost \in [ServerQpn -> [req : Nat, resp : Nat]]
  BY DEF TypeOK
<1>3. ASSUME UpMore(q, 1), UNCHANGED <<down, lost>> PROVE More(Points, Held, Held', <<q, "up">>, 1)
  <2>0. ASSUME NEW x \in ServerQpn
        PROVE  /\ Held'[<<x, "up">>] = IF x = q THEN Held[<<x, "up">>] + 1 ELSE Held[<<x, "up">>]
               /\ Held'[<<x, "down">>] = Held[<<x, "down">>]
               /\ Held'[<<x, "req">>] = Held[<<x, "req">>]
               /\ Held'[<<x, "resp">>] = Held[<<x, "resp">>]
    BY <1>1, <1>3, HeldUp, HeldDown, HeldLost
  <2>1. ASSUME NEW x \in ServerQpn, NEW z \in Kinds
        PROVE  Held'[<<x, z>>] = IF x = q /\ z = "up" THEN Held[<<x, z>>] + 1 ELSE Held[<<x, z>>]
    BY <2>0 DEF Kinds
  <2> QED BY <2>1, MoreAt
<1>4. ASSUME UpMore(q, -1), UNCHANGED <<down, lost>> PROVE More(Points, Held, Held', <<q, "up">>, -1)
  <2>0. ASSUME NEW x \in ServerQpn
        PROVE  /\ Held'[<<x, "up">>] = IF x = q THEN Held[<<x, "up">>] + (-1) ELSE Held[<<x, "up">>]
               /\ Held'[<<x, "down">>] = Held[<<x, "down">>]
               /\ Held'[<<x, "req">>] = Held[<<x, "req">>]
               /\ Held'[<<x, "resp">>] = Held[<<x, "resp">>]
    BY <1>1, <1>4, HeldUp, HeldDown, HeldLost
  <2>1. ASSUME NEW x \in ServerQpn, NEW z \in Kinds
        PROVE  Held'[<<x, z>>] = IF x = q /\ z = "up" THEN Held[<<x, z>>] + (-1) ELSE Held[<<x, z>>]
    BY <2>0 DEF Kinds
  <2> QED BY <2>1, MoreAt
<1>5. ASSUME DownMore(q, -1), UNCHANGED <<up, lost>> PROVE More(Points, Held, Held', <<q, "down">>, -1)
  <2>0. ASSUME NEW x \in ServerQpn
        PROVE  /\ Held'[<<x, "up">>] = Held[<<x, "up">>]
               /\ Held'[<<x, "down">>] = IF x = q THEN Held[<<x, "down">>] + (-1) ELSE Held[<<x, "down">>]
               /\ Held'[<<x, "req">>] = Held[<<x, "req">>]
               /\ Held'[<<x, "resp">>] = Held[<<x, "resp">>]
    BY <1>1, <1>5, HeldUp, HeldDown, HeldLost
  <2>1. ASSUME NEW x \in ServerQpn, NEW z \in Kinds
        PROVE  Held'[<<x, z>>] = IF x = q /\ z = "down" THEN Held[<<x, z>>] + (-1) ELSE Held[<<x, z>>]
    BY <2>0 DEF Kinds
  <2> QED BY <2>1, MoreAt
<1>6. ASSUME NEW d \in ServerQpn, UpMore(q, -1), DownMore(d, 1), UNCHANGED lost
      PROVE  Moved(Points, Held, Held', <<q, "up">>, <<d, "down">>)
  <2>0. ASSUME NEW x \in ServerQpn
        PROVE  /\ Held'[<<x, "up">>] = IF x = q THEN Held[<<x, "up">>] + (-1) ELSE Held[<<x, "up">>]
               /\ Held'[<<x, "down">>] = IF x = d THEN Held[<<x, "down">>] + 1 ELSE Held[<<x, "down">>]
               /\ Held'[<<x, "req">>] = Held[<<x, "req">>]
               /\ Held'[<<x, "resp">>] = Held[<<x, "resp">>]
    BY <1>1, <1>6, HeldUp, HeldDown, HeldLost
  <2>1. ASSUME NEW x \in ServerQpn, NEW z \in Kinds
        PROVE  Held'[<<x, z>>] = IF x = q /\ z = "up" THEN Held[<<x, z>>] - 1
                             ELSE IF x = d /\ z = "down" THEN Held[<<x, z>>] + 1 ELSE Held[<<x, z>>]
    BY <2>0 DEF Kinds
  <2> QED BY <2>1, MovedAt
<1>7. ASSUME DownMore(q, -1), UpMore(q, 1), UNCHANGED lost
      PROVE  Moved(Points, Held, Held', <<q, "down">>, <<q, "up">>)
  <2>0. ASSUME NEW x \in ServerQpn
        PROVE  /\ Held'[<<x, "up">>] = IF x = q THEN Held[<<x, "up">>] + 1 ELSE Held[<<x, "up">>]
               /\ Held'[<<x, "down">>] = IF x = q THEN Held[<<x, "down">>] + (-1) ELSE Held[<<x, "down">>]
               /\ Held'[<<x, "req">>] = Held[<<x, "req">>]
               /\ Held'[<<x, "resp">>] = Held[<<x, "resp">>]
    BY <1>1, <1>7, HeldUp, HeldDown, HeldLost
  <2>1. ASSUME NEW x \in ServerQpn, NEW z \in Kinds
        PROVE  Held'[<<x, z>>] = IF x = q /\ z = "down" THEN Held[<<x, z>>] - 1
                             ELSE IF x = q /\ z = "up" THEN Held[<<x, z>>] + 1 ELSE Held[<<x, z>>]
    BY <2>0 DEF Kinds
  <2> QED BY <2>1, MovedAt
<1>8. ASSUME DownMore(q, -1), UNCHANGED up, lost' = [lost EXCEPT ![q].req = @ + 1]
      PROVE  Moved(Points, Held, Held', <<q, "down">>, <<q, "req">>)
  <2>0. ASSUME NEW x \in ServerQpn
        PROVE  /\ Held'[<<x, "up">>] = Held[<<x, "up">>]
               /\ Held'[<<x, "down">>] = IF x = q THEN Held[<<x, "down">>] + (-1) ELSE Held[<<x, "down">>]
               /\ Held'[<<x, "req">>] = IF x = q THEN Held[<<x, "req">>] + 1 ELSE Held[<<x, "req">>]
               /\ Held'[<<x, "resp">>] = Held[<<x, "resp">>]
    BY <1>1, <1>8, HeldUp, HeldDown, HeldLost
  <2>1. ASSUME NEW x \in ServerQpn, NEW z \in Kinds
        PROVE  Held'[<<x, z>>] = IF x = q /\ z = "down" THEN Held[<<x, z>>] - 1
                             ELSE IF x = q /\ z = "req" THEN Held[<<x, z>>] + 1 ELSE Held[<<x, z>>]
    BY <2>0 DEF Kinds
  <2> QED BY <2>1, MovedAt
<1>9. ASSUME UpMore(q, -1), UNCHANGED down, lost' = [lost EXCEPT ![q].resp = @ + 1]
      PROVE  Moved(Points, Held, Held', <<q, "up">>, <<q, "resp">>)
  <2>0. ASSUME NEW x \in ServerQpn
        PROVE  /\ Held'[<<x, "up">>] = IF x = q THEN Held[<<x, "up">>] + (-1) ELSE Held[<<x, "up">>]
               /\ Held'[<<x, "down">>] = Held[<<x, "down">>]
               /\ Held'[<<x, "req">>] = Held[<<x, "req">>]
               /\ Held'[<<x, "resp">>] = IF x = q THEN Held[<<x, "resp">>] + 1 ELSE Held[<<x, "resp">>]
    BY <1>1, <1>9, HeldUp, HeldDown, HeldLost
  <2>1. ASSUME NEW x \in ServerQpn, NEW z \in Kinds
        PROVE  Held'[<<x, z>>] = IF x = q /\ z = "up" THEN Held[<<x, z>>] - 1
                             ELSE IF x = q /\ z = "resp" THEN Held[<<x, z>>] + 1 ELSE Held[<<x, z>>]
    BY <2>0 DEF Kinds
  <2> QED BY <2>1, MovedAt
<1> QED BY <1>3, <1>4, <1>5, <1>6, <1>7, <1>8, <1>9

-----------------------------------------------------------------------------
(* The induction.                                                          *)

\* The packets of a policy are finitely many, and as long as no request was refused
\* or went astray they are as many as the walks that started and did not end.
Counted ==
  \A p \in Policies : \E n \in Int :
    Counts(Held, PointsOf(p), n) /\ (NoRefusal => n = trig[p] - ended[p])

\* A step that moves a packet along, and starts or ends no walk.
LEMMA MovedCounted ==
  ASSUME TypeOK, TypeOK', Counted, scn' = scn, trig' = trig, ended' = ended,
         NoRefusal' => NoRefusal,
         NEW c \in Points, NEW e \in Points, c # e, Owner(c[1] + Coef) = Owner(e[1] + Coef),
         Moved(Points, Held, Held', c, e)
  PROVE  Counted'
<1> SUFFICES ASSUME NEW p \in Policies
             PROVE  \E n \in Int : /\ Counts(Held', PointsOf(p), n)
                                   /\ NoRefusal' => n = trig'[p] - ended'[p]
  BY DEF Counted, PointsOf, Owner
<1>1. PICK n \in Int : Counts(Held, PointsOf(p), n) /\ (NoRefusal => n = trig[p] - ended[p])
  BY DEF Counted
<1>2. Held \in [Points -> Nat] /\ Held' \in [Points -> Nat]
  <2>1. HeldCounts /\ HeldCounts'
    BY HeldType, PTL
  <2> QED BY <2>1 DEF HeldCounts
<1>3. PointsOf(p) \in SUBSET Points /\ (c \in PointsOf(p) <=> e \in PointsOf(p))
  BY DEF PointsOf
<1>4. Counts(Held', PointsOf(p), n)
  BY <1>1, <1>2, <1>3, CountMoved
<1> QED BY <1>1, <1>4

\* A step that takes a packet out: its walk ended, or it was refused.
LEMMA LessCounted ==
  ASSUME TypeOK, TypeOK', Counted, scn' = scn, trig' = trig, NoRefusal' => NoRefusal,
         NEW c \in Points, More(Points, Held, Held', c, -1),
         NoRefusal' => ended' = [ended EXCEPT ![Owner(c[1] + Coef)] = @ + 1]
  PROVE  Counted'
<1> SUFFICES ASSUME NEW p \in Policies
             PROVE  \E n \in Int : /\ Counts(Held', PointsOf(p), n)
                                   /\ NoRefusal' => n = trig'[p] - ended'[p]
  BY DEF Counted, PointsOf, Owner
<1>1. PICK n \in Int : Counts(Held, PointsOf(p), n) /\ (NoRefusal => n = trig[p] - ended[p])
  BY DEF Counted
<1>2. Held \in [Points -> Nat] /\ Held' \in [Points -> Nat]
  <2>1. HeldCounts /\ HeldCounts'
    BY HeldType, PTL
  <2> QED BY <2>1 DEF HeldCounts
<1>3. PointsOf(p) \in SUBSET Points /\ (c \in PointsOf(p) <=> Owner(c[1] + Coef) = p)
  BY DEF PointsOf
<1>4. Counts(Held', PointsOf(p), IF c \in PointsOf(p) THEN n - 1 ELSE n)
  BY <1>1, <1>2, <1>3, CountDown
<1>5. trig[p] \in Int /\ ended[p] \in Int /\ ended \in [Policies -> Nat]
  BY DEF TypeOK
<1>6. NoRefusal' => ended'[p] = IF c \in PointsOf(p) THEN ended[p] + 1 ELSE ended[p]
  BY <1>3, <1>5
<1>7. CASE c \in PointsOf(p)
  <2>1. Counts(Held', PointsOf(p), n - 1) /\ n - 1 \in Int
    BY <1>4, <1>7
  <2>2. NoRefusal' => n - 1 = trig'[p] - ended'[p]
    BY <1>1, <1>5, <1>6, <1>7
  <2> QED BY <2>1, <2>2
<1>8. CASE c \notin PointsOf(p)
  BY <1>1, <1>4, <1>6, <1>8
<1> QED BY <1>7, <1>8

\* Before the first trigger there is no packet and no walk.
LEMMA InitCounted == ASSUME Init PROVE Counted
<1> SUFFICES ASSUME NEW p \in Policies PROVE Counts(Held, PointsOf(p), 0) /\ trig[p] = 0 /\ ended[p] = 0
  BY DEF Counted
<1>1. HeldAt
  BY InitType, HeldType
<1>2. ASSUME NEW d \in ServerQpn
      PROVE  /\ Held[<<d, "up">>] = 0 /\ Held[<<d, "down">>] = 0
             /\ Held[<<d, "req">>] = 0 /\ Held[<<d, "resp">>] = 0
  <2>1. up[d + Coef] = <<>> /\ down[d] = <<>> /\ lost[d].req = 0 /\ lost[d].resp = 0
    BY DEF Init, ClientQpn
  <2> QED BY <1>1, <2>1 DEF HeldAt
<1>3. \A c \in Points : Held[c] = 0
  <2> TAKE c \in Points
  <2>1. PICK d \in ServerQpn, w \in Kinds : c = <<d, w>>
    BY DEF Points
  <2> QED BY <1>2, <2>1 DEF Kinds
<1>4. \A c \in PointsOf(p) : 1..Held[c] = {}
  BY <1>3 DEF PointsOf
<1>5. Cells(Held, PointsOf(p)) = {}
  BY <1>4 DEF Cells
<1> QED BY <1>5, FS_EmptySet DEF Counts, Init

\* What was refused or went astray stays so.
LEMMA RefusalStays == ASSUME [Next]_vars, NoRefusal' PROVE NoRefusal
<1>1. refused \subseteq refused' /\ stray \subseteq stray'
  <2>1. ASSUME NEW p, Trigger(p) PROVE refused \subseteq refused' /\ stray \subseteq stray'
    BY <2>1 DEF Trigger
  <2>2. ASSUME NEW q, Pass(q) PROVE refused \subseteq refused' /\ stray \subseteq stray'
    BY <2>2 DEF Pass, Emit, Send
  <2>3. ASSUME NEW q, Nic(q) PROVE refused \subseteq refused' /\ stray \subseteq stray'
    BY <2>3 DEF Nic
  <2>4. ASSUME NEW q, LoseRequest(q) \/ LoseResponse(q)
        PROVE  refused \subseteq refused' /\ stray \subseteq stray'
    BY <2>4 DEF LoseRequest, LoseResponse
  <2> QED BY <2>1, <2>2, <2>3, <2>4 DEF Next, vars
<1> QED BY <1>1 DEF NoRefusal

\* A trigger puts a packet of its own policy on that policy's first connection.
LEMMA TriggerCounted ==
  ASSUME TypeOK, TypeOK', Counted, NEW a \in Policies, Trigger(a) PROVE Counted'
<1> DEFINE v == scn.start[a]
           w == scn.init[a]
<1>0. /\ scn' = scn /\ UNCHANGED <<down, lost, ended, stray, refused>>
      /\ trig' = [trig EXCEPT ![a] = @ + 1] /\ up' = [up EXCEPT ![w] = Append(@, v)]
  BY DEF Trigger
<1>1. w \in ClientQpn /\ Owner(w) = a
  BY OwnAssumption DEF TypeOK, Installed, PlacesOwn, Clients, Owner
<1>2. v \in Int
  BY GuestAssumption DEF TypeOK, Installed
<1> HIDE DEF v, w
<1>3. PICK d \in ServerQpn : w = d + Coef
  BY <1>1 DEF ClientQpn
<1>4. UpMore(d, 1)
  BY <1>0, <1>2, <1>3, UpLengths
<1> DEFINE c == <<d, "up">>
<1>5. More(Points, Held, Held', c, 1)
  BY <1>0, <1>4, HeldMoves
<1>6. c \in Points /\ Owner(c[1] + Coef) = a
  BY <1>1, <1>3 DEF Points, Kinds
<1> HIDE DEF c
<1> SUFFICES ASSUME NEW p \in Policies
             PROVE  \E n \in Int : /\ Counts(Held', PointsOf(p), n)
                                   /\ NoRefusal' => n = trig'[p] - ended'[p]
  BY <1>0 DEF Counted, PointsOf, Owner
<1>7. PICK n \in Int : Counts(Held, PointsOf(p), n) /\ (NoRefusal => n = trig[p] - ended[p])
  BY DEF Counted
<1>8. Held \in [Points -> Nat] /\ Held' \in [Points -> Nat]
  <2>1. HeldCounts /\ HeldCounts'
    BY HeldType, PTL
  <2> QED BY <2>1 DEF HeldCounts
<1>9. PointsOf(p) \in SUBSET Points /\ (c \in PointsOf(p) <=> a = p)
  BY <1>6 DEF PointsOf
<1>10. Counts(Held', PointsOf(p), IF c \in PointsOf(p) THEN n + 1 ELSE n)
  BY <1>5, <1>6, <1>7, <1>8, <1>9, CountUp
<1>11. trig \in [Policies -> Nat] /\ trig[p] \in Int /\ ended[p] \in Int /\ (NoRefusal' => NoRefusal)
  BY <1>0 DEF TypeOK, NoRefusal
<1>12. CASE a = p
  <2>1. Counts(Held', PointsOf(p), n + 1) /\ n + 1 \in Int
    BY <1>9, <1>10, <1>12
  <2>2. NoRefusal' => n + 1 = trig'[p] - ended'[p]
    BY <1>0, <1>7, <1>11, <1>12
  <2> QED BY <2>1, <2>2
<1>13. CASE a # p
  BY <1>0, <1>7, <1>9, <1>10, <1>11, <1>13
<1> QED BY <1>12, <1>13

\* A pass takes one packet, and puts one of the same policy on a connection unless
\* the walk ends or the packet goes astray.
LEMMA PassCounted ==
  ASSUME TypeOK, TypeOK', StateParked, Counted, NEW q \in ClientQpn, Pass(q)
  PROVE  Counted'
<1> DEFINE s == q - Coef
           c == <<s, "up">>
<1>0. /\ scn' = scn /\ lost' = lost /\ trig' = trig /\ refused' = refused
      /\ PopUp(q) /\ up[q] # <<>>
  BY DEF Pass, PopUp
<1>1. s \in ServerQpn /\ s + Coef = q
  BY ServerEnd
<1> HIDE DEF s
<1>2. UpMore(s, -1)
  BY <1>0, <1>1, UpLengths
<1>3. c \in Points /\ Owner(c[1] + Coef) = Owner(q)
  BY <1>1 DEF Points, Kinds
<1>4. NoRefusal' => NoRefusal
  BY RefusalStays DEF Next
<1>5. PICK out \in Packet :
        LET d == out.m.dqpn IN
        /\ Leaves(Owner(q), q, out)
        /\ \/ ended' = [ended EXCEPT ![Owner(q)] = @ + 1] /\ down' = down
           \/ /\ ended' = ended
              /\ \/ d \in ServerQpn /\ \E e \in Request : down' = [down EXCEPT ![d] = Append(@, e)]
                 \/ stray' = stray \union {d} /\ down' = down
  BY PassOwn
<1> DEFINE d == out.m.dqpn
<1>6. CASE ended' = [ended EXCEPT ![Owner(q)] = @ + 1] /\ down' = down
  <2>1. More(Points, Held, Held', c, -1)
    BY <1>0, <1>1, <1>2, <1>6, HeldMoves
  <2> HIDE DEF c
  <2>2. ended' = [ended EXCEPT ![Owner(c[1] + Coef)] = @ + 1]
    BY <1>3, <1>6
  <2> QED BY <1>0, <1>3, <1>4, <2>1, <2>2, LessCounted
<1>7. CASE /\ ended' = ended /\ d \in ServerQpn
           /\ \E e \in Request : down' = [down EXCEPT ![d] = Append(@, e)]
  <2> DEFINE e == <<d, "down">>
  <2>1. DownMore(d, 1)
    BY <1>7, DownLengths
  <2>2. Moved(Points, Held, Held', c, e)
    BY <1>0, <1>1, <1>2, <1>7, <2>1, HeldMoves
  <2>3. e \in Points /\ c # e
    BY <1>7 DEF Points, Kinds
  <2>4. Owner(e[1] + Coef) = Owner(q)
    <3>1. Arrives(Owner(q), q)
      BY <1>0, ArrivesParked
    <3> QED BY <1>5, <1>7, <3>1, PolicyFacts DEF Leaves, Servers, Owner
  <2> HIDE DEF c, e
  <2> QED BY <1>0, <1>3, <1>4, <1>7, <2>2, <2>3, <2>4, MovedCounted
<1>8. CASE ended' = ended /\ stray' = stray \union {d} /\ down' = down
  <2>1. More(Points, Held, Held', c, -1)
    BY <1>0, <1>1, <1>2, <1>8, HeldMoves
  <2>2. ~NoRefusal'
    BY <1>8 DEF NoRefusal
  <2> HIDE DEF c
  <2> QED BY <1>0, <1>3, <1>4, <2>1, <2>2, LessCounted
<1> QED BY <1>5, <1>6, <1>7, <1>8

\* The NIC answers a request on the connection it came by, or refuses it.
LEMMA NicCounted ==
  ASSUME TypeOK, TypeOK', Counted, NEW q \in ServerQpn, Nic(q) PROVE Counted'
<1> DEFINE c == <<q, "down">>
           e == <<q, "up">>
<1>0. UNCHANGED <<scn, lost, trig, ended>> /\ PopDown(q)
  BY DEF Nic
<1>1. DownMore(q, -1)
  BY <1>0, DownLengths
<1>2. c \in Points /\ e \in Points /\ c # e /\ c[1] = q /\ e[1] = q
  BY DEF Points, Kinds
<1>3. NoRefusal' => NoRefusal
  BY RefusalStays DEF Next
<1>4. \/ up' = up /\ refused' = refused \union {q}
      \/ /\ Head(down[q]).addr \in DOMAIN Mem
         /\ up' = [up EXCEPT ![q + Coef] = Append(@, Mem[Head(down[q]).addr])]
  BY DEF Nic
<1>5. CASE up' = up /\ refused' = refused \union {q}
  <2>1. More(Points, Held, Held', c, -1)
    BY <1>0, <1>1, <1>5, HeldMoves
  <2>2. ~NoRefusal'
    BY <1>5 DEF NoRefusal
  <2> HIDE DEF c
  <2> QED BY <1>0, <1>2, <1>3, <2>1, <2>2, LessCounted
<1>6. CASE /\ Head(down[q]).addr \in DOMAIN Mem
           /\ up' = [up EXCEPT ![q + Coef] = Append(@, Mem[Head(down[q]).addr])]
  <2> DEFINE v == Mem[Head(down[q]).addr]
  <2>1. v \in Int
    BY <1>6, GuestAssumption DEF TypeOK, Installed, Mem
  <2>2. up' = [up EXCEPT ![q + Coef] = Append(@, v)]
    BY <1>6
  <2> HIDE DEF v
  <2>3. UpMore(q, 1)
    BY <2>1, <2>2, UpLengths
  <2>4. Moved(Points, Held, Held', c, e)
    BY <1>0, <1>1, <2>3, HeldMoves
  <2> HIDE DEF c, e
  <2> QED BY <1>0, <1>2, <1>3, <2>4, MovedCounted
<1> QED BY <1>4, <1>5, <1>6

\* What the network loses is counted where it was lost.
LEMMA LossCounted ==
  ASSUME TypeOK, TypeOK', Counted, NEW q \in ServerQpn, LoseRequest(q) \/ LoseResponse(q)
  PROVE  Counted'
<1>0. UNCHANGED <<scn, trig, ended, stray, refused>>
  BY DEF LoseRequest, LoseResponse
<1>1. NoRefusal' => NoRefusal
  BY <1>0 DEF NoRefusal
<1>2. CASE LoseRequest(q)
  <2> DEFINE c == <<q, "down">>
             e == <<q, "req">>
  <2>1. PopDown(q) /\ up' = up /\ lost' = [lost EXCEPT ![q].req = @ + 1]
    BY <1>2 DEF LoseRequest
  <2>2. DownMore(q, -1)
    BY <2>1, DownLengths
  <2>3. Moved(Points, Held, Held', c, e)
    BY <2>1, <2>2, HeldMoves
  <2>4. c \in Points /\ e \in Points /\ c # e /\ c[1] = q /\ e[1] = q
    BY DEF Points, Kinds
  <2> HIDE DEF c, e
  <2> QED BY <1>0, <1>1, <2>3, <2>4, MovedCounted
<1>3. CASE LoseResponse(q)
  <2> DEFINE c == <<q, "up">>
             e == <<q, "resp">>
  <2>1. PopUp(q + Coef) /\ down' = down /\ lost' = [lost EXCEPT ![q].resp = @ + 1]
    BY <1>3 DEF LoseResponse
  <2>2. UpMore(q, -1)
    BY <2>1, UpLengths
  <2>3. Moved(Points, Held, Held', c, e)
    BY <2>1, <2>2, HeldMoves
  <2>4. c \in Points /\ e \in Points /\ c # e /\ c[1] = q /\ e[1] = q
    BY DEF Points, Kinds
  <2> HIDE DEF c, e
  <2> QED BY <1>0, <1>1, <2>3, <2>4, MovedCounted
<1> QED BY <1>2, <1>3

\* A stuttering step counts the same.
LEMMA StillCounted == ASSUME Counted, UNCHANGED vars PROVE Counted'
<1>1. Held' = Held /\ (NoRefusal' => NoRefusal) /\ trig' = trig /\ ended' = ended
  BY DEF vars, Held, NoRefusal
<1>2. \A p : PointsOf(p)' = PointsOf(p)
  BY DEF vars, PointsOf, Owner
<1>3. \A p, n : Counts(Held, PointsOf(p), n)' <=> Counts(Held, PointsOf(p), n)
  BY <1>1, <1>2 DEF Counts, Cells
<1> SUFFICES ASSUME NEW p \in Policies
             PROVE  \E n \in Int : /\ Counts(Held, PointsOf(p), n)'
                                   /\ NoRefusal' => n = trig'[p] - ended'[p]
  BY DEF Counted
<1>4. PICK n \in Int : Counts(Held, PointsOf(p), n) /\ (NoRefusal => n = trig[p] - ended[p])
  BY DEF Counted
<1> QED BY <1>1, <1>3, <1>4

\* However walks interleave and whatever the network loses, every walk is one
\* packet: the packets of a policy, in the queues or lost, are its triggers less
\* its ended walks, unless a request was refused or went astray.
THEOREM WalkIsOnePacket == Spec => []OnePacket
<1> DEFINE Inv == TypeOK /\ StateParked /\ Counted
<1>1. Init => Inv
  BY InitType, InitParked, InitCounted
<1>2. Inv /\ [Next]_vars => Inv'
  <2> SUFFICES ASSUME TypeOK, StateParked, Counted, [Next]_vars PROVE Counted' /\ (TypeOK /\ StateParked)'
    OBVIOUS
  <2>1. TypeOK' /\ StateParked'
    BY StepParked
  <2>2. CASE UNCHANGED vars
    BY <2>1, <2>2, StillCounted
  <2>3. CASE Next
    BY <2>1, <2>3, TriggerCounted, PassCounted, NicCounted, LossCounted DEF Next
  <2> QED BY <2>1, <2>2, <2>3
<1>3. Inv => OnePacket
  <2> SUFFICES ASSUME Inv, NoRefusal, NEW p \in Policies
               PROVE  Cardinality(Places(p)) = trig[p] - ended[p]
    BY DEF OnePacket
  <2>1. PICK n \in Int : Counts(Held, PointsOf(p), n) /\ n = trig[p] - ended[p]
    BY DEF Counted
  <2> QED BY <2>1, PlacesCells DEF Counts
<1> QED BY <1>1, <1>2, <1>3, PTL DEF Spec

-----------------------------------------------------------------------------
(* Alarms.                                                                 *)

\* Where the two range checks can tell the bounds of an assertion apart: the bounds
\* have different upper halves. The rows gen_readload_code makes of bounds with the
\* same upper half accept values outside them.
WideBounds ==
  \A q \in ClientQpn : BoundsOf(scn, q) # <<>> =>
    BoundsOf(scn, q)[1] \div Half < BoundsOf(scn, q)[2] \div Half

\* Numbers are ordered by their upper halves first.
LEMMA UpperHalf ==
  ASSUME NEW a \in Int, NEW b \in Int
  PROVE  /\ a \div Half < b \div Half => a < b
         /\ a \div Half = b \div Half => (a % Half <= b % Half <=> a <= b)
<1> DEFINE p == a \div Half
           q == b \div Half
           r == a % Half
           s == b % Half
<1>1. Half \in Nat \ {0}
  BY SizeAssumption
<1>2. /\ p \in Int /\ r \in Nat /\ r < Half /\ a = Half * p + r
      /\ q \in Int /\ s \in Nat /\ s < Half /\ b = Half * q + s
  BY <1>1, DivMod
<1> HIDE DEF p, q, r, s
<1>3. ASSUME p < q PROVE a < b
  <2>1. p + 1 \in Int /\ p + 1 <= q
    BY <1>2, <1>3
  <2>2. Half * (p + 1) <= Half * q
    BY <1>1, <1>2, <2>1, MulMono
  <2>3. Half * (p + 1) = Half * p + Half
    BY <1>1, <1>2
  <2> QED BY <1>1, <1>2, <2>2, <2>3
<1>4. ASSUME p = q PROVE r <= s <=> a <= b
  <2> DEFINE x == Half * q
  <2>1. x \in Int /\ a = x + r /\ b = x + s
    BY <1>1, <1>2, <1>4
  <2> HIDE DEF x
  <2> QED BY <1>2, <2>1
<1> QED BY <1>3, <1>4 DEF p, q, r, s

\* A value outside its bounds misses both range checks.
LEMMA OutsideMisses ==
  ASSUME scn \in Installed, WideBounds, NEW q \in ClientQpn, NEW v \in Int,
         Outside(BoundsOf(scn, q), v)
  PROVE  Borders(q, v) = 0 /\ Middles(q, v) = 0 /\ Hit("gen_mali_alarm", <<q, 0, 0>>)
<1> DEFINE b == BoundsOf(scn, q)
           w == v % (Half * Half)
           hi == (v \div Half) % Half
           lo == v % Half
<1>1. b # <<>> /\ ~(b[1] <= w /\ w <= b[2]) /\ b[1] \div Half < b[2] \div Half
  BY DEF Outside, WideBounds
<1>2. /\ b[1] \in Nat /\ b[2] \in Nat
      /\ <<q, 0, 0>> \in DOMAIN Tbl["gen_mali_alarm"]
      /\ \A k \in DOMAIN Tbl["exact_match"] : k[1] = q =>
           k \in { <<q, b[2] \div Half, 0, b[2] % Half>>,
                   <<q, b[1] \div Half, b[1] % Half, Half - 1>> }
      /\ \A k \in DOMAIN Tbl["range_match"] : k[1] = q =>
           k = <<q, b[1] \div Half + 1, b[2] \div Half - 1>>
  BY <1>1, CheckAssumption DEF Installed, Tbl
<1>3. Half \in Nat \ {0} /\ Half * Half \in Nat \ {0}
  BY SizeAssumption
<1>4. w \in Nat /\ w \div Half = hi /\ w % Half = lo
  BY <1>3, DivMod, ModOfProduct
<1>5. hi \in Nat /\ lo \in Nat /\ lo < Half
  BY <1>3, <1>4, DivMod
<1> HIDE DEF b, w, hi, lo
<1>6. b[1] \div Half \in Int /\ b[2] \div Half \in Int
  BY <1>2, <1>3, DivMod
<1>7. /\ ~(hi = b[2] \div Half /\ lo <= b[2] % Half)
      /\ ~(hi = b[1] \div Half /\ b[1] % Half <= lo)
      /\ ~(b[1] \div Half + 1 <= hi /\ hi <= b[2] \div Half - 1)
  <2>1. /\ w \div Half < b[2] \div Half => w < b[2]
        /\ w \div Half = b[2] \div Half => (w % Half <= b[2] % Half <=> w <= b[2])
    BY <1>2, <1>4, UpperHalf
  <2>2. /\ b[1] \div Half < w \div Half => b[1] < w
        /\ b[1] \div Half = w \div Half => (b[1] % Half <= w % Half <=> b[1] <= w)
    BY <1>2, <1>4, UpperHalf
  <2> QED BY <1>1, <1>2, <1>4, <1>5, <1>6, <2>1, <2>2
<1>8. ~Border(q, hi, lo)
  BY <1>2, <1>7 DEF Border
<1>9. ~Middle(q, hi)
  BY <1>2, <1>7 DEF Middle
<1> QED BY <1>2, <1>8, <1>9 DEF Borders, Middles, Hit, hi, lo

\* A pass reports what it mirrors, if it is outside its bounds.
LEMMA PassReports ==
  ASSUME TypeOK, StateParked, WideBounds, AlarmSound, NEW q \in ClientQpn, Pass(q)
  PROVE  AlarmSound'
<1> DEFINE o == Owner(q)
           v == Head(up[q])
           in == Ingress([m |-> Parse(q, v), r |-> reg])
           e == [qpn |-> q, val |-> v]
<1>0. scn' = scn /\ o \in Policies /\ scn \in Installed
  BY GuestAssumption DEF Pass, TypeOK, Installed, Owner, ClientQpn
<1>1. v \in Int /\ q \in Int /\ reg \in Registers /\ up[q] # <<>>
  BY ClientQpnInt DEF TypeOK, Pass, PopUp
<1>2. Arrives(o, q) /\ Resumable(o, q, reg)
  BY <1>1, ArrivesParked
<1> HIDE DEF v
<1>3. in.m.k1 = Borders(q, v) /\ in.m.k2 = Middles(q, v)
  BY <1>1, <1>2, IngressOwn
<1>4. /\ log' = IF Hit("cloning", <<q>>) THEN [log EXCEPT ![o] = Append(@, e)] ELSE log
      /\ alarm' = IF Hit("cloning", <<q>>) /\ Hit("gen_mali_alarm", <<q, in.m.k1, in.m.k2>>)
                  THEN [alarm EXCEPT ![o] = @ \union {v}] ELSE alarm
  <2>1. Emit(q, in, IF in.m.drop THEN in ELSE Egress(in))
    BY Zenon DEF Pass, v
  <2> HIDE DEF in
  <2> QED BY <2>1 DEF Emit, Send, v
<1> HIDE DEF in
<1>5. log \in [Policies -> Seq(Response)] /\ alarm \in [Policies -> SUBSET Int] /\ e \in Response
  BY <1>1 DEF TypeOK, Response
<1>6. Outside(BoundsOf(scn, q), v) => Hit("gen_mali_alarm", <<q, in.m.k1, in.m.k2>>)
  BY <1>0, <1>1, <1>3, OutsideMisses
<1> HIDE DEF o
<1>7. \A p \in Policies : alarm[p] \subseteq alarm'[p]
  BY <1>0, <1>4, <1>5
<1> SUFFICES ASSUME NEW p \in Policies, NEW i \in DOMAIN log'[p],
                    Outside(BoundsOf(scn, log'[p][i].qpn), log'[p][i].val)
             PROVE  log'[p][i].val \in alarm'[p]
  BY <1>0 DEF AlarmSound
<1>8. CASE i \in DOMAIN log[p] /\ log'[p][i] = log[p][i]
  BY <1>7, <1>8 DEF AlarmSound
<1>9. CASE p = o /\ Hit("cloning", <<q>>) /\ log'[p][i] = e
  <2>1. log'[p][i].qpn = q /\ log'[p][i].val = v
    BY <1>9
  <2>2. Hit("gen_mali_alarm", <<q, in.m.k1, in.m.k2>>)
    BY <1>6, <2>1
  <2> QED BY <1>0, <1>4, <1>5, <1>9, <2>1, <2>2
<1>10. CASE Hit("cloning", <<q>>) /\ p = o
  <2>1. log[p] \in Seq(Response) /\ log'[p] = Append(log[p], e)
    BY <1>4, <1>5, <1>10
  <2> HIDE DEF e
  <2>2. \/ i \in DOMAIN log[p] /\ log'[p][i] = log[p][i]
        \/ log'[p][i] = e
    BY <1>5, <2>1
  <2> QED BY <1>8, <1>9, <1>10, <2>2
<1>11. CASE ~(Hit("cloning", <<q>>) /\ p = o)
  <2>1. log'[p] = log[p]
    BY <1>4, <1>5, <1>11
  <2> QED BY <1>8, <2>1
<1> QED BY <1>10, <1>11

\* Nothing else mirrors a response, and a trigger forgets what was mirrored.
LEMMA OtherReports ==
  ASSUME TypeOK, AlarmSound,
         \/ UNCHANGED vars
         \/ \E p \in Policies : Trigger(p)
         \/ \E q \in ServerQpn : Nic(q) \/ LoseRequest(q) \/ LoseResponse(q)
  PROVE  AlarmSound'
<1>1. ASSUME NEW a \in Policies, Trigger(a) PROVE AlarmSound'
  <2>1. /\ scn' = scn /\ log' = [log EXCEPT ![a] = <<>>]
        /\ alarm' = [alarm EXCEPT ![a] = {}]
    BY <1>1 DEF Trigger
  <2>2. log \in [Policies -> Seq(Response)] /\ alarm \in [Policies -> SUBSET Int]
    BY DEF TypeOK
  <2> SUFFICES ASSUME NEW p \in Policies, NEW i \in DOMAIN log'[p],
                      Outside(BoundsOf(scn, log'[p][i].qpn), log'[p][i].val)
               PROVE  log'[p][i].val \in alarm'[p]
    BY <2>1 DEF AlarmSound
  <2>3. p # a
    <3> SUFFICES ASSUME p = a PROVE FALSE
      OBVIOUS
    <3>1. log'[p] = <<>>
      BY <2>1, <2>2
    <3> QED BY <3>1
  <2>4. log'[p] = log[p] /\ alarm'[p] = alarm[p]
    BY <2>1, <2>2, <2>3
  <2> QED BY <2>4 DEF AlarmSound
<1>2. ASSUME UNCHANGED <<scn, log, alarm>> PROVE AlarmSound'
  BY <1>2 DEF AlarmSound
<1> QED BY <1>1, <1>2 DEF vars, Nic, LoseRequest, LoseResponse

\* No value outside its bounds goes unreported, for every walk, value and
\* interleaving, where the checks of master.p4 can tell the bounds apart.
THEOREM NoAlarmMissed == Spec /\ WideBounds => []AlarmSound
<1> DEFINE Inv == TypeOK /\ StateParked /\ WideBounds /\ AlarmSound
<1>1. Init /\ WideBounds => Inv
  <2> SUFFICES ASSUME Init PROVE AlarmSound
    BY InitType, InitParked
  <2> QED BY DEF AlarmSound, Init
<1>2. Inv /\ [Next]_vars => Inv'
  <2> SUFFICES ASSUME TypeOK, StateParked, WideBounds, AlarmSound, [Next]_vars PROVE Inv'
    OBVIOUS
  <2>1. TypeOK' /\ StateParked'
    BY StepParked
  <2>2. scn' = scn
    BY DEF Next, vars, Trigger, Pass, Nic, LoseRequest, LoseResponse
  <2>3. WideBounds'
    BY <2>2 DEF WideBounds
  <2>4. AlarmSound'
    BY PassReports, OtherReports DEF Next
  <2> QED BY <2>1, <2>3, <2>4
<1>3. Inv => AlarmSound
  OBVIOUS
<1> QED BY <1>1, <1>2, <1>3, PTL DEF Spec
=============================================================================
