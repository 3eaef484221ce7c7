---------------------------- MODULE SwitchProofs ----------------------------
(***************************************************************************)
(* Proofs about the switch, for every guest, every set of tables the       *)
(* assumptions of Switch allow and every number of policies, connections,  *)
(* triggers and losses: its types, and that the PSN registers follow the   *)
(* NIC. Each stage of the pipeline has a lemma; the two pipelines compose  *)
(* them, and the induction over the actions uses the pipelines only.       *)
(***************************************************************************)
EXTENDS Switch, TLAPS

Meta ==
  [qpn : Int, dqpn : Int, addr : Int, max_len : Int, addr_type : Int,
   vmalloc_bit : Int, walking_bit : Int, k1 : Int, k2 : Int, end_bit : Int,
   iter_entry : Int, mod_value : Int, cached_addr : Int, page_offset : Int,
   entry_size : Int, psn : Int, drop : BOOLEAN]
Packet == [m : Meta, r : Registers]

\* What every stage but UpdatePsn does to the packet s.
Keeps(s, t) == t \in Packet /\ t.r.psn = s.r.psn

-----------------------------------------------------------------------------
(* Writing one register of the packet's register file.                     *)

\* A trip count written into its register leaves a well-typed packet and the
\* PSN registers alone.
LEMMA WriteMax ==
  ASSUME NEW s \in Packet, NEW i \in MaxRegs, NEW n \in Int
  PROVE  Keeps(s, [s EXCEPT !.r.max[i] = n])
<1> DEFINE f == [s.r.max EXCEPT ![i] = n]
           r == [s.r EXCEPT !.max = f]
<1>1. f \in [MaxRegs -> Int]
  BY DEF Packet, Registers
<1>2. r \in Registers /\ r.psn = s.r.psn
  <2> HIDE DEF f
  <2> QED BY <1>1 DEF Packet, Registers
<1>3. [s EXCEPT !.r.max[i] = n] = [s EXCEPT !.r = r]
  OBVIOUS
<1> HIDE DEF r
<1> QED BY <1>2, <1>3 DEF Packet, Keeps

\* The same of a base address (process_addr).
LEMMA WriteAddr ==
  ASSUME NEW s \in Packet, NEW i \in AddrRegs, NEW n \in Int
  PROVE  Keeps(s, [s EXCEPT !.r.addr[i] = n])
<1> DEFINE f == [s.r.addr EXCEPT ![i] = n]
           r == [s.r EXCEPT !.addr = f]
<1>1. f \in [AddrRegs -> Int]
  BY DEF Packet, Registers
<1>2. r \in Registers /\ r.psn = s.r.psn
  <2> HIDE DEF f
  <2> QED BY <1>1 DEF Packet, Registers
<1>3. [s EXCEPT !.r.addr[i] = n] = [s EXCEPT !.r = r]
  OBVIOUS
<1> HIDE DEF r
<1> QED BY <1>2, <1>3 DEF Packet, Keeps

\* The same of the address a page walk translates (process_page_addr).
LEMMA WritePage ==
  ASSUME NEW s \in Packet, NEW i \in PageRegs, NEW n \in Int
  PROVE  Keeps(s, [s EXCEPT !.r.page[i] = n])
<1> DEFINE f == [s.r.page EXCEPT ![i] = n]
           r == [s.r EXCEPT !.page = f]
<1>1. f \in [PageRegs -> Int]
  BY DEF Packet, Registers
<1>2. r \in Registers /\ r.psn = s.r.psn
  <2> HIDE DEF f
  <2> QED BY <1>1 DEF Packet, Registers
<1>3. [s EXCEPT !.r.page[i] = n] = [s EXCEPT !.r = r]
  OBVIOUS
<1> HIDE DEF r
<1> QED BY <1>2, <1>3 DEF Packet, Keeps

\* The same of a parked dqpn (dqpn_page_walk).
LEMMA WriteDwalk ==
  ASSUME NEW s \in Packet, NEW i \in PageRegs, NEW n \in Int
  PROVE  Keeps(s, [s EXCEPT !.r.dwalk[i] = n])
<1> DEFINE f == [s.r.dwalk EXCEPT ![i] = n]
           r == [s.r EXCEPT !.dwalk = f]
<1>1. f \in [PageRegs -> Int]
  BY DEF Packet, Registers
<1>2. r \in Registers /\ r.psn = s.r.psn
  <2> HIDE DEF f
  <2> QED BY <1>1 DEF Packet, Registers
<1>3. [s EXCEPT !.r.dwalk[i] = n] = [s EXCEPT !.r = r]
  OBVIOUS
<1> HIDE DEF r
<1> QED BY <1>2, <1>3 DEF Packet, Keeps

\* The same of a parked qpn (qpn_page_walk).
LEMMA WriteQwalk ==
  ASSUME NEW s \in Packet, NEW i \in PageRegs, NEW n \in Int
  PROVE  Keeps(s, [s EXCEPT !.r.qwalk[i] = n])
<1> DEFINE f == [s.r.qwalk EXCEPT ![i] = n]
           r == [s.r EXCEPT !.qwalk = f]
<1>1. f \in [PageRegs -> Int]
  BY DEF Packet, Registers
<1>2. r \in Registers /\ r.psn = s.r.psn
  <2> HIDE DEF f
  <2> QED BY <1>1 DEF Packet, Registers
<1>3. [s EXCEPT !.r.qwalk[i] = n] = [s EXCEPT !.r = r]
  OBVIOUS
<1> HIDE DEF r
<1> QED BY <1>2, <1>3 DEF Packet, Keeps

-----------------------------------------------------------------------------
(* Writing two fields of the packet's metadata.                            *)

\* Two metadata fields set to numbers leave a well-typed packet and the PSN
\* registers alone.
LEMMA SetTwo ==
  ASSUME NEW s \in Packet, NEW a \in Int, NEW b \in Int
  PROVE  /\ Keeps(s, [s EXCEPT !.m.qpn = a, !.m.dqpn = b])
         /\ Keeps(s, [s EXCEPT !.m.dqpn = a, !.m.qpn = b])
         /\ Keeps(s, [s EXCEPT !.m.addr_type = a, !.m.vmalloc_bit = b])
         /\ Keeps(s, [s EXCEPT !.m.k1 = a, !.m.k2 = b])
         /\ Keeps(s, [s EXCEPT !.m.mod_value = a, !.m.addr = b])
         /\ Keeps(s, [s EXCEPT !.m.page_offset = a, !.m.addr = b])
<1>1. Keeps(s, [s EXCEPT !.m.qpn = a, !.m.dqpn = b])
  BY DEF Packet, Meta, Keeps
<1>2. Keeps(s, [s EXCEPT !.m.dqpn = a, !.m.qpn = b])
  BY DEF Packet, Meta, Keeps
<1>3. Keeps(s, [s EXCEPT !.m.addr_type = a, !.m.vmalloc_bit = b])
  BY DEF Packet, Meta, Keeps
<1>4. Keeps(s, [s EXCEPT !.m.k1 = a, !.m.k2 = b])
  BY DEF Packet, Meta, Keeps
<1>5. Keeps(s, [s EXCEPT !.m.mod_value = a, !.m.addr = b])
  BY DEF Packet, Meta, Keeps
<1>6. Keeps(s, [s EXCEPT !.m.page_offset = a, !.m.addr = b])
  BY DEF Packet, Meta, Keeps
<1> QED BY <1>1, <1>2, <1>3, <1>4, <1>5, <1>6, Zenon

-----------------------------------------------------------------------------
(* What the rows installed may pass to an action.                          *)

\* The first parameter of a row the compiler or the setup file installs in one
\* of these tables is a number.
LEMMA Number ==
  ASSUME scn \in Installed, NEW k,
         NEW t \in {"cache_len_into_md", "mark_vmalloc_bit_p1", "direct_transfer",
                    "encode_mod_offset", "encode_mod_offset_pre", "cache_size_into_md",
                    "end_transfer", "check_null", "pgt_transfer"},
         Hit(t, k)
  PROVE  Arg(t, k) \in Int
BY TableAssumption DEF Hit, Arg, Tbl, Installed, Sends

\* The second parameter of a row that replaces both QPNs is a number.
LEMMA SecondNumber ==
  ASSUME scn \in Installed, NEW k,
         NEW t \in {"end_transfer", "check_null", "pgt_transfer"}, Hit(t, k)
  PROVE  Tbl[t][k].arg[2] \in Int
BY TableAssumption DEF Hit, Tbl, Installed, Sends

-----------------------------------------------------------------------------
(* Ingress, stage by stage.                                                *)

\* mark_walking_bit_tab sets a bit.
LEMMA MarkWalkingKeeps ==
  ASSUME NEW s \in Packet PROVE Keeps(s, MarkWalking(s))
BY DEF Packet, Meta, Keeps, MarkWalking

\* cache_len_into_md_tab sets max_len to the row's number.
LEMMA CacheLenKeeps ==
  ASSUME scn \in Installed, NEW s \in Packet PROVE Keeps(s, CacheLen(s))
BY Number DEF Packet, Meta, Keeps, CacheLen

\* The two mark_vmalloc_bit tables set the address type and the bit.
LEMMA MarkVmallocKeeps ==
  ASSUME scn \in Installed, NEW s \in Packet PROVE Keeps(s, MarkVmalloc(s))
<1> DEFINE k == <<s.m.qpn, AddrType(s.m.addr)>>
           type == IF Hit("mark_vmalloc_bit_p1", k) THEN Arg("mark_vmalloc_bit_p1", k) ELSE 0
           bit == IF VmallocRange(type, s.m.addr) THEN 1 ELSE 0
<1>1. type \in Int /\ bit \in Int
  BY Number
<1>2. MarkVmalloc(s) = [s EXCEPT !.m.addr_type = type, !.m.vmalloc_bit = bit]
  BY DEF MarkVmalloc
<1> HIDE DEF type, bit
<1>3. Keeps(s, [s EXCEPT !.m.addr_type = type, !.m.vmalloc_bit = bit])
  BY <1>1, SetTwo
<1> QED BY <1>2, <1>3, Zenon

\* exact_match_tab and range_match_tab set k1 and k2.
LEMMA RangeMatchKeeps ==
  ASSUME NEW s \in Packet PROVE Keeps(s, RangeMatch(s))
<1> DEFINE hi == (s.m.addr \div Half) % Half
           lo == s.m.addr % Half
           a == IF Border(s.m.qpn, hi, lo) THEN 1 ELSE 0
           b == IF Middle(s.m.qpn, hi) THEN 1 ELSE 0
<1>1. a \in Int /\ b \in Int
  OBVIOUS
<1>2. RangeMatch(s) = [s EXCEPT !.m.k1 = a, !.m.k2 = b]
  BY DEF RangeMatch
<1> HIDE DEF a, b
<1>3. Keeps(s, [s EXCEPT !.m.k1 = a, !.m.k2 = b])
  BY <1>1, SetTwo
<1> QED BY <1>2, <1>3, Zenon

\* end_transfer_tab replaces both QPNs by numbers.
LEMMA EndTransferKeeps ==
  ASSUME scn \in Installed, NEW s \in Packet PROVE Keeps(s, EndTransfer(s))
<1> DEFINE k == <<s.m.qpn>>
           p == Arg("end_transfer", k)
           d == Tbl["end_transfer"][k].arg[2]
<1>1. CASE ~Hit("end_transfer", k)
  BY <1>1 DEF EndTransfer, Keeps
<1>2. CASE Hit("end_transfer", k)
  <2>1. p \in Int /\ d \in Int
    BY <1>2, Number, SecondNumber
  <2>2. EndTransfer(s) = [s EXCEPT !.m.qpn = p, !.m.dqpn = d]
    BY <1>2 DEF EndTransfer
  <2> HIDE DEF p, d
  <2>3. Keeps(s, [s EXCEPT !.m.qpn = p, !.m.dqpn = d])
    BY <2>1, SetTwo
  <2> QED BY <2>2, <2>3, Zenon
<1> QED BY <1>1, <1>2

\* check_null_tab replaces both QPNs by numbers.
LEMMA CheckNullKeeps ==
  ASSUME scn \in Installed, NEW s \in Packet PROVE Keeps(s, CheckNull(s))
<1> DEFINE k == <<s.m.qpn, s.m.addr>>
           p == Arg("check_null", k)
           d == Tbl["check_null"][k].arg[2]
<1>1. CASE ~Hit("check_null", k)
  BY <1>1 DEF CheckNull, Keeps
<1>2. CASE Hit("check_null", k)
  <2>1. p \in Int /\ d \in Int
    BY <1>2, Number, SecondNumber
  <2>2. CheckNull(s) = [s EXCEPT !.m.qpn = p, !.m.dqpn = d]
    BY <1>2 DEF CheckNull
  <2> HIDE DEF p, d
  <2>3. Keeps(s, [s EXCEPT !.m.qpn = p, !.m.dqpn = d])
    BY <2>1, SetTwo
  <2> QED BY <2>2, <2>3, Zenon
<1> QED BY <1>1, <1>2

\* read_update_max_entry_tab loads, tests or decrements a trip count of the
\* row's register, which exists.
LEMMA MaxEntryKeeps ==
  ASSUME scn \in Installed, NEW s \in Packet PROVE Keeps(s, MaxEntry(s))
<1> DEFINE k == <<s.m.qpn>>
           i == Arg("read_update_max_entry", k)
           a == Act("read_update_max_entry", k)
<1>1. CASE ~Hit("read_update_max_entry", k)
  BY <1>1 DEF MaxEntry, MaxEntryAt, CountRegister, LoadCount, Keeps
<1>2. CASE Hit("read_update_max_entry", k)
  <2>1. i \in MaxRegs
    BY <1>2, TableAssumption DEF Hit, Arg, Tbl, Installed, Sends
  <2>2. \A n \in Int : n % CountMod \in Int
    BY SizeAssumption
  <2>3. s.m.addr \in Int /\ s.m.max_len \in Int /\ s.r.max[i] \in Int
    BY <2>1 DEF Packet, Meta, Registers
  <2>4. CASE a = "read_max_entry"
    BY <1>2, <2>1, <2>2, <2>3, <2>4, WriteMax DEF MaxEntry, MaxEntryAt, CountRegister, LoadCount
  <2>5. CASE a # "read_max_entry" /\ a = "read_const_length"
    BY <1>2, <2>1, <2>2, <2>3, <2>5, WriteMax DEF MaxEntry, MaxEntryAt, CountRegister, LoadCount
  <2>6. CASE a # "read_max_entry" /\ a # "read_const_length" /\ s.r.max[i] = 1
    <3>1. MaxEntry(s) = [s EXCEPT !.m.iter_entry = 1]
      BY <1>2, <2>6 DEF MaxEntry, MaxEntryAt, CountRegister, LoadCount
    <3> QED BY <3>1 DEF Packet, Meta, Keeps
  <2>7. CASE a # "read_max_entry" /\ a # "read_const_length" /\ s.r.max[i] # 1
    <3> DEFINE t == [s EXCEPT !.m.iter_entry = 2]
               n == (s.r.max[i] - 1) % CountMod
    <3>1. n \in Int
      BY <2>2, <2>3
    <3>2. Keeps(s, t)
      BY DEF Packet, Meta, Keeps
    <3>3. MaxEntry(s) = [t EXCEPT !.r.max[i] = n]
      BY <1>2, <2>7 DEF MaxEntry, MaxEntryAt, CountRegister, LoadCount
    <3> HIDE DEF t, n
    <3>4. Keeps(t, [t EXCEPT !.r.max[i] = n])
      BY <2>1, <3>1, <3>2, WriteMax DEF Keeps
    <3> QED BY <3>2, <3>3, <3>4 DEF Keeps
  <2> QED BY <2>4, <2>5, <2>6, <2>7
<1> QED BY <1>1, <1>2

\* check_traverse_end_tab sets a bit.
LEMMA TraverseEndKeeps ==
  ASSUME NEW s \in Packet PROVE Keeps(s, TraverseEnd(s))
BY DEF Packet, Meta, Keeps, TraverseEnd

\* direct_transfer_tab replaces the dqpn by a number.
LEMMA DirectTransferKeeps ==
  ASSUME scn \in Installed, NEW s \in Packet PROVE Keeps(s, DirectTransfer(s))
<1> DEFINE k == <<s.m.qpn, s.m.end_bit, s.m.iter_entry>>
           d == Arg("direct_transfer", k)
<1>1. CASE ~Hit("direct_transfer", k)
  BY <1>1 DEF DirectTransfer, Keeps
<1>2. CASE Hit("direct_transfer", k)
  <2>1. d \in Int
    BY <1>2, Number
  <2>2. DirectTransfer(s) = [s EXCEPT !.m.dqpn = d]
    BY <1>2 DEF DirectTransfer
  <2> HIDE DEF d
  <2>3. Keeps(s, [s EXCEPT !.m.dqpn = d])
    BY <2>1 DEF Packet, Meta, Keeps
  <2> QED BY <2>2, <2>3, Zenon
<1> QED BY <1>1, <1>2

\* end_of_fetching_tab marks the packet to be dropped.
LEMMA EndOfFetchingKeeps ==
  ASSUME NEW s \in Packet PROVE Keeps(s, EndOfFetching(s))
BY DEF Packet, Meta, Keeps, EndOfFetching

\* cache_dqpn_page_walk_tab parks the dqpn in a register that exists, or takes
\* a number back from it.
LEMMA CacheDqpnKeeps ==
  ASSUME scn \in Installed, NEW s \in Packet PROVE Keeps(s, CacheDqpn(s))
<1> DEFINE t == "cache_dqpn_page_walk"
           k == <<s.m.qpn, s.m.vmalloc_bit, s.m.walking_bit>>
           i == Arg(t, k)
<1>1. CASE ~Hit(t, k)
  BY <1>1 DEF CacheDqpn, Keeps
<1>2. CASE Hit(t, k)
  <2>1. i \in PageRegs
    BY <1>2, TableAssumption DEF Hit, Arg, Tbl, Installed, Sends
  <2>2. s.m.dqpn \in Int /\ s.r.dwalk[i] \in Int
    BY <2>1 DEF Packet, Meta, Registers
  <2>3. CASE Act(t, k) = "cache"
    BY <1>2, <2>1, <2>2, <2>3, WriteDwalk DEF CacheDqpn
  <2>4. CASE Act(t, k) # "cache"
    <3>1. CacheDqpn(s) = [s EXCEPT !.m.dqpn = s.r.dwalk[i]]
      BY <1>2, <2>4 DEF CacheDqpn
    <3> QED BY <3>1, <2>2 DEF Packet, Meta, Keeps
  <2> QED BY <2>3, <2>4
<1> QED BY <1>1, <1>2

\* cache_qpn_page_walk_tab does the same with the qpn.
LEMMA CacheQpnKeeps ==
  ASSUME scn \in Installed, NEW s \in Packet PROVE Keeps(s, CacheQpn(s))
<1> DEFINE t == "cache_qpn_page_walk"
           k == <<s.m.qpn, s.m.vmalloc_bit, s.m.walking_bit>>
           i == Arg(t, k)
<1>1. CASE ~Hit(t, k)
  BY <1>1 DEF CacheQpn, Keeps
<1>2. CASE Hit(t, k)
  <2>1. i \in PageRegs
    BY <1>2, TableAssumption DEF Hit, Arg, Tbl, Installed, Sends
  <2>2. s.m.qpn \in Int /\ s.r.qwalk[i] \in Int
    BY <2>1 DEF Packet, Meta, Registers
  <2>3. CASE Act(t, k) = "cache"
    BY <1>2, <2>1, <2>2, <2>3, WriteQwalk DEF CacheQpn
  <2>4. CASE Act(t, k) # "cache"
    <3>1. CacheQpn(s) = [s EXCEPT !.m.qpn = s.r.qwalk[i]]
      BY <1>2, <2>4 DEF CacheQpn
    <3> QED BY <3>1, <2>2 DEF Packet, Meta, Keeps
  <2> QED BY <2>3, <2>4
<1> QED BY <1>1, <1>2

\* pgt_transfer_tab replaces both QPNs by numbers.
LEMMA PgtTransferKeeps ==
  ASSUME scn \in Installed, NEW s \in Packet PROVE Keeps(s, PgtTransfer(s))
<1> DEFINE k == <<s.m.qpn, s.m.vmalloc_bit>>
           d == Arg("pgt_transfer", k)
           q == Tbl["pgt_transfer"][k].arg[2]
<1>1. CASE ~Hit("pgt_transfer", k)
  BY <1>1 DEF PgtTransfer, Keeps
<1>2. CASE Hit("pgt_transfer", k)
  <2>1. d \in Int /\ q \in Int
    BY <1>2, Number, SecondNumber
  <2>2. PgtTransfer(s) = [s EXCEPT !.m.dqpn = d, !.m.qpn = q]
    BY <1>2 DEF PgtTransfer
  <2> HIDE DEF d, q
  <2>3. Keeps(s, [s EXCEPT !.m.dqpn = d, !.m.qpn = q])
    BY <2>1, SetTwo
  <2> QED BY <2>2, <2>3, Zenon
<1> QED BY <1>1, <1>2

\* ModOffsetPre and ModOffset differ in the names of their tables only.
LEMMA ModOffsetPreKeeps ==
  ASSUME scn \in Installed, NEW s \in Packet PROVE Keeps(s, ModOffsetPre(s))
<1> DEFINE k == <<s.m.qpn, s.m.dqpn>>
           t == "mod_field_parameters_pre"
           n == IF Hit("encode_mod_offset_pre", k) THEN Arg("encode_mod_offset_pre", k)
                                                   ELSE s.m.mod_value
           a == IF ~Hit(t, k) THEN s.m.addr
                ELSE IF Act(t, k) = "mod_field_parameters_add_pre" THEN s.m.addr + n
                ELSE s.m.addr - n
<1>1. s.m.addr \in Int /\ s.m.mod_value \in Int
  BY DEF Packet, Meta
<1>2. n \in Int
  BY <1>1, Number
<1>3. a \in Int
  <2> HIDE DEF n
  <2> QED BY <1>1, <1>2
<1>4. ModOffsetPre(s) = [s EXCEPT !.m.mod_value = n, !.m.addr = a]
  <2>1. [s EXCEPT !.m.mod_value = n] = [s EXCEPT !.m.mod_value = n, !.m.addr = s.m.addr]
    <3> HIDE DEF n
    <3> QED BY DEF Packet, Meta
  <2>2. CASE ~Hit(t, k)
    BY <2>1, <2>2 DEF ModOffsetPre
  <2>3. CASE Hit(t, k) /\ Act(t, k) = "mod_field_parameters_add_pre"
    BY <2>3 DEF ModOffsetPre
  <2>4. CASE Hit(t, k) /\ Act(t, k) # "mod_field_parameters_add_pre"
    BY <2>4 DEF ModOffsetPre
  <2> QED BY <2>2, <2>3, <2>4
<1> HIDE DEF n, a
<1>5. Keeps(s, [s EXCEPT !.m.mod_value = n, !.m.addr = a])
  BY <1>2, <1>3, SetTwo
<1> QED BY <1>4, <1>5, Zenon

-----------------------------------------------------------------------------
(* The whole ingress pipeline.                                             *)

\* The first half of the ingress control: the marks and checks.
LEMMA ChecksKeeps ==
  ASSUME scn \in Installed, NEW s \in Packet PROVE Keeps(s, Checks(s))
<1> DEFINE s1 == MarkWalking(s)
           s2 == CacheLen(s1)
           s3 == MarkVmalloc(s2)
           s4 == RangeMatch(s3)
<1>1. Keeps(s, s1)
  BY MarkWalkingKeeps
<1> HIDE DEF s1
<1>2. Keeps(s, s2)
  BY <1>1, CacheLenKeeps DEF Keeps
<1> HIDE DEF s2
<1>3. Keeps(s, s3)
  BY <1>2, MarkVmallocKeeps DEF Keeps
<1> HIDE DEF s3
<1>4. Keeps(s, s4)
  BY <1>3, RangeMatchKeeps DEF Keeps
<1> QED BY <1>4 DEF s1, s2, s3, s4, Checks

\* Its second half up to end_of_fetching_tab: the transitions.
LEMMA TransfersKeeps ==
  ASSUME scn \in Installed, NEW s \in Packet PROVE Keeps(s, Transfers(s))
<1> DEFINE s1 == EndTransfer(s)
           s2 == CheckNull(s1)
           s3 == MaxEntry(s2)
           s4 == TraverseEnd(s3)
           s5 == DirectTransfer(s4)
           s6 == EndOfFetching(s5)
<1>1. Keeps(s, s1)
  BY EndTransferKeeps
<1> HIDE DEF s1
<1>2. Keeps(s, s2)
  BY <1>1, CheckNullKeeps DEF Keeps
<1> HIDE DEF s2
<1>3. Keeps(s, s3)
  BY <1>2, MaxEntryKeeps DEF Keeps
<1> HIDE DEF s3
<1>4. Keeps(s, s4)
  BY <1>3, TraverseEndKeeps DEF Keeps
<1> HIDE DEF s4
<1>5. Keeps(s, s5)
  BY <1>4, DirectTransferKeeps DEF Keeps
<1> HIDE DEF s5
<1>6. Keeps(s, s6)
  BY <1>5, EndOfFetchingKeeps DEF Keeps
<1> QED BY <1>6 DEF s1, s2, s3, s4, s5, s6, Transfers

\* The ingress pipeline keeps a packet well typed and touches no PSN register.
LEMMA IngressKeeps ==
  ASSUME scn \in Installed, NEW s \in Packet PROVE Keeps(s, Ingress(s))
<1> DEFINE s1 == Checks(s)
           s2 == Transfers(s1)
           s3 == CacheDqpn(s2)
           s4 == CacheQpn(s3)
           s5 == PgtTransfer(s4)
           s6 == ModOffsetPre(s5)
<1>1. Keeps(s, s1)
  BY ChecksKeeps
<1> HIDE DEF s1
<1>2. Keeps(s, s2)
  BY <1>1, TransfersKeeps DEF Keeps
<1> HIDE DEF s2
<1>3. Keeps(s, s3)
  BY <1>2, CacheDqpnKeeps DEF Keeps
<1> HIDE DEF s3
<1>4. Keeps(s, s4)
  BY <1>3, CacheQpnKeeps DEF Keeps
<1> HIDE DEF s4
<1>5. Keeps(s, s5)
  BY <1>4, PgtTransferKeeps DEF Keeps
<1> HIDE DEF s5
<1>6. Keeps(s, s6)
  BY <1>5, ModOffsetPreKeeps DEF Keeps
<1> QED BY <1>6 DEF s1, s2, s3, s4, s5, s6, Ingress

-----------------------------------------------------------------------------
(* Egress, stage by stage.                                                 *)

\* cache_size_into_md_tab sets entry_size to the row's number.
LEMMA CacheSizeKeeps ==
  ASSUME scn \in Installed, NEW s \in Packet PROVE Keeps(s, CacheSize(s))
BY Number DEF Packet, Meta, Keeps, CacheSize

\* The cache_process_page_addr tables store the address in a register that
\* exists, or take a number back from it.
LEMMA PageAddrKeeps ==
  ASSUME scn \in Installed, NEW s \in Packet PROVE Keeps(s, PageAddr(s))
<1> DEFINE t == "cache_process_page_addr_to_reg"
           k == <<s.m.qpn, s.m.walking_bit>>
           i == Arg(t, k)
<1>1. CASE ~Hit(t, k)
  BY <1>1 DEF PageAddr, Keeps
<1>2. CASE Hit(t, k)
  <2>1. i \in PageRegs
    BY <1>2, TableAssumption DEF Hit, Arg, Tbl, Installed, Sends
  <2>2. s.m.addr \in Int /\ s.r.page[i] \in Int
    BY <2>1 DEF Packet, Meta, Registers
  <2>3. CASE Act(t, k) = "cache"
    <3> DEFINE u == [s EXCEPT !.m.cached_addr = s.m.addr]
               n == s.m.addr
    <3>1. Keeps(s, u)
      BY <2>2 DEF Packet, Meta, Keeps
    <3>2. PageAddr(s) = [u EXCEPT !.r.page[i] = n]
      BY <1>2, <2>3 DEF PageAddr
    <3> HIDE DEF u, n
    <3>3. Keeps(u, [u EXCEPT !.r.page[i] = n])
      BY <2>1, <2>2, <3>1, WritePage DEF Keeps, n
    <3> QED BY <3>1, <3>2, <3>3 DEF Keeps
  <2>4. CASE Act(t, k) # "cache"
    <3>1. PageAddr(s) = [s EXCEPT !.m.cached_addr = s.r.page[i]]
      BY <1>2, <2>4 DEF PageAddr
    <3> QED BY <3>1, <2>2 DEF Packet, Meta, Keeps
  <2> QED BY <2>3, <2>4
<1> QED BY <1>1, <1>2

\* Radix^i * Page is positive, so that the bits of an address are numbers.
LEMMA TableOffsetInt ==
  ASSUME NEW level, NEW a \in Int PROVE TableOffset(level, a) \in Int
<1> DEFINE p1 == Page * Radix
           p2 == p1 * Radix
           p3 == p2 * Radix
<1>1. Page \in Nat \ {0} /\ Radix \in Nat \ {0}
  BY SizeAssumption
<1>2. \A x, y \in Nat \ {0} : x * y \in Nat \ {0}
  OBVIOUS
<1>3. \A x \in Int, y \in Nat \ {0} : x \div y \in Int /\ x % y \in Int
  OBVIOUS
<1>4. p1 \in Nat \ {0}
  BY <1>1, <1>2
<1> HIDE DEF p1
<1>5. p2 \in Nat \ {0}
  BY <1>1, <1>2, <1>4
<1> HIDE DEF p2
<1>6. p3 \in Nat \ {0}
  BY <1>1, <1>2, <1>5
<1> HIDE DEF p3
<1>7. TableOffset(level, a) \in {(a \div p3) % Radix, (a \div p2) % Radix, (a \div p1) % Radix,
                                 (a \div Page) % Radix, a % Page, 0}
  BY Zenon DEF TableOffset, p1, p2, p3
<1> QED BY <1>1, <1>3, <1>4, <1>5, <1>6, <1>7

\* The add_offset tables leave numbers in page_offset and in the address.
LEMMA AddOffsetsKeeps ==
  ASSUME scn \in Installed, NEW s \in Packet PROVE Keeps(s, AddOffsets(s))
<1> DEFINE k == <<s.m.qpn, s.m.walking_bit>>
           n == TableOffset(Act("add_offset", k), s.m.cached_addr)
           a == IF Act("add_offset", k) = "pgd" THEN Arg("add_offset", k) ELSE s.m.addr
<1>1. CASE ~Hit("add_offset", k)
  BY <1>1 DEF AddOffsets, Keeps
<1>2. CASE Hit("add_offset", k)
  <2>1. s.m.addr \in Int /\ s.m.cached_addr \in Int
    BY DEF Packet, Meta
  <2>2. n \in Int
    BY <2>1, TableOffsetInt
  <2>3. a \in Int
    BY <1>2, <2>1, TableAssumption DEF Hit, Act, Arg, Tbl, Installed
  <2>4. AddOffsets(s) = [s EXCEPT !.m.page_offset = n, !.m.addr = a]
    <3> HIDE DEF n
    <3> QED BY <1>2 DEF AddOffsets, n
  <2> HIDE DEF n, a
  <2>5. Keeps(s, [s EXCEPT !.m.page_offset = n, !.m.addr = a])
    BY <2>2, <2>3, SetTwo
  <2> QED BY <2>4, <2>5, Zenon
<1> QED BY <1>1, <1>2

\* mask_base_addr_tab and make_up_addr_tab leave a number in the address.
LEMMA MaskAndMakeUpKeeps ==
  ASSUME NEW s \in Packet PROVE Keeps(s, MaskAndMakeUp(s))
<1> DEFINE k == <<s.m.qpn, s.m.walking_bit>>
           base == IF Hit("mask_base_addr", k)
                   THEN (s.m.addr % Nx) - (s.m.addr % Page) ELSE s.m.addr
           a == IF Hit("make_up_addr", k) THEN base + s.m.page_offset ELSE base
<1>1. s.m.addr \in Int /\ s.m.page_offset \in Int
  BY DEF Packet, Meta
<1>2. base \in Int
  BY <1>1, SizeAssumption
<1>3. a \in Int
  <2> HIDE DEF base
  <2> QED BY <1>1, <1>2
<1>4. MaskAndMakeUp(s) = [s EXCEPT !.m.addr = a]
  BY Zenon DEF MaskAndMakeUp
<1> HIDE DEF a
<1>5. Keeps(s, [s EXCEPT !.m.addr = a])
  BY <1>3 DEF Packet, Meta, Keeps
<1> QED BY <1>4, <1>5, Zenon

\* The cache_process_addr tables write, read or advance a base address in a
\* register that exists.
LEMMA ProcessAddrKeeps ==
  ASSUME scn \in Installed, NEW s \in Packet PROVE Keeps(s, ProcessAddr(s))
<1> DEFINE t == "cache_process_addr_to_reg"
           k == <<s.m.qpn, s.m.dqpn>>
           i == Arg(t, k)
           n == s.r.addr[i] + s.m.entry_size
<1>1. CASE ~Hit(t, k)
  BY <1>1 DEF ProcessAddr, Keeps
<1>2. CASE Hit(t, k)
  <2>1. i \in AddrRegs
    BY <1>2, TableAssumption DEF Hit, Arg, Tbl, Installed, Sends
  <2>2. s.m.addr \in Int /\ s.r.addr[i] \in Int /\ s.m.entry_size \in Int
    BY <2>1 DEF Packet, Meta, Registers
  <2>3. CASE Act(t, k) = "write"
    BY <1>2, <2>1, <2>2, <2>3, WriteAddr DEF ProcessAddr
  <2>4. CASE Act(t, k) # "write" /\ Act(t, k) = "read"
    <3>1. ProcessAddr(s) = [s EXCEPT !.m.addr = s.r.addr[i]]
      BY <1>2, <2>4 DEF ProcessAddr
    <3> QED BY <3>1, <2>2 DEF Packet, Meta, Keeps
  <2>5. CASE Act(t, k) # "write" /\ Act(t, k) # "read"
    <3> DEFINE u == [s EXCEPT !.m.addr = n]
    <3>1. n \in Int
      BY <2>2
    <3>2. ProcessAddr(s) = [u EXCEPT !.r.addr[i] = n]
      BY <1>2, <2>5 DEF ProcessAddr
    <3> HIDE DEF n
    <3>3. Keeps(s, u)
      BY <3>1 DEF Packet, Meta, Keeps
    <3> HIDE DEF u
    <3>4. Keeps(u, [u EXCEPT !.r.addr[i] = n])
      BY <2>1, <3>1, <3>3, WriteAddr DEF Keeps
    <3> QED BY <3>2, <3>3, <3>4 DEF Keeps
  <2> QED BY <2>3, <2>4, <2>5
<1> QED BY <1>1, <1>2

\* addr_translation leaves a number in the address.
LEMMA TranslateKeeps ==
  ASSUME NEW s \in Packet PROVE Keeps(s, Translate(s))
<1> DEFINE a == Linear(s.m.addr, PhysBase)
<1>1. a \in Int
  <2>1. s.m.addr \in Int
    BY DEF Packet, Meta
  <2> QED BY <2>1, SizeAssumption DEF Linear
<1>2. Translate(s) = [s EXCEPT !.m.addr = a]
  BY DEF Translate
<1> HIDE DEF a
<1>3. Keeps(s, [s EXCEPT !.m.addr = a])
  BY <1>1 DEF Packet, Meta, Keeps
<1> QED BY <1>2, <1>3, Zenon

\* encode_mod_offset_tab and mod_field_parameters_tab add the field's offset.
LEMMA ModOffsetKeeps ==
  ASSUME scn \in Installed, NEW s \in Packet PROVE Keeps(s, ModOffset(s))
<1> DEFINE k == <<s.m.qpn, s.m.dqpn>>
           t == "mod_field_parameters"
           n == IF Hit("encode_mod_offset", k) THEN Arg("encode_mod_offset", k)
                                               ELSE s.m.mod_value
           a == IF ~Hit(t, k) THEN s.m.addr
                ELSE IF Act(t, k) = "mod_field_parameters_add" THEN s.m.addr + n
                ELSE s.m.addr - n
<1>1. s.m.addr \in Int /\ s.m.mod_value \in Int
  BY DEF Packet, Meta
<1>2. n \in Int
  BY <1>1, Number
<1>3. a \in Int
  <2> HIDE DEF n
  <2> QED BY <1>1, <1>2
<1>4. ModOffset(s) = [s EXCEPT !.m.mod_value = n, !.m.addr = a]
  <2>1. [s EXCEPT !.m.mod_value = n] = [s EXCEPT !.m.mod_value = n, !.m.addr = s.m.addr]
    <3> HIDE DEF n
    <3> QED BY DEF Packet, Meta
  <2>2. CASE ~Hit(t, k)
    BY <2>1, <2>2 DEF ModOffset
  <2>3. CASE Hit(t, k) /\ Act(t, k) = "mod_field_parameters_add"
    BY <2>3 DEF ModOffset
  <2>4. CASE Hit(t, k) /\ Act(t, k) # "mod_field_parameters_add"
    BY <2>4 DEF ModOffset
  <2> QED BY <2>2, <2>3, <2>4
<1> HIDE DEF n, a
<1>5. Keeps(s, [s EXCEPT !.m.mod_value = n, !.m.addr = a])
  BY <1>2, <1>3, SetTwo
<1> QED BY <1>4, <1>5, Zenon

-----------------------------------------------------------------------------
(* The whole egress pipeline: UpdatePsn stamps the request with the next   *)
(* PSN of the connection it leaves on, and remembers it.                   *)

Stamps(s, t) ==
  LET k == <<t.m.dqpn>>
      i == Arg("read_update_psn", k)
  IN  IF Hit("read_update_psn", k)
      THEN /\ i \in PsnRegs
           /\ t.r.psn = [s.r.psn EXCEPT ![i] = Succ(s.r.psn[i])]
           /\ t.m.psn = Succ(s.r.psn[i])
      ELSE t.r.psn = s.r.psn

\* The successor of a PSN is a PSN: the counter wraps at 2^24.
LEMMA SuccType ==
  ASSUME NEW n \in Int PROVE Succ(n) \in 0..(PsnMod - 1)
<1>1. PsnMod \in Nat \ {0}
  BY SizeAssumption
<1> QED BY <1>1 DEF Succ

\* read_update_psn_tab numbers a request with the successor of its connection's
\* register and advances that register only.
LEMMA UpdatePsnStamps ==
  ASSUME scn \in Installed, NEW s \in Packet
  PROVE  UpdatePsn(s) \in Packet /\ Stamps(s, UpdatePsn(s))
<1> DEFINE k == <<s.m.dqpn>>
           i == Arg("read_update_psn", k)
           n == Succ(s.r.psn[i])
<1>1. CASE ~Hit("read_update_psn", k)
  BY <1>1 DEF UpdatePsn, Stamps
<1>2. CASE Hit("read_update_psn", k)
  <2> DEFINE f == [s.r.psn EXCEPT ![i] = n]
             r == [s.r EXCEPT !.psn = f]
             m == [s.m EXCEPT !.psn = n]
             t == [s EXCEPT !.m = m, !.r = r]
  <2>1. i \in PsnRegs
    BY <1>2, TableAssumption DEF Hit, Arg, Tbl, Installed, Sends
  <2>2. s.m \in Meta /\ s.r \in Registers /\ s = [m |-> s.m, r |-> s.r]
    BY DEF Packet
  <2>3. s.r.psn \in [PsnRegs -> 0..(PsnMod - 1)] /\ s.r.psn[i] \in Int
    BY <2>1, <2>2 DEF Registers
  <2>4. n \in 0..(PsnMod - 1)
    BY <2>3, SuccType
  <2>5. UpdatePsn(s) = t
    BY <1>2 DEF UpdatePsn, NextPsn, Succ
  <2> HIDE DEF n
  <2>6. f \in [PsnRegs -> 0..(PsnMod - 1)]
    BY <2>3, <2>4
  <2> HIDE DEF f
  <2>7. r \in Registers /\ r.psn = f
    BY <2>2, <2>6 DEF Registers
  <2>8. n \in Int
    BY <2>4, SizeAssumption
  <2>9. m \in Meta /\ m.psn = n /\ m.dqpn = s.m.dqpn
    BY <2>2, <2>8 DEF Meta
  <2> HIDE DEF r, m
  <2>10. t \in Packet /\ t.m = m /\ t.r = r
    BY <2>7, <2>9 DEF Packet
  <2> HIDE DEF t
  <2>11. Stamps(s, t)
    BY <1>2, <2>1, <2>7, <2>9, <2>10 DEF Stamps, f, n
  <2> QED BY <2>5, <2>10, <2>11
<1> QED BY <1>1, <1>2

\* The egress pipeline keeps the packet well typed, and numbers the request as
\* its last stage does.
LEMMA EgressStamps ==
  ASSUME scn \in Installed, NEW s \in Packet
  PROVE  Egress(s) \in Packet /\ Stamps(s, Egress(s))
<1> DEFINE s1 == CacheSize(s)
           s2 == PageAddr(s1)
           s3 == AddOffsets(s2)
           s4 == MaskAndMakeUp(s3)
           s5 == ProcessAddr(s4)
           s6 == Translate(s5)
           s7 == ModOffset(s6)
           s8 == UpdatePsn(s7)
<1>1. Keeps(s, s1)
  BY CacheSizeKeeps
<1> HIDE DEF s1
<1>2. Keeps(s, s2)
  BY <1>1, PageAddrKeeps DEF Keeps
<1> HIDE DEF s2
<1>3. Keeps(s, s3)
  BY <1>2, AddOffsetsKeeps DEF Keeps
<1> HIDE DEF s3
<1>4. Keeps(s, s4)
  BY <1>3, MaskAndMakeUpKeeps DEF Keeps
<1> HIDE DEF s4
<1>5. Keeps(s, s5)
  BY <1>4, ProcessAddrKeeps DEF Keeps
<1> HIDE DEF s5
<1>6. Keeps(s, s6)
  BY <1>5, TranslateKeeps DEF Keeps
<1> HIDE DEF s6
<1>7. Keeps(s, s7)
  BY <1>6, ModOffsetKeeps DEF Keeps
<1> HIDE DEF s7
<1>8. s8 \in Packet /\ Stamps(s7, s8)
  BY <1>7, UpdatePsnStamps DEF Keeps
<1>9. Egress(s) = s8
  BY DEF s1, s2, s3, s4, s5, s6, s7, Egress
<1> HIDE DEF s8
<1>10. Stamps(s, s8)
  BY <1>7, <1>8 DEF Keeps, Stamps
<1> QED BY <1>8, <1>9, <1>10

-----------------------------------------------------------------------------
(* What a pass does, as far as types and PSNs go.                          *)

\* The parser's packet is well typed.
LEMMA ParseType ==
  ASSUME NEW q \in Int, NEW v \in Int, NEW r \in Registers
  PROVE  [m |-> Parse(q, v), r |-> r] \in Packet
BY DEF Parse, Packet, Meta

\* QPNs are numbers.
LEMMA ClientQpnInt == ClientQpn \subseteq Int /\ ServerQpn \subseteq Int
BY SizeAssumption DEF ClientQpn

\* The packet leaves as out, or ends the walk.
LEMMA PassEffect ==
  ASSUME TypeOK, NEW q \in ClientQpn, Pass(q)
  PROVE  \E out \in Packet :
           LET d == out.m.dqpn IN
           /\ reg' = out.r
           /\ \/ out.r.psn = reg.psn /\ down' = down
              \/ /\ IF Hit("read_update_psn", <<d>>)
                    THEN /\ Arg("read_update_psn", <<d>>) \in PsnRegs
                         /\ reg'.psn = [reg.psn EXCEPT ![Arg("read_update_psn", <<d>>)] = Succ(@)]
                         /\ out.m.psn = Succ(PsnRegister(d))
                    ELSE reg'.psn = reg.psn
                 /\ down' = IF d \in ServerQpn
                            THEN [down EXCEPT ![d] =
                                    Append(@, [psn |-> out.m.psn, addr |-> out.m.addr])]
                            ELSE down
           /\ ended' = ended \/ ended' = [ended EXCEPT ![999 - d] = @ + 1]
           /\ stray' = stray \/ stray' = stray \union {d}
<1> DEFINE s == [m |-> Parse(q, Head(up[q])), r |-> reg]
           in == Ingress(s)
<1>1. scn \in Installed /\ reg \in Registers /\ up[q] \in Seq(Int) /\ up[q] # <<>>
  BY DEF TypeOK, Pass, PopUp
<1>2. s \in Packet
  BY <1>1, ParseType, ClientQpnInt
<1>3. Keeps(s, in)
  BY <1>1, <1>2, IngressKeeps
<1>4. s.r = reg
  OBVIOUS
<1>5. Emit(q, in, IF in.m.drop THEN in ELSE Egress(in))
  BY Zenon DEF Pass
<1> HIDE DEF s, in
<1>6. CASE in.m.drop
  <2>1. in \in Packet /\ in.r.psn = reg.psn
    BY <1>3, <1>4 DEF Keeps
  <2>2. /\ reg' = in.r
        /\ ended' = [ended EXCEPT ![999 - in.m.dqpn] = @ + 1]
        /\ down' = down
        /\ stray' = stray
    BY <1>5, <1>6 DEF Emit, Send
  <2> QED BY <2>1, <2>2
<1>7. CASE ~in.m.drop
  <2> DEFINE out == Egress(in)
  <2>1. out \in Packet /\ Stamps(in, out) /\ in.r.psn = reg.psn
    BY <1>1, <1>3, <1>4, EgressStamps DEF Keeps
  <2> HIDE DEF out
  <2>2. Stamps(in, out) /\ reg' = out.r /\ ended' = ended
    BY <1>5, <1>7, <2>1 DEF out, Emit, Send
  <2>3. /\ down' = IF out.m.dqpn \in ServerQpn
                   THEN [down EXCEPT ![out.m.dqpn] =
                           Append(@, [psn |-> out.m.psn, addr |-> out.m.addr])] ELSE down
        /\ stray' = IF out.m.dqpn \in ServerQpn THEN stray ELSE stray \union {out.m.dqpn}
    BY <1>5, <1>7 DEF out, Emit, Send
  <2>4. IF Hit("read_update_psn", <<out.m.dqpn>>)
        THEN /\ Arg("read_update_psn", <<out.m.dqpn>>) \in PsnRegs
             /\ reg'.psn = [reg.psn EXCEPT ![Arg("read_update_psn", <<out.m.dqpn>>)] = Succ(@)]
             /\ out.m.psn = Succ(PsnRegister(out.m.dqpn))
        ELSE reg'.psn = reg.psn
    BY <2>1, <2>2 DEF Stamps, PsnRegister
  <2> QED BY <2>1, <2>2, <2>3, <2>4
<1> QED BY <1>6, <1>7

-----------------------------------------------------------------------------
(* Type correctness.                                                       *)

\* Sequences: what the actions do to a queue keeps its type.
LEMMA QueueType ==
  ASSUME NEW K, NEW S, NEW f \in [K -> Seq(S)], NEW q, NEW e \in S
  PROVE  /\ [f EXCEPT ![q] = Append(@, e)] \in [K -> Seq(S)]
         /\ f[q] # <<>> => [f EXCEPT ![q] = Tail(@)] \in [K -> Seq(S)]
<1>1. CASE q \notin K
  <2>1. [f EXCEPT ![q] = Append(@, e)] = f /\ [f EXCEPT ![q] = Tail(@)] = f
    BY <1>1
  <2> QED BY <2>1
<1>2. CASE q \in K
  <2>1. f[q] \in Seq(S)
    BY <1>2
  <2>2. Append(f[q], e) \in Seq(S) /\ (f[q] # <<>> => Tail(f[q]) \in Seq(S))
    BY <2>1
  <2> QED BY <2>2
<1> QED BY <1>1, <1>2

\* What setup leaves behind is well typed.
LEMMA InitType == ASSUME Init PROVE TypeOK
<1> USE DEF Init
<1>1. PsnMod \in Nat \ {0} /\ FirstPsn \in 0..(PsnMod - 1)
  BY SizeAssumption
<1>2. (FirstPsn - 1) % PsnMod \in 0..(PsnMod - 1)
  BY <1>1
<1>3. reg \in Registers
  <2> DEFINE n == (FirstPsn - 1) % PsnMod
  <2>1. n \in 0..(PsnMod - 1)
    BY <1>2
  <2>2. reg = [addr  |-> [i \in AddrRegs |-> 0], page |-> [i \in PageRegs |-> 0],
               dwalk |-> [i \in PageRegs |-> 0], qwalk |-> [i \in PageRegs |-> 0],
               max   |-> [i \in MaxRegs |-> 0], psn |-> [i \in PsnRegs |-> n]]
    OBVIOUS
  <2> HIDE DEF n
  <2> QED BY <2>1, <2>2 DEF Registers
<1>4. /\ up \in [ClientQpn -> Seq(Int)]
      /\ down \in [ServerQpn -> Seq(Request)]
      /\ log \in [Policies -> Seq(Response)]
  OBVIOUS
<1>5. nic \in [ServerQpn -> 0..(PsnMod - 1)]
  BY <1>1
<1>6. /\ alarm \in [Policies -> SUBSET Int]
      /\ trig \in [Policies -> Nat]
      /\ ended \in [Policies -> Nat]
      /\ lost \in [ServerQpn -> [req : Nat, resp : Nat]]
  OBVIOUS
<1> QED BY <1>3, <1>4, <1>5, <1>6 DEF TypeOK

\* A forged response (control/send.cpp) keeps the types.
LEMMA TriggerType == ASSUME TypeOK, NEW p \in Policies, Trigger(p) PROVE TypeOK'
<1> DEFINE q == scn.init[p]
           v == scn.start[p]
<1>1. scn' = scn /\ scn \in Installed /\ v \in Int
  BY GuestAssumption DEF TypeOK, Trigger, Installed
<1>2. up' \in [ClientQpn -> Seq(Int)]
  <2>1. up \in [ClientQpn -> Seq(Int)] /\ up' = [up EXCEPT ![q] = Append(@, v)]
    BY DEF TypeOK, Trigger
  <2> HIDE DEF q, v
  <2>2. [up EXCEPT ![q] = Append(@, v)] \in [ClientQpn -> Seq(Int)]
    BY <1>1, <2>1, QueueType
  <2> QED BY <2>1, <2>2
<1>3. log' \in [Policies -> Seq(Response)] /\ alarm' \in [Policies -> SUBSET Int]
  BY DEF TypeOK, Trigger
<1>4. trig' \in [Policies -> Nat]
  BY DEF TypeOK, Trigger
<1> QED BY <1>1, <1>2, <1>3, <1>4 DEF TypeOK, Trigger

\* A response's pass through the pipelines keeps the types.
LEMMA PassType == ASSUME TypeOK, NEW q \in ClientQpn, Pass(q) PROVE TypeOK'
<1>1. PICK out \in Packet :
        /\ reg' = out.r
        /\ down' = down \/ down' = IF out.m.dqpn \in ServerQpn
             THEN [down EXCEPT ![out.m.dqpn] =
                     Append(@, [psn |-> out.m.psn, addr |-> out.m.addr])] ELSE down
        /\ ended' = ended \/ ended' = [ended EXCEPT ![999 - out.m.dqpn] = @ + 1]
        /\ stray' = stray \/ stray' = stray \union {out.m.dqpn}
  BY PassEffect
<1>2. out.m.dqpn \in Int /\ out.m.psn \in Int /\ out.m.addr \in Int /\ out.r \in Registers
  BY DEF Packet, Meta
<1>3. up[q] \in Seq(Int) /\ up[q] # <<>> /\ up' = [up EXCEPT ![q] = Tail(@)]
  BY DEF TypeOK, Pass, PopUp
<1>4. Head(up[q]) \in Int /\ up' \in [ClientQpn -> Seq(Int)]
  BY <1>3 DEF TypeOK
<1>5. down' \in [ServerQpn -> Seq(Request)]
  <2>1. [psn |-> out.m.psn, addr |-> out.m.addr] \in Request
    BY <1>2 DEF Request
  <2>2. down \in [ServerQpn -> Seq(Request)]
    BY DEF TypeOK
  <2> DEFINE e == [psn |-> out.m.psn, addr |-> out.m.addr]
  <2>3. e \in Request
    BY <2>1
  <2>4. down' = down \/ down' = [down EXCEPT ![out.m.dqpn] = Append(@, e)]
    BY <1>1
  <2> HIDE DEF e
  <2>5. \A d : [down EXCEPT ![d] = Append(@, e)] \in [ServerQpn -> Seq(Request)]
    BY <2>2, <2>3, QueueType
  <2> QED BY <2>2, <2>4, <2>5
<1>6. log' \in [Policies -> Seq(Response)]
  <2> DEFINE e == [qpn |-> q, val |-> Head(up[q])]
  <2>1. e \in Response
    BY <1>4 DEF Response
  <2>2. log \in [Policies -> Seq(Response)]
    BY DEF TypeOK
  <2>3. log' = log \/ log' = [log EXCEPT ![Owner(q)] = Append(@, e)]
    BY DEF Pass, Emit, Send
  <2> HIDE DEF e
  <2>4. [log EXCEPT ![Owner(q)] = Append(@, e)] \in [Policies -> Seq(Response)]
    BY <2>1, <2>2, QueueType
  <2> QED BY <2>2, <2>3, <2>4
<1>7. alarm' \in [Policies -> SUBSET Int]
  <2>1. alarm' = alarm \/ alarm' = [alarm EXCEPT ![Owner(q)] = @ \union {Head(up[q])}]
    BY DEF Pass, Emit, Send
  <2>2. alarm \in [Policies -> SUBSET Int]
    BY DEF TypeOK
  <2> QED BY <1>4, <2>1, <2>2
<1>8. ended' \in [Policies -> Nat]
  <2>1. ended \in [Policies -> Nat]
    BY DEF TypeOK
  <2>2. ASSUME NEW p PROVE [ended EXCEPT ![p] = @ + 1] \in [Policies -> Nat]
    <3>1. CASE p \in Policies
      BY <2>1, <3>1
    <3>2. CASE p \notin Policies
      <4>1. [ended EXCEPT ![p] = @ + 1] = ended
        BY <2>1, <3>2
      <4> QED BY <2>1, <4>1
    <3> QED BY <3>1, <3>2
  <2> QED BY <1>1, <2>1, <2>2
<1>9. stray' \subseteq Int
  <2>1. stray \subseteq Int /\ stray \union {out.m.dqpn} \subseteq Int
    BY <1>2 DEF TypeOK
  <2> QED BY <1>1, <2>1
<1>10. reg' \in Registers
  BY <1>1, <1>2
<1>11. UNCHANGED <<scn, nic, trig, refused, lost>>
  BY DEF Pass
<1> QED BY <1>4, <1>5, <1>6, <1>7, <1>8, <1>9, <1>10, <1>11 DEF TypeOK

\* A request the NIC executes or refuses keeps the types.
LEMMA NicType == ASSUME TypeOK, NEW q \in ServerQpn, Nic(q) PROVE TypeOK'
<1>1. PsnMod \in Nat \ {0}
  BY SizeAssumption
<1>2. down[q] \in Seq(Request) /\ down[q] # <<>> /\ down' = [down EXCEPT ![q] = Tail(@)]
  BY DEF TypeOK, Nic, PopDown
<1>3. down' \in [ServerQpn -> Seq(Request)]
  BY <1>2 DEF TypeOK
<1>4. nic' \in [ServerQpn -> 0..(PsnMod - 1)]
  <2>1. nic' = nic \/ nic' = [nic EXCEPT ![q] = (nic[q] + 1) % PsnMod]
    BY DEF TypeOK, Nic
  <2>2. nic \in [ServerQpn -> 0..(PsnMod - 1)]
    BY DEF TypeOK
  <2>3. (nic[q] + 1) % PsnMod \in 0..(PsnMod - 1)
    BY <1>1, <2>2
  <2> QED BY <2>1, <2>2, <2>3
<1>5. up' \in [ClientQpn -> Seq(Int)]
  <2>1. up' = up \/ /\ Head(down[q]).addr \in DOMAIN Mem
                    /\ up' = [up EXCEPT ![q + Coef] = Append(@, Mem[Head(down[q]).addr])]
    BY DEF Nic
  <2>2. Head(down[q]).addr \in DOMAIN Mem => Mem[Head(down[q]).addr] \in Int
    BY GuestAssumption DEF Mem, Installed, TypeOK
  <2>3. up \in [ClientQpn -> Seq(Int)]
    BY DEF TypeOK
  <2> DEFINE v == Mem[Head(down[q]).addr]
  <2>4. v \in Int => [up EXCEPT ![q + Coef] = Append(@, v)] \in [ClientQpn -> Seq(Int)]
    <3> HIDE DEF v
    <3> QED BY <2>3, QueueType
  <2> QED BY <2>1, <2>2, <2>3, <2>4
<1>6. refused' \subseteq ServerQpn
  BY DEF TypeOK, Nic
<1>7. UNCHANGED <<scn, reg, log, alarm, trig, ended, stray, lost>>
  BY DEF Nic
<1> QED BY <1>3, <1>4, <1>5, <1>6, <1>7 DEF TypeOK

\* The network drops a request or a response.
LEMMA LossType ==
  ASSUME TypeOK, NEW q \in ServerQpn, LoseRequest(q) \/ LoseResponse(q) PROVE TypeOK'
<1>1. CASE LoseRequest(q)
  <2>1. down[q] \in Seq(Request) /\ down[q] # <<>> /\ down' = [down EXCEPT ![q] = Tail(@)]
    BY <1>1 DEF TypeOK, LoseRequest, PopDown
  <2>2. down' \in [ServerQpn -> Seq(Request)]
    BY <2>1 DEF TypeOK
  <2>3. lost' \in [ServerQpn -> [req : Nat, resp : Nat]]
    <3> DEFINE l == [lost[q] EXCEPT !.req = @ + 1]
    <3>1. lost \in [ServerQpn -> [req : Nat, resp : Nat]]
      BY DEF TypeOK
    <3>2. l \in [req : Nat, resp : Nat]
      BY <3>1
    <3>3. lost' = [lost EXCEPT ![q] = l]
      BY <1>1 DEF LoseRequest
    <3> HIDE DEF l
    <3> QED BY <3>1, <3>2, <3>3
  <2> QED BY <1>1, <2>2, <2>3 DEF TypeOK, LoseRequest
<1>2. CASE LoseResponse(q)
  <2>1. q + Coef \in ClientQpn
    BY DEF ClientQpn
  <2>2. /\ up[q + Coef] \in Seq(Int) /\ up[q + Coef] # <<>>
        /\ up' = [up EXCEPT ![q + Coef] = Tail(@)]
    BY <1>2, <2>1 DEF TypeOK, LoseResponse, PopUp
  <2>3. up' \in [ClientQpn -> Seq(Int)]
    <3>1. up \in [ClientQpn -> Seq(Int)]
      BY DEF TypeOK
    <3> QED BY <2>2, <3>1, QueueType
  <2>4. lost' \in [ServerQpn -> [req : Nat, resp : Nat]]
    <3> DEFINE l == [lost[q] EXCEPT !.resp = @ + 1]
    <3>1. lost \in [ServerQpn -> [req : Nat, resp : Nat]]
      BY DEF TypeOK
    <3>2. l \in [req : Nat, resp : Nat]
      BY <3>1
    <3>3. lost' = [lost EXCEPT ![q] = l]
      BY <1>2 DEF LoseResponse
    <3> HIDE DEF l
    <3> QED BY <3>1, <3>2, <3>3
  <2> QED BY <1>2, <2>3, <2>4 DEF TypeOK, LoseResponse
<1> QED BY <1>1, <1>2

\* Every step keeps the types.
LEMMA StepType == TypeOK /\ [Next]_vars => TypeOK'
<1> SUFFICES ASSUME TypeOK, [Next]_vars PROVE TypeOK'
  OBVIOUS
<1>1. CASE UNCHANGED vars
  BY <1>1 DEF TypeOK, vars, Installed
<1>2. CASE Next
  BY <1>2, TriggerType, PassType, NicType, LossType DEF Next
<1> QED BY <1>1, <1>2

\* Every register stays a number inside its array, and every queue, log and
\* counter keeps its type, whatever rows are installed and whatever is lost.
THEOREM TypeCorrect == Spec => []TypeOK
<1>1. Init => TypeOK
  BY InitType
<1>2. TypeOK /\ [Next]_vars => TypeOK'
  BY StepType
<1> QED BY <1>1, <1>2, PTL DEF Spec

-----------------------------------------------------------------------------
(* The PSN registers follow the NIC.                                       *)

\* Connection setup leaves the register one short of the PSN agreed on.
LEMMA FirstSucc == Succ((FirstPsn - 1) % PsnMod) = FirstPsn
<1>1. PsnMod \in Nat \ {0} /\ FirstPsn \in 0..(PsnMod - 1)
  BY SizeAssumption
<1>2. CASE FirstPsn = 0
  <2>1. (FirstPsn - 1) % PsnMod = PsnMod - 1
    BY <1>1, <1>2
  <2>2. PsnMod % PsnMod = 0
    BY <1>1
  <2> QED BY <1>1, <1>2, <2>1, <2>2 DEF Succ
<1>3. CASE FirstPsn # 0
  <2>1. (FirstPsn - 1) % PsnMod = FirstPsn - 1 /\ FirstPsn % PsnMod = FirstPsn
    BY <1>1, <1>3
  <2> QED BY <1>1, <2>1 DEF Succ
<1> QED BY <1>2, <1>3

\* A request numbered with the successor of the register may join the queue,
\* the register advancing with it.
LEMMA FollowsAppend ==
  ASSUME NEW d \in Seq(Request), NEW r \in Int, NEW n \in Int, Follows(d, r, n),
         NEW e \in Request, e.psn = Succ(r)
  PROVE  Follows(Append(d, e), Succ(r), n)
<1> DEFINE f == Append(d, e)
<1>1. f # <<>> /\ Len(f) = Len(d) + 1 /\ f[Len(f)] = e
      /\ \A i \in 1..Len(d) : f[i] = d[i]
  OBVIOUS
<1>2. Len(d) \in Nat /\ (d = <<>> <=> Len(d) = 0)
  OBVIOUS
<1> HIDE DEF f
<1>3. f[1].psn = n
  BY <1>1, <1>2 DEF Follows
<1>4. ASSUME NEW i \in 1..(Len(f) - 1) PROVE f[i+1].psn = Succ(f[i].psn)
  <2>1. CASE i < Len(d)
    BY <1>1, <1>2, <2>1 DEF Follows
  <2>2. CASE i = Len(d)
    BY <1>1, <1>2, <2>2 DEF Follows
  <2> QED BY <1>1, <1>2, <2>1, <2>2
<1>5. Follows(f, Succ(r), n)
  BY <1>1, <1>3, <1>4 DEF Follows
<1> QED BY <1>5 DEF f

\* The NIC takes the head of the queue and then expects the next one.
LEMMA FollowsTail ==
  ASSUME NEW d \in Seq(Request), d # <<>>, NEW r \in Int, NEW n \in Int, Follows(d, r, n)
  PROVE  Follows(Tail(d), r, Succ(n))
<1> DEFINE f == Tail(d)
<1> SUFFICES Follows(f, r, Succ(n))
  OBVIOUS
<1>1. /\ f \in Seq(Request) /\ Len(d) \in Nat \ {0} /\ Len(f) = Len(d) - 1
      /\ \A i \in 1..Len(f) : f[i] = d[i+1]
  OBVIOUS
<1> HIDE DEF f
<1>2. f = <<>> <=> Len(f) = 0
  BY <1>1
<1>3. /\ d[1].psn = n /\ d[Len(d)].psn = r
      /\ \A i \in 1..(Len(d) - 1) : d[i+1].psn = Succ(d[i].psn)
  BY DEF Follows
<1>4. CASE Len(d) = 1
  <2>1. f = <<>> /\ Succ(r) = Succ(n)
    BY <1>1, <1>2, <1>3, <1>4
  <2>2. ASSUME NEW i \in 1..(Len(f) - 1) PROVE f[i+1].psn = Succ(f[i].psn)
    BY <1>1, <1>4
  <2> QED BY <2>1, <2>2, Zenon DEF Follows
<1>5. CASE Len(d) # 1
  <2>1. 1 \in 1..Len(f) /\ Len(f) \in 1..Len(f) /\ Len(f) + 1 = Len(d)
        /\ 1 \in 1..(Len(d) - 1) /\ f # <<>>
    BY <1>1, <1>2, <1>5
  <2>2. f[1] = d[2] /\ f[Len(f)] = d[Len(d)] /\ d[2].psn = Succ(d[1].psn)
    BY <1>1, <1>3, <2>1
  <2>3. ASSUME NEW i \in 1..(Len(f) - 1) PROVE f[i+1].psn = Succ(f[i].psn)
    <3>1. i \in 1..Len(f) /\ i + 1 \in 1..Len(f) /\ i + 1 \in 1..(Len(d) - 1)
      BY <1>1
    <3> QED BY <1>1, <1>3, <3>1
  <2>4. f[1].psn = Succ(n) /\ f[Len(f)].psn = r
    BY <1>3, <2>2
  <2> QED BY <2>1, <2>3, <2>4, Zenon DEF Follows
<1> QED BY <1>4, <1>5

\* A connection the rows give a PSN register has it to itself.
LEMMA RegisterOwn ==
  ASSUME scn \in Installed, NEW q, NEW d,
         Hit("read_update_psn", <<q>>), Hit("read_update_psn", <<d>>),
         Arg("read_update_psn", <<q>>) = Arg("read_update_psn", <<d>>)
  PROVE  q = d
<1>1. <<q>> = <<d>>
  BY TableAssumption DEF Hit, Arg, Tbl, Installed
<1> QED BY <1>1

\* The register of a connection holds a PSN.
LEMMA RegisterType ==
  ASSUME TypeOK, NEW q, Hit("read_update_psn", <<q>>)
  PROVE  /\ Arg("read_update_psn", <<q>>) \in PsnRegs
         /\ PsnRegister(q) \in Int
<1>1. Arg("read_update_psn", <<q>>) \in PsnRegs
  BY TableAssumption DEF TypeOK, Hit, Arg, Tbl, Installed, Sends
<1>2. reg.psn \in [PsnRegs -> 0..(PsnMod - 1)]
  BY DEF TypeOK, Registers
<1> QED BY <1>1, <1>2 DEF PsnRegister

\* Setup leaves every connection in step with its NIC.
LEMMA InitSync == ASSUME Init PROVE PsnInSync
<1> SUFFICES ASSUME NEW q \in ServerQpn, Hit("read_update_psn", <<q>>) PROVE InSync(q)
  BY DEF PsnInSync
<1>1. down[q] = <<>> /\ nic[q] = FirstPsn
  BY DEF Init
<1>2. Arg("read_update_psn", <<q>>) \in PsnRegs
  BY InitType, RegisterType
<1>3. PsnRegister(q) = (FirstPsn - 1) % PsnMod
  <2>1. reg.psn = [i \in PsnRegs |-> (FirstPsn - 1) % PsnMod]
    BY DEF Init
  <2> DEFINE n == (FirstPsn - 1) % PsnMod
  <2> HIDE DEF n
  <2>2. reg.psn = [i \in PsnRegs |-> n]
    BY <2>1 DEF n
  <2>3. PsnRegister(q) = n
    BY <1>2, <2>2 DEF PsnRegister
  <2> QED BY <2>3 DEF n
<1> QED BY <1>1, <1>3, FirstSucc DEF InSync, Follows

\* A request leaves on one connection, stamped with the successor of its
\* register; the registers and the queues of the others stay as they are.
LEMMA PassSync ==
  ASSUME TypeOK, PsnInSync, NEW p \in ClientQpn, Pass(p) PROVE PsnInSync'
<1>0. UNCHANGED <<scn, nic, refused, lost>>
  BY DEF Pass
<1> SUFFICES ASSUME NEW q \in ServerQpn, Hit("read_update_psn", <<q>>), InSync(q)
             PROVE  InSync(q)'
  BY <1>0 DEF PsnInSync, Hit, Tbl
<1> DEFINE a == Arg("read_update_psn", <<q>>)
<1>1. PICK out \in Packet :
        LET d == out.m.dqpn IN
        /\ reg' = out.r
        /\ \/ out.r.psn = reg.psn /\ down' = down
           \/ /\ IF Hit("read_update_psn", <<d>>)
                 THEN /\ Arg("read_update_psn", <<d>>) \in PsnRegs
                      /\ reg'.psn = [reg.psn EXCEPT ![Arg("read_update_psn", <<d>>)] = Succ(@)]
                      /\ out.m.psn = Succ(PsnRegister(d))
                 ELSE reg'.psn = reg.psn
              /\ down' = IF d \in ServerQpn
                         THEN [down EXCEPT ![d] =
                                 Append(@, [psn |-> out.m.psn, addr |-> out.m.addr])]
                         ELSE down
  BY PassEffect
<1>2. a \in PsnRegs /\ PsnRegister(q) \in Int
  BY RegisterType
<1>3. PsnRegister(q)' = reg'.psn[a]
  BY <1>0 DEF PsnRegister, Arg, Tbl
<1>4. nic[q] \in Int /\ down[q] \in Seq(Request) /\ down \in [ServerQpn -> Seq(Request)]
      /\ reg.psn \in [PsnRegs -> 0..(PsnMod - 1)]
  BY DEF TypeOK, Registers
<1>5. CASE down'[q] = down[q] /\ reg'.psn[a] = reg.psn[a]
  BY <1>0, <1>3, <1>5 DEF InSync, PsnRegister
<1>6. CASE out.m.dqpn # q
  <2>1. down'[q] = down[q]
    BY <1>1, <1>4, <1>6
  <2>2. reg'.psn[a] = reg.psn[a]
    <3>1. scn \in Installed
      BY DEF TypeOK
    <3>2. Hit("read_update_psn", <<out.m.dqpn>>) => Arg("read_update_psn", <<out.m.dqpn>>) # a
      BY <1>6, <3>1, RegisterOwn
    <3> QED BY <1>1, <1>2, <1>4, <3>2
  <2> QED BY <1>5, <2>1, <2>2
<1>7. CASE out.m.dqpn = q /\ ~(down'[q] = down[q] /\ reg'.psn[a] = reg.psn[a])
  <2> DEFINE e == [psn |-> out.m.psn, addr |-> out.m.addr]
  <2>1. /\ reg'.psn = [reg.psn EXCEPT ![a] = Succ(@)]
        /\ out.m.psn = Succ(PsnRegister(q))
        /\ down' = [down EXCEPT ![q] = Append(@, e)]
    BY <1>1, <1>7
  <2>2. e \in Request /\ e.psn = Succ(PsnRegister(q))
    BY <2>1 DEF Packet, Meta, Request
  <2> HIDE DEF e
  <2>3. down'[q] = Append(down[q], e) /\ reg'.psn[a] = Succ(PsnRegister(q))
    BY <1>2, <1>4, <2>1 DEF PsnRegister
  <2>4. Follows(Append(down[q], e), Succ(PsnRegister(q)), nic[q])
    BY <1>2, <1>4, <2>2, FollowsAppend DEF InSync
  <2> QED BY <1>0, <1>3, <2>3, <2>4 DEF InSync
<1> QED BY <1>5, <1>6, <1>7

\* The NIC serves the head of the queue, which carries the PSN it expects, or
\* refuses it.
LEMMA NicSync ==
  ASSUME TypeOK, PsnInSync, NEW p \in ServerQpn, Nic(p) PROVE PsnInSync'
<1>0. UNCHANGED <<scn, reg, lost>> /\ refused \subseteq refused'
  BY DEF Nic
<1> SUFFICES ASSUME NEW q \in ServerQpn, Hit("read_update_psn", <<q>>), InSync(q),
                    q \notin refused'
             PROVE  InSync(q)'
  BY <1>0 DEF PsnInSync, Hit, Tbl
<1>1. PsnRegister(q)' = PsnRegister(q) /\ PsnRegister(q) \in Int
  BY <1>0, RegisterType DEF PsnRegister, Arg, Tbl
<1>2. /\ nic \in [ServerQpn -> 0..(PsnMod - 1)] /\ nic[q] \in Int
      /\ down \in [ServerQpn -> Seq(Request)]
  BY DEF TypeOK
<1>3. down[p] # <<>> /\ down' = [down EXCEPT ![p] = Tail(@)]
  BY DEF Nic, PopDown
<1>4. CASE p # q
  <2>1. down'[q] = down[q] /\ nic'[q] = nic[q]
    BY <1>2, <1>3, <1>4 DEF Nic
  <2> QED BY <1>1, <2>1 DEF InSync
<1>5. CASE p = q
  <2>1. Head(down[q]).psn = nic[q]
    BY <1>2, <1>3, <1>5 DEF InSync, Follows
  <2>2. (Head(down[q]).psn - nic[q]) % PsnMod = 0
    <3>1. PsnMod \in Nat \ {0} /\ nic[q] - nic[q] = 0
      BY <1>2, SizeAssumption
    <3>2. 0 % PsnMod = 0
      BY <3>1
    <3> QED BY <2>1, <3>1, <3>2
  <2>3. nic'[q] = Succ(nic[q])
    BY <1>2, <1>5, <2>2 DEF Nic, Succ
  <2>4. Follows(Tail(down[q]), PsnRegister(q), Succ(nic[q]))
    BY <1>1, <1>2, <1>3, <1>5, FollowsTail DEF InSync
  <2>5. down'[q] = Tail(down[q])
    BY <1>2, <1>3, <1>5
  <2> QED BY <1>1, <2>3, <2>4, <2>5 DEF InSync
<1> QED BY <1>4, <1>5

\* A lost request exempts its connection; nothing else here touches a queue of
\* requests, a register or the NIC.
LEMMA OtherSync ==
  ASSUME TypeOK, PsnInSync,
         \/ \E p \in Policies : Trigger(p)
         \/ \E q \in ServerQpn : LoseRequest(q) \/ LoseResponse(q)
         \/ UNCHANGED vars
  PROVE  PsnInSync'
<1>1. UNCHANGED <<scn, reg, nic, refused>>
  BY DEF Trigger, LoseRequest, LoseResponse, vars
<1> SUFFICES ASSUME NEW q \in ServerQpn, Hit("read_update_psn", <<q>>)', lost'[q].req = 0,
                    q \notin refused'
             PROVE  InSync(q)'
  BY DEF PsnInSync
<1>2. Hit("read_update_psn", <<q>>) /\ PsnRegister(q)' = PsnRegister(q)
  BY <1>1 DEF Hit, PsnRegister, Arg, Tbl
<1>3. lost[q].req = 0 /\ down'[q] = down[q]
  <2>1. CASE \E p \in ServerQpn : LoseRequest(p)
    <3>1. PICK p \in ServerQpn : LoseRequest(p)
      BY <2>1
    <3>2. /\ lost \in [ServerQpn -> [req : Nat, resp : Nat]]
          /\ down \in [ServerQpn -> Seq(Request)]
      BY DEF TypeOK
    <3>3. lost'[p].req = lost[p].req + 1
      BY <3>1, <3>2 DEF LoseRequest
    <3>4. p # q
      BY <3>2, <3>3
    <3> QED BY <3>1, <3>2, <3>4 DEF LoseRequest, PopDown
  <2>2. CASE \E p \in ServerQpn : LoseResponse(p)
    <3>1. PICK p \in ServerQpn : LoseResponse(p)
      BY <2>2
    <3>2. lost \in [ServerQpn -> [req : Nat, resp : Nat]]
      BY DEF TypeOK
    <3> QED BY <3>1, <3>2 DEF LoseResponse
  <2> QED BY <2>1, <2>2 DEF Trigger, vars
<1> QED BY <1>1, <1>2, <1>3 DEF PsnInSync, InSync

\* Whatever policies are installed and however their walks interleave, a
\* connection that has lost no request stays in step with its NIC: the switch,
\* which never hears what the NIC expects, numbers every READ as the NIC does.
THEOREM PsnFollowsNic == Spec => []PsnInSync
<1>1. Init => TypeOK /\ PsnInSync
  BY InitType, InitSync
<1>2. TypeOK /\ PsnInSync /\ [Next]_vars => (TypeOK /\ PsnInSync)'
  <2> SUFFICES ASSUME TypeOK, PsnInSync, [Next]_vars PROVE PsnInSync'
    BY StepType
  <2> QED BY PassSync, NicSync, OtherSync DEF Next
<1> QED BY <1>1, <1>2, PTL DEF Spec
=============================================================================
