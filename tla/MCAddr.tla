------------------------------- MODULE MCAddr -------------------------------
(* Words of seven bits, tables of four entries of two bytes: eleven bits of   *)
(* an address are translated, the upper three are ones.                      *)
EXTENDS AddrTranslation

\* PAGE_OFFSET with low word 0, as setup_qpn_ts.cmd has it, and with 4 * Nibble,
\* as the commented-out action of master.p4 has it.
MCRows ==
  { [addr1 |-> 114, addr2 |-> 0, addr3 |-> 114, addr4 |-> 80, addr5 |-> 0, addr6 |-> 3],
    [addr1 |-> 113, addr2 |-> 32, addr3 |-> 114, addr4 |-> 30, addr5 |-> 96, addr6 |-> 1] }
MCTops    == { [h |-> 5, l |-> 120] }
MCEntries == { [h |-> 68, l |-> 127], [h |-> 3, l |-> 49] }
MCAddresses == (Word - Top) * Word .. Word * Word - 1
=============================================================================
