----------------------------- MODULE MatchAction -----------------------------
(***************************************************************************)
(* The match-action tables of switch/master/master.p4 as data: which       *)
(* actions each table declares, and the tables that result when bfshell    *)
(* runs a file of "pd <table> add_entry <action> ..." lines.               *)
(***************************************************************************)
EXTENDS Integers, Sequences

\* The "actions { }" block of every table a policy writes to. The tables over
\* the _h and _l halves of an address are one table, and write, read, iter
\* stand for write_process_addr_to_reg_*, read_process_addr_from_reg_* and
\* read_update_iter_addr_l.
Actions ==
  [ cloning |-> {"cloning"},
    gen_mali_alarm |-> {"gen_mali_alarm"},
    cache_process_addr_to_reg |-> {"write", "read", "iter"},
    encode_mod_offset |-> {"encode_mod_offset"},
    encode_mod_offset_pre |-> {"encode_mod_offset"},
    mod_field_parameters |-> {"mod_field_parameters_add", "mod_field_parameters_subtract"},
    mod_field_parameters_pre |->
      {"mod_field_parameters_add_pre", "mod_field_parameters_subtract_pre"},
    end_of_fetching |-> {"nop", "_drop"},
    cache_dqpn_page_walk |-> {"cache", "read"},
    cache_qpn_page_walk |-> {"cache", "read"},
    cache_process_page_addr_to_reg |-> {"cache", "read"},
    add_offset |-> {"pgd", "pud", "pmd", "pte", "page"},
    mask_base_addr |-> {"mask_base_addr", "nop"},
    make_up_addr |-> {"make_up_addr"},
    exact_match |-> {"mark_range_k1", "_drop"},
    range_match |-> {"mark_range_k2", "_drop"},
    check_traverse_end |-> {"set_end_bit"},
    check_null |-> {"mod_qpn_dqpn"},
    end_transfer |-> {"mod_qpn_dqpn"},
    read_update_max_entry |-> {"read_const_length", "read_max_entry", "update_max_entry"},
    direct_transfer |-> {"mod_dqpn"},
    cache_size_into_md |-> {"cache_size_into_md"},
    cache_len_into_md |-> {"cache_len_into_md"},
    pgt_transfer |-> {"pgt_mod_dqpn"},
    mark_vmalloc_bit_p1 |-> {"mark_addr_type"},
    mark_walking_bit |-> {"mark_walking_bit"},
    read_update_psn |-> {"read_update_psn"},
    read_update_ts_start |-> {"read_update_ts_start"} ]

TableNames == DOMAIN Actions

\* A row is refused when its action is not one the table declares.
Accepted(rows) == {r \in rows : r.act \in Actions[r.t]}

\* The tables as functions from keys to the action and its parameters.
Install(rows) ==
  [t \in TableNames |->
     LET mine == {r \in Accepted(rows) : r.t = t} IN
     [k \in {r.k : r \in mine} |->
        LET r == CHOOSE x \in mine : x.k = k IN [act |-> r.act, arg |-> r.arg]]]
=============================================================================
