------------------------------ MODULE MCDriver ------------------------------
(* Small sets of lines for the compiler.                                   *)
EXTENDS Driver

KG == [op |-> "kgraph"]
Traverse(off, stop, type) == [op |-> "traverse", off |-> off, end |-> stop, type |-> type]
Iter(n)     == [op |-> "iter", off |-> 0, num |-> n, dyn |-> 0, size |-> 1]
IterNum(n)  == [op |-> "iter", off |-> 1, num |-> n, dyn |-> 1, size |-> 1]
In(off)     == [op |-> "in", off |-> off, var |-> 0]
Values(fs)  == [op |-> "values", fields |-> fs, name |-> ""]
Named(n)    == [op |-> "values", fields |-> <<2>>, name |-> n]
Bounded     == [op |-> "assert", high |-> 66, low |-> 33]

AllLines == {KG, Traverse(1, 9, 0), Iter(3), Named("n"), IterNum("n"), In(1),
             Values(<<0, 1>>), Bounded}
=============================================================================
