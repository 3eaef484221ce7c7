----------------------------- MODULE VmiProofs -----------------------------
(***************************************************************************)
(* Theorems about VmiTools: types, who may disturb whom, what is released, *)
(* and dump-memory's restraint, for any number of programs on any guest.   *)
(* Nothing is needed of the walks: whatever they read, the calls around    *)
(* them keep these.                                                        *)
(***************************************************************************)
EXTENDS VmiTools, SequenceTheorems, TLAPS

-----------------------------------------------------------------------------
(* The invariant *)

SetupCalls == {"linux", "listed", "offset", "pause", "mode", "symbol", "head", "first"}
ExitCalls  == {"resume", "close", "destroy"}
Frees(call) == CASE call = "resume" -> "pause" [] call = "close" -> "file" [] call = "destroy" -> "vmi"

\* What is still to be released by an exit label.
Rest(t) == {Frees(plan[t][k]) : k \in at[t]..Len(plan[t])}

Types ==
  /\ scn \in Scenarios
  /\ DOMAIN mem = DOMAIN scn.mem
  /\ vm \in {"running", "paused"} /\ stores \in 0..MaxStores
  /\ pc \in [Tools -> {"setup", "walk", "exit", "done"}]
  /\ plan \in [Tools -> Seq(Calls)] /\ at \in [Tools -> Nat \ {0}]
  /\ held \in [Tools -> SUBSET {"vmi", "file", "pause"}]
  /\ code \in [Tools -> {0, 1}]
  /\ seen = [t \in Tools |-> [mem |-> seen[t].mem, torn |-> seen[t].torn, cut |-> seen[t].cut]]

\* What a program holds at each point of its setup: dump-memory call by call, the others
\* nothing before vmi_init_complete and the instance after it.
DumpHolds(n) ==
  CASE n <= 3 -> {} [] n = 4 -> {"vmi"} [] n = 5 -> {"vmi", "file"} [] n > 5 -> {"vmi", "file", "pause"}
InSetup(t) ==
  /\ scn.tool[t] # "none"
  /\ plan[t] = Setup(scn.tool[t], scn.os, scn.pause[t])
  /\ at[t] <= Len(plan[t])
  /\ scn.tool[t] = "dump" => held[t] = DumpHolds(at[t])
  /\ scn.tool[t] # "dump" => /\ at[t] <= 2 => held[t] = {}
                             /\ at[t] > 2 => "vmi" \in held[t]
                             /\ held[t] \subseteq {"vmi", "pause"}
InWalk(t) ==
  /\ scn.tool[t] # "none"
  /\ scn.tool[t] = "dump" =>
       held[t] = {"vmi", "file"} \cup (IF scn.pause[t] THEN {"pause"} ELSE {})
  /\ scn.tool[t] # "dump" => "vmi" \in held[t] /\ held[t] \subseteq {"vmi", "pause"}

\* An exit label resumes first, if at all, and destroys the instance last; what it has
\* still to release covers what is held.
InExit(t) ==
  /\ plan[t] \in Seq(ExitCalls) /\ at[t] <= Len(plan[t]) + 1
  /\ \A k \in 1..Len(plan[t]) : /\ plan[t][k] = "destroy" => k = Len(plan[t])
                                /\ plan[t][k] = "resume" => k = 1
  /\ held[t] \subseteq Rest(t)
  /\ "pause" \in held[t] => "vmi" \in held[t]
  /\ scn.tool[t] = "dump" /\ at[t] = 1 /\ Len(plan[t]) > 0 /\ plan[t][1] = "resume"
       => "pause" \in held[t]

Local(t) == /\ pc[t] = "setup" => InSetup(t)
            /\ pc[t] = "walk" => InWalk(t)
            /\ pc[t] = "exit" => InExit(t)
            /\ pc[t] = "done" => held[t] = {}

\* A VM is paused because it was from the start or somebody holds a pause.
PausedBy == vm = "paused" => scn.vm = "paused" \/ \E t \in Tools : "pause" \in held[t]

\* It runs under somebody who holds a pause only because another resumed it.
Left(t) == \E u \in Tools \ {t} : Resumed(u)
RunningBy == \A t \in Tools : vm = "running" /\ "pause" \in held[t] => Left(t)

\* A store before the walk is counted only under a pause.
TornBy == \A t \in Tools : pc[t] = "setup" /\ seen[t].torn => "pause" \in held[t]

Inv == Types /\ (\A t \in Tools : Local(t)) /\ PausedBy /\ RunningBy /\ TornBy /\ Undisturbed

-----------------------------------------------------------------------------
(* The calls of a setup *)

\* Every listing program takes its arguments, then its instance, then calls that
\* acquire nothing but a pause.
LEMMA ListingSetup ==
  ASSUME NEW tool \in ToolNames \ {"dump", "none"}, NEW os \in {"Linux", "Windows", "FreeBSD"},
         NEW pause \in BOOLEAN
  PROVE  LET p == Setup(tool, os, pause)
         IN  /\ p \in Seq(Calls) /\ Len(p) > 2
             /\ p[1] = "args" /\ p[2] = "init"
             /\ \A k \in 3..Len(p) : p[k] \in SetupCalls
<1> DEFINE p == Setup(tool, os, pause)
<1>1. CASE tool \in {"process", "credential", "vmarea"}
  <2>1. p = <<"args", "init">> \o Offsets(os) \o ListStart(os)
    BY <1>1 DEF Setup, ProcessListSetup, CredentialListSetup, VmAreaSetup
  <2> DEFINE first == <<"args", "init">>
             last == ListStart(os)
             offs == Offsets(os)
  <2>2. /\ offs \in Seq({"offset"}) /\ Len(offs) \in Nat /\ Len(offs) > 0
        /\ \A k \in 1..Len(offs) : offs[k] = "offset"
    <3>1. CASE os = "FreeBSD"
      BY <3>1 DEF Offsets
    <3>2. CASE os # "FreeBSD"
      BY <3>2 DEF Offsets
    <3> QED BY <3>1, <3>2
  <2>3. /\ first \in Seq(Calls) /\ Len(first) = 2 /\ first[1] = "args" /\ first[2] = "init"
    BY DEF Calls
  <2>4. /\ last \in Seq(Calls) /\ Len(last) \in Nat
        /\ \A k \in 1..Len(last) : last[k] \in SetupCalls
    <3>1. CASE os = "FreeBSD"
      BY <3>1 DEF Calls, SetupCalls, ListStart
    <3>2. CASE os # "FreeBSD"
      BY <3>2 DEF Calls, SetupCalls, ListStart
    <3> QED BY <3>1, <3>2
  <2>5. offs \in Seq(Calls)
    BY <2>2 DEF Calls
  <2>6. p = (first \o offs) \o last
    BY <2>1
  <2> HIDE DEF first, last, offs, p
  <2>7. first \o offs \in Seq(Calls) /\ Len(first \o offs) = 2 + Len(offs)
        /\ \A k \in 1..(2 + Len(offs)) :
             (first \o offs)[k] = IF k <= 2 THEN first[k] ELSE offs[k - 2]
    <3>1. /\ first \o offs \in Seq(Calls) /\ Len(first \o offs) = Len(first) + Len(offs)
          /\ \A k \in 1..(Len(first) + Len(offs)) :
               (first \o offs)[k] = IF k <= Len(first) THEN first[k] ELSE offs[k - Len(first)]
      BY <2>3, <2>5, ConcatProperties, Zenon
    <3> QED BY <3>1, <2>2, <2>3
  <2>8. p \in Seq(Calls) /\ Len(p) = 2 + Len(offs) + Len(last)
        /\ \A k \in 1..(2 + Len(offs) + Len(last)) :
             p[k] = IF k <= 2 + Len(offs) THEN (first \o offs)[k] ELSE last[k - (2 + Len(offs))]
    <3> DEFINE front == first \o offs
    <3>1. /\ front \o last \in Seq(Calls) /\ Len(front \o last) = Len(front) + Len(last)
          /\ \A k \in 1..(Len(front) + Len(last)) :
               (front \o last)[k] = IF k <= Len(front) THEN front[k] ELSE last[k - Len(front)]
      BY <2>4, <2>7, ConcatProperties, Zenon
    <3> HIDE DEF front
    <3>2. p = front \o last /\ Len(front) = 2 + Len(offs)
      BY <2>6, <2>7 DEF front
    <3>3. \A k \in 1..(2 + Len(offs) + Len(last)) :
            p[k] = IF k <= 2 + Len(offs) THEN front[k] ELSE last[k - (2 + Len(offs))]
      BY <3>1, <3>2, <2>2, <2>4
    <3> QED BY <3>1, <3>2, <3>3, <2>2, <2>4 DEF front
  <2>9. p[1] = "args" /\ p[2] = "init" /\ Len(p) > 2
    BY <2>2, <2>3, <2>4, <2>7, <2>8
  <2>10. ASSUME NEW k \in 3..Len(p) PROVE p[k] \in SetupCalls
    <3>1. CASE k <= 2 + Len(offs)
      <4>1. p[k] = offs[k - 2] /\ k - 2 \in 1..Len(offs)
        BY <2>2, <2>7, <2>8, <3>1
      <4> QED BY <4>1, <2>2 DEF SetupCalls
    <3>2. CASE ~(k <= 2 + Len(offs))
      <4>1. p[k] = last[k - (2 + Len(offs))] /\ k - (2 + Len(offs)) \in 1..Len(last)
        BY <2>2, <2>4, <2>8, <3>2
      <4> QED BY <4>1, <2>4
    <3> QED BY <3>1, <3>2
  <2> QED BY <2>8, <2>9, <2>10 DEF p
<1>2. CASE tool = "openfile"
  BY <1>2 DEF Setup, OpenFileSetup, SetupCalls, Calls
<1>3. CASE tool = "module"
  BY <1>3 DEF Setup, ModuleListSetup, SetupCalls, Calls
<1>4. CASE tool = "keylogger"
  BY <1>4 DEF Setup, KeyloggerSetup, SetupCalls, Calls
<1>5. CASE tool = "netfilter"
  BY <1>5 DEF Setup, NetfilterSetup, SetupCalls, Calls
<1>6. CASE tool = "procfops"
  BY <1>6 DEF Setup, ProcFileOpsSetup, SetupCalls, Calls
<1>7. CASE tool = "syscall"
  BY <1>7 DEF Setup, SyscallTableSetup, SetupCalls, Calls
<1> QED BY <1>1, <1>2, <1>3, <1>4, <1>5, <1>6, <1>7 DEF ToolNames

\* dump-memory's setup, with and without its pause.
LEMMA DumpSetups ==
  ASSUME NEW os, NEW pause \in BOOLEAN
  PROVE  Setup("dump", os, pause) =
           IF pause THEN <<"args", "mode", "init", "open", "pause", "size">>
           ELSE <<"args", "mode", "init", "open", "size">>
BY DEF Setup, DumpSetup

-----------------------------------------------------------------------------
(* The initial states *)

\* The calls of a setup are calls, and there are some unless there is no process.
LEMMA SetupCalled ==
  ASSUME NEW tool \in ToolNames, NEW os \in {"Linux", "Windows", "FreeBSD"},
         NEW pause \in BOOLEAN
  PROVE  /\ Setup(tool, os, pause) \in Seq(Calls)
         /\ tool # "none" => Len(Setup(tool, os, pause)) > 2
<1>1. CASE tool = "none"
  BY <1>1 DEF Setup
<1>2. CASE tool = "dump"
  <2>1. <<"args", "mode", "init", "open", "pause", "size">> \in Seq(Calls)
    BY DEF Calls
  <2>2. <<"args", "mode", "init", "open", "size">> \in Seq(Calls)
    BY DEF Calls
  <2>3. CASE pause
    <3>1. Setup(tool, os, pause) = <<"args", "mode", "init", "open", "pause", "size">>
      BY <1>2, <2>3, DumpSetups
    <3> QED BY <2>1, <3>1
  <2>4. CASE ~pause
    <3>1. Setup(tool, os, pause) = <<"args", "mode", "init", "open", "size">>
      BY <1>2, <2>4, DumpSetups
    <3> QED BY <2>2, <3>1
  <2> QED BY <2>3, <2>4
<1>3. CASE tool \notin {"none", "dump"}
  BY <1>3, ListingSetup
<1> QED BY <1>1, <1>2, <1>3

\* What the scenarios are.
LEMMA ScnType ==
  ASSUME Types
  PROVE  /\ MaxStores \in Nat
         /\ scn.os \in {"Linux", "Windows", "FreeBSD"} /\ scn.vm \in {"running", "paused"}
         /\ \A t \in Tools : scn.tool[t] \in ToolNames /\ scn.pause[t] \in BOOLEAN
BY ScenarioAssumption DEF Types

LEMMA InitInv == Init => Inv
<1> SUFFICES ASSUME Init PROVE Inv
  OBVIOUS
<1>1. /\ MaxStores \in Nat
      /\ scn.os \in {"Linux", "Windows", "FreeBSD"} /\ scn.vm \in {"running", "paused"}
      /\ \A t \in Tools : scn.tool[t] \in ToolNames /\ scn.pause[t] \in BOOLEAN
  BY ScenarioAssumption DEF Init
<1>2. Types
  <2>1. plan \in [Tools -> Seq(Calls)]
    BY <1>1, SetupCalled DEF Init
  <2>2. seen = [t \in Tools |-> [mem |-> seen[t].mem, torn |-> seen[t].torn, cut |-> seen[t].cut]]
    <3>1. \A t \in Tools : seen[t] = [mem |-> scn.mem, torn |-> FALSE, cut |-> FALSE]
      BY DEF Init
    <3>2. \A t \in Tools : [mem |-> seen[t].mem, torn |-> seen[t].torn, cut |-> seen[t].cut]
                            = [mem |-> scn.mem, torn |-> FALSE, cut |-> FALSE]
      <4>1. ASSUME NEW t \in Tools
            PROVE  seen[t].mem = scn.mem /\ seen[t].torn = FALSE /\ seen[t].cut = FALSE
        BY <3>1
      <4> QED BY <4>1, Zenon
    <3> QED BY <3>2 DEF Init
  <2> QED BY <1>1, <2>1, <2>2 DEF Init, Types
<1>3. ASSUME NEW t \in Tools PROVE Local(t)
  <2>1. held[t] = {} /\ at[t] = 1 /\ plan[t] = Setup(scn.tool[t], scn.os, scn.pause[t])
    BY DEF Init
  <2>2. CASE scn.tool[t] = "none"
    <3>1. pc[t] = "done"
      BY <2>2 DEF Init
    <3> QED BY <2>1, <3>1 DEF Local
  <2>3. CASE scn.tool[t] # "none"
    <3>1. pc[t] = "setup"
      BY <2>3 DEF Init
    <3>2. Len(plan[t]) \in Nat /\ at[t] <= Len(plan[t])
      BY <1>1, <2>1, <2>3, SetupCalled
    <3>3. DumpHolds(1) = {}
      BY DEF DumpHolds
    <3>4. InSetup(t)
      BY <2>1, <2>3, <3>2, <3>3 DEF InSetup
    <3> QED BY <3>1, <3>4 DEF Local
  <2> QED BY <2>2, <2>3
<1>4. \A t \in Tools : seen[t].torn = FALSE /\ held[t] = {} /\ vm = scn.vm
  BY DEF Init
<1>5. PausedBy /\ RunningBy /\ TornBy /\ Undisturbed
  <2>1. vm = scn.vm
    BY DEF Init
  <2> QED BY <1>4, <2>1 DEF PausedBy, RunningBy, TornBy, Undisturbed
<1> QED BY <1>2, <1>3, <1>5 DEF Inv

-----------------------------------------------------------------------------
(* The steps *)

\* A program that a step leaves alone is where it was.
LEMMA LocalFrame ==
  ASSUME NEW u \in Tools, Local(u), scn' = scn, pc'[u] = pc[u], plan'[u] = plan[u],
         at'[u] = at[u], held'[u] = held[u]
  PROVE  Local(u)'
<1>1. InSetup(u) => InSetup(u)'
  BY DEF InSetup, DumpHolds
<1>2. InWalk(u) => InWalk(u)'
  BY DEF InWalk
<1>3. InExit(u) => InExit(u)'
  BY DEF InExit, Rest
<1> QED BY <1>1, <1>2, <1>3 DEF Local

\* Who has resumed the VM at its exit has done so for good, and with it what Left allows.
LEMMA LeftKept ==
  ASSUME NEW t \in Tools, Left(t), Types,
         \A u \in Tools : pc[u] \in {"exit", "done"} =>
           /\ pc'[u] \in {"exit", "done"} /\ plan'[u] = plan[u]
           /\ at'[u] = at[u] \/ at'[u] = at[u] + 1
  PROVE  Left(t)'
<1>1. PICK u \in Tools \ {t} : Resumed(u)
  BY DEF Left
<1>2. PICK k \in 1..(at[u] - 1) : plan[u][k] = "resume"
  BY <1>1 DEF Resumed
<1>3. at[u] \in Nat \ {0} /\ pc[u] \in {"exit", "done"}
  BY <1>1 DEF Types, Resumed
<1>4. k \in 1..(at'[u] - 1) /\ plan'[u][k] = "resume"
  BY <1>2, <1>3
<1>5. Resumed(u)'
  BY <1>3, <1>4 DEF Resumed
<1> QED BY <1>5 DEF Left

\* The call a setup is at.
LEMMA SetupCall ==
  ASSUME Inv, NEW t \in Tools, pc[t] = "setup"
  PROVE  /\ scn.tool[t] \in ToolNames \ {"none"} /\ scn.pause[t] \in BOOLEAN
         /\ plan[t] \in Seq(Calls) /\ at[t] \in 1..Len(plan[t]) /\ Len(plan[t]) \in Nat
         /\ plan[t] = Setup(scn.tool[t], scn.os, scn.pause[t])
         /\ scn.tool[t] # "dump" =>
              /\ Len(plan[t]) > 2
              /\ at[t] = 1 => Current(t) = "args"
              /\ at[t] = 2 => Current(t) = "init"
              /\ at[t] > 2 => Current(t) \in SetupCalls
         /\ scn.tool[t] = "dump" =>
              plan[t] = IF scn.pause[t] THEN <<"args", "mode", "init", "open", "pause", "size">>
                        ELSE <<"args", "mode", "init", "open", "size">>
<1>1. InSetup(t) /\ Types
  BY DEF Inv, Local
<1>2. /\ scn.tool[t] \in ToolNames \ {"none"} /\ scn.pause[t] \in BOOLEAN
      /\ scn.os \in {"Linux", "Windows", "FreeBSD"}
      /\ plan[t] = Setup(scn.tool[t], scn.os, scn.pause[t])
  BY <1>1, ScnType DEF InSetup
<1>3. plan[t] \in Seq(Calls) /\ at[t] \in 1..Len(plan[t]) /\ Len(plan[t]) \in Nat
  BY <1>1 DEF InSetup, Types
<1>4. CASE scn.tool[t] # "dump"
  <2>1. /\ Len(plan[t]) > 2 /\ plan[t][1] = "args" /\ plan[t][2] = "init"
        /\ \A k \in 3..Len(plan[t]) : plan[t][k] \in SetupCalls
    BY <1>2, <1>4, ListingSetup
  <2> QED BY <1>2, <1>3, <1>4, <2>1 DEF Current
<1>5. CASE scn.tool[t] = "dump"
  BY <1>2, <1>3, <1>5, DumpSetups
<1> QED BY <1>4, <1>5

\* A setup that goes on holds what it should at the next call, or in the walk.
LEMMA AdvanceLocal ==
  ASSUME Inv, NEW t \in Tools, pc[t] = "setup", NEW missed, Advance(t, missed), scn' = scn,
         NEW X, held' = [held EXCEPT ![t] = @ \cup X],
         \/ X = Acquired(Current(t))
         \/ X = {} /\ scn.tool[t] = "module" /\ at[t] > 2
  PROVE  Local(t)'
<1>1. InSetup(t) /\ Types
  BY DEF Inv, Local
<1>2. /\ scn.tool[t] # "none" /\ scn.pause[t] \in BOOLEAN
      /\ at[t] \in 1..Len(plan[t]) /\ Len(plan[t]) \in Nat
      /\ plan[t] = Setup(scn.tool[t], scn.os, scn.pause[t])
  BY SetupCall
<1>3. at'[t] = at[t] + 1 /\ plan' = plan /\ held'[t] = held[t] \cup X
  BY <1>1 DEF Advance, Types
<1>4. /\ at[t] = Len(plan[t]) => pc'[t] = "walk"
      /\ at[t] # Len(plan[t]) => pc'[t] = "setup"
  BY <1>1 DEF Advance, Types
<1>5. CASE scn.tool[t] # "dump"
  <2>1. /\ Len(plan[t]) > 2
        /\ at[t] = 1 => Current(t) = "args"
        /\ at[t] = 2 => Current(t) = "init"
        /\ at[t] > 2 => Current(t) \in SetupCalls
    BY <1>5, SetupCall
  <2>2. /\ X \subseteq {"vmi", "pause"}
        /\ at[t] = 1 => X = {}
        /\ at[t] = 2 => X = {"vmi"}
    BY <1>2, <2>1 DEF Acquired, SetupCalls
  <2>3. /\ held'[t] \subseteq {"vmi", "pause"}
        /\ at[t] = 1 => held'[t] = {}
        /\ at[t] > 1 => "vmi" \in held'[t]
    <3>1. /\ held[t] \subseteq {"vmi", "pause"}
          /\ at[t] <= 2 => held[t] = {}
          /\ at[t] > 2 => "vmi" \in held[t]
      BY <1>1, <1>5 DEF InSetup
    <3>2. at[t] = 1 \/ at[t] = 2 \/ at[t] > 2
      BY <1>2
    <3>3. CASE at[t] = 1
      <4>1. held[t] = {} /\ X = {}
        BY <2>2, <3>1, <3>3
      <4>2. held'[t] = {}
        BY <1>3, <4>1
      <4> QED BY <3>3, <4>2
    <3>4. CASE at[t] = 2
      <4>1. held'[t] = {"vmi"}
        BY <1>3, <2>2, <3>1, <3>4
      <4> QED BY <3>4, <4>1
    <3>5. CASE at[t] > 2
      BY <1>2, <1>3, <2>2, <3>1, <3>5
    <3> QED BY <3>2, <3>3, <3>4, <3>5
  <2>4. CASE at[t] = Len(plan[t])
    BY <1>2, <1>4, <1>5, <2>1, <2>3, <2>4 DEF Local, InWalk
  <2>5. CASE at[t] # Len(plan[t])
    <3>1. InSetup(t)'
      BY <1>2, <1>3, <1>5, <2>3, <2>5 DEF InSetup
    <3> QED BY <1>4, <2>5, <3>1 DEF Local
  <2> QED BY <2>4, <2>5
<1>6. CASE scn.tool[t] = "dump"
  <2>1. plan[t] = IF scn.pause[t] THEN <<"args", "mode", "init", "open", "pause", "size">>
                  ELSE <<"args", "mode", "init", "open", "size">>
    BY <1>6, SetupCall
  <2>2. X = Acquired(plan[t][at[t]]) /\ held[t] = DumpHolds(at[t])
    BY <1>1, <1>6 DEF InSetup, Current
  <2>3. CASE scn.pause[t]
    <3>1. plan[t] = <<"args", "mode", "init", "open", "pause", "size">>
      BY <2>1, <2>3
    <3>2. Len(plan[t]) = 6 /\ at[t] \in {1, 2, 3, 4, 5, 6}
      BY <1>2, <3>1
    <3>3. held'[t] = IF at[t] = 6 THEN {"vmi", "file", "pause"} ELSE DumpHolds(at[t] + 1)
      <4>1. CASE at[t] = 1
        <5>1. X = {} /\ held[t] = {}
          BY <2>2, <3>1, <4>1 DEF DumpHolds, Acquired
        <5> QED BY <1>3, <4>1, <5>1 DEF DumpHolds
      <4>2. CASE at[t] = 2
        <5>1. X = {} /\ held[t] = {}
          BY <2>2, <3>1, <4>2 DEF DumpHolds, Acquired
        <5> QED BY <1>3, <4>2, <5>1 DEF DumpHolds
      <4>3. CASE at[t] = 3
        <5>1. X = {"vmi"} /\ held[t] = {}
          BY <2>2, <3>1, <4>3 DEF DumpHolds, Acquired
        <5> QED BY <1>3, <4>3, <5>1 DEF DumpHolds
      <4>4. CASE at[t] = 4
        <5>1. X = {"file"} /\ held[t] = {"vmi"}
          BY <2>2, <3>1, <4>4 DEF DumpHolds, Acquired
        <5> QED BY <1>3, <4>4, <5>1 DEF DumpHolds
      <4>5. CASE at[t] = 5
        <5>1. X = {"pause"} /\ held[t] = {"vmi", "file"}
          BY <2>2, <3>1, <4>5 DEF DumpHolds, Acquired
        <5> QED BY <1>3, <4>5, <5>1 DEF DumpHolds
      <4>6. CASE at[t] = 6
        <5>1. X = {} /\ held[t] = {"vmi", "file", "pause"}
          BY <2>2, <3>1, <4>6 DEF DumpHolds, Acquired
        <5> QED BY <1>3, <4>6, <5>1 DEF DumpHolds
      <4> QED BY <3>2, <4>1, <4>2, <4>3, <4>4, <4>5, <4>6
    <3>4. CASE at[t] = 6
      <4>1. held'[t] = {"vmi", "file"} \cup {"pause"}
        BY <3>3, <3>4
      <4> QED BY <1>2, <1>4, <1>6, <2>3, <3>2, <3>4, <4>1 DEF Local, InWalk
    <3>5. CASE at[t] # 6
      <4>1. held'[t] = DumpHolds(at'[t])
        BY <1>3, <3>3, <3>5
      <4>2. at'[t] <= Len(plan'[t])
        BY <1>3, <3>2, <3>5
      <4>3. InSetup(t)'
        BY <1>2, <1>3, <1>6, <4>1, <4>2, Zenon DEF InSetup
      <4> QED BY <1>4, <3>2, <3>5, <4>3 DEF Local
    <3> QED BY <3>4, <3>5
  <2>4. CASE ~scn.pause[t]
    <3>1. plan[t] = <<"args", "mode", "init", "open", "size">>
      BY <2>1, <2>4
    <3>2. Len(plan[t]) = 5 /\ at[t] \in {1, 2, 3, 4, 5}
      BY <1>2, <3>1
    <3>3. held'[t] = IF at[t] = 5 THEN {"vmi", "file"} ELSE DumpHolds(at[t] + 1)
      <4>1. CASE at[t] = 1
        <5>1. X = {} /\ held[t] = {}
          BY <2>2, <3>1, <4>1 DEF DumpHolds, Acquired
        <5> QED BY <1>3, <4>1, <5>1 DEF DumpHolds
      <4>2. CASE at[t] = 2
        <5>1. X = {} /\ held[t] = {}
          BY <2>2, <3>1, <4>2 DEF DumpHolds, Acquired
        <5> QED BY <1>3, <4>2, <5>1 DEF DumpHolds
      <4>3. CASE at[t] = 3
        <5>1. X = {"vmi"} /\ held[t] = {}
          BY <2>2, <3>1, <4>3 DEF DumpHolds, Acquired
        <5> QED BY <1>3, <4>3, <5>1 DEF DumpHolds
      <4>4. CASE at[t] = 4
        <5>1. X = {"file"} /\ held[t] = {"vmi"}
          BY <2>2, <3>1, <4>4 DEF DumpHolds, Acquired
        <5> QED BY <1>3, <4>4, <5>1 DEF DumpHolds
      <4>5. CASE at[t] = 5
        <5>1. X = {} /\ held[t] = {"vmi", "file"}
          BY <2>2, <3>1, <4>5 DEF DumpHolds, Acquired
        <5> QED BY <1>3, <4>5, <5>1 DEF DumpHolds
      <4> QED BY <3>2, <4>1, <4>2, <4>3, <4>4, <4>5
    <3>4. CASE at[t] = 5
      <4>1. held'[t] = {"vmi", "file"} \cup {}
        BY <3>3, <3>4
      <4> QED BY <1>2, <1>4, <1>6, <2>4, <3>2, <3>4, <4>1 DEF Local, InWalk
    <3>5. CASE at[t] # 5
      <4>1. held'[t] = DumpHolds(at'[t])
        BY <1>3, <3>3, <3>5
      <4>2. at'[t] <= Len(plan'[t])
        BY <1>3, <3>2, <3>5
      <4>3. InSetup(t)'
        BY <1>2, <1>3, <1>6, <4>1, <4>2, Zenon DEF InSetup
      <4> QED BY <1>4, <3>2, <3>5, <4>3 DEF Local
    <3> QED BY <3>4, <3>5
  <2> QED BY <1>2, <2>3, <2>4
<1> QED BY <1>5, <1>6

\* The five exit labels there are, and what each can be entered with.
LEMMA Label ==
  ASSUME NEW t \in Tools, at'[t] = 1, "pause" \in held'[t] => "vmi" \in held'[t],
         \/ plan'[t] = <<>> /\ held'[t] = {}
         \/ plan'[t] = <<"destroy">> /\ held'[t] \subseteq {"vmi"}
         \/ plan'[t] = <<"resume", "destroy">> /\ held'[t] \subseteq {"vmi", "pause"} /\ scn'.tool[t] # "dump"
         \/ plan'[t] = <<"close", "destroy">> /\ held'[t] \subseteq {"vmi", "file"}
         \/ plan'[t] = <<"resume", "close", "destroy">> /\ held'[t] = {"vmi", "file", "pause"}
  PROVE  InExit(t)' /\ plan'[t] \in Seq(Calls)
<1>1. CASE plan'[t] = <<>> /\ held'[t] = {}
  <2>1. plan'[t] = <<>> /\ plan'[t] \in Seq(ExitCalls) /\ plan'[t] \in Seq(Calls) /\ Len(plan'[t]) = 0
    BY <1>1 DEF ExitCalls, Calls
  <2> QED BY <1>1, <2>1 DEF InExit
<1>2. CASE plan'[t] = <<"destroy">> /\ held'[t] \subseteq {"vmi"}
  <2>1. plan'[t] = <<"destroy">> /\ plan'[t] \in Seq(ExitCalls) /\ plan'[t] \in Seq(Calls) /\ Len(plan'[t]) = 1
    BY <1>2 DEF ExitCalls, Calls
  <2>2. Frees(plan'[t][1]) = "vmi"
    BY <2>1 DEF Frees
  <2>3. {"vmi"} \subseteq Rest(t)'
    BY <2>1, <2>2 DEF Rest
  <2> QED BY <1>2, <2>1, <2>3 DEF InExit
<1>3. CASE plan'[t] = <<"resume", "destroy">> /\ held'[t] \subseteq {"vmi", "pause"} /\ scn'.tool[t] # "dump"
  <2>1. plan'[t] = <<"resume", "destroy">> /\ plan'[t] \in Seq(ExitCalls) /\ plan'[t] \in Seq(Calls) /\ Len(plan'[t]) = 2
    BY <1>3 DEF ExitCalls, Calls
  <2>2. Frees(plan'[t][1]) = "pause" /\ Frees(plan'[t][2]) = "vmi"
    BY <2>1 DEF Frees
  <2>3. {"pause", "vmi"} \subseteq Rest(t)'
    BY <2>1, <2>2 DEF Rest
  <2> QED BY <1>3, <2>1, <2>3 DEF InExit
<1>4. CASE plan'[t] = <<"close", "destroy">> /\ held'[t] \subseteq {"vmi", "file"}
  <2>1. plan'[t] = <<"close", "destroy">> /\ plan'[t] \in Seq(ExitCalls) /\ plan'[t] \in Seq(Calls) /\ Len(plan'[t]) = 2
    BY <1>4 DEF ExitCalls, Calls
  <2>2. Frees(plan'[t][1]) = "file" /\ Frees(plan'[t][2]) = "vmi"
    BY <2>1 DEF Frees
  <2>3. {"file", "vmi"} \subseteq Rest(t)'
    BY <2>1, <2>2 DEF Rest
  <2> QED BY <1>4, <2>1, <2>3 DEF InExit
<1>5. CASE plan'[t] = <<"resume", "close", "destroy">> /\ held'[t] = {"vmi", "file", "pause"}
  <2>1. plan'[t] = <<"resume", "close", "destroy">> /\ plan'[t] \in Seq(ExitCalls) /\ plan'[t] \in Seq(Calls) /\ Len(plan'[t]) = 3
    BY <1>5 DEF ExitCalls, Calls
  <2>2. Frees(plan'[t][1]) = "pause" /\ Frees(plan'[t][2]) = "file" /\ Frees(plan'[t][3]) = "vmi"
    BY <2>1 DEF Frees
  <2>3. {"pause", "file", "vmi"} \subseteq Rest(t)'
    BY <2>1, <2>2 DEF Rest
  <2> QED BY <1>5, <2>1, <2>3 DEF InExit
<1> QED BY <1>1, <1>2, <1>3, <1>4, <1>5

\* Every way out of the setup and the walk leads to a label that fits.
LEMMA ExitCovers ==
  ASSUME Inv, NEW t \in Tools, NEW call, Goto(t, Exit(t, call)), held' = held, scn' = scn,
         \/ pc[t] = "setup" /\ call = Current(t) /\ call # "size"
         \/ pc[t] = "walk" /\ call = "walk"
  PROVE  InExit(t)' /\ plan' \in [Tools -> Seq(Calls)] /\ at' \in [Tools -> Nat \ {0}]
<1>1. Types /\ Local(t)
  BY DEF Inv
<1>2. plan'[t] = Exit(t, call) /\ at'[t] = 1 /\ held'[t] = held[t]
  BY <1>1 DEF Goto, Types
<1>3. /\ plan' = [plan EXCEPT ![t] = Exit(t, call)] /\ at' = [at EXCEPT ![t] = 1]
      /\ plan \in [Tools -> Seq(Calls)] /\ at \in [Tools -> Nat \ {0}]
  BY <1>1 DEF Goto, Types
<1>4. SUFFICES InExit(t)' /\ plan'[t] \in Seq(Calls)
  <2>1. plan' = [plan EXCEPT ![t] = plan'[t]]
    BY <1>2, <1>3
  <2>2. plan' \in [Tools -> Seq(Calls)]
    BY <1>3, <2>1
  <2>3. at' \in [Tools -> Nat \ {0}]
    BY <1>3
  <2> QED BY <2>2, <2>3
<1>5. CASE scn.tool[t] # "dump"
  <2>1. Exit(t, call) = IF call = "args" THEN <<>> ELSE <<"resume", "destroy">>
    BY <1>5 DEF Exit, ErrorExit
  <2>2. /\ held[t] \subseteq {"vmi", "pause"}
        /\ "pause" \in held[t] => "vmi" \in held[t]
        /\ call = "args" => held[t] = {}
    <3>1. CASE pc[t] = "setup"
      <4>1. /\ at[t] \in Nat \ {0}
            /\ at[t] = 2 => call = "init"
            /\ at[t] > 2 => call \in SetupCalls
        BY <1>1, <1>5, <3>1, SetupCall DEF Types
      <4>2. /\ at[t] <= 2 => held[t] = {}
            /\ at[t] > 2 => "vmi" \in held[t]
            /\ held[t] \subseteq {"vmi", "pause"}
        BY <1>1, <1>5, <3>1 DEF Local, InSetup
      <4>3. call = "args" => at[t] <= 2
        BY <4>1 DEF SetupCalls
      <4> QED BY <4>1, <4>2, <4>3
    <3>2. CASE pc[t] = "walk"
      BY <1>1, <1>5, <3>2 DEF Local, InWalk
    <3> QED BY <3>1, <3>2
  <2>3. CASE call = "args"
    <3>1. plan'[t] = <<>> /\ held'[t] = {}
      BY <1>2, <2>1, <2>2, <2>3
    <3> QED BY <1>2, <3>1, Label
  <2>4. CASE call # "args"
    <3>1. plan'[t] = <<"resume", "destroy">> /\ held'[t] \subseteq {"vmi", "pause"}
      <4>1. plan'[t] = <<"resume", "destroy">>
        BY <1>2, <2>1, <2>4
      <4>2. held'[t] \subseteq {"vmi", "pause"}
        BY <1>2, <2>2
      <4> QED BY <4>1, <4>2
    <3> QED BY <1>2, <1>5, <2>2, <3>1, Label
  <2> QED BY <2>3, <2>4
<1>6. CASE scn.tool[t] = "dump"
  <2>1. Exit(t, call) = DumpExit(call, scn.pause[t])
    BY <1>6 DEF Exit
  <2>2. CASE pc[t] = "setup"
    <3>1. /\ scn.pause[t] \in BOOLEAN /\ at[t] \in 1..Len(plan[t]) /\ call = plan[t][at[t]]
          /\ plan[t] = IF scn.pause[t] THEN <<"args", "mode", "init", "open", "pause", "size">>
                       ELSE <<"args", "mode", "init", "open", "size">>
          /\ held[t] = DumpHolds(at[t])
      BY <1>1, <1>6, <2>2, SetupCall DEF Current, Local, InSetup
    <3>2. \/ at[t] \in {1, 2, 3} /\ call \in {"args", "mode", "init"}
          \/ at[t] = 4 /\ call = "open"
          \/ at[t] = 5 /\ call = "pause"
      <4>1. CASE scn.pause[t]
        BY <2>2, <3>1, <4>1
      <4>2. CASE ~scn.pause[t]
        BY <2>2, <3>1, <4>2
      <4> QED BY <3>1, <4>1, <4>2
    <3>3. CASE at[t] \in {1, 2, 3} /\ call \in {"args", "mode", "init"}
      <4>1. plan'[t] = <<>> /\ held'[t] = {}
        BY <1>2, <2>1, <3>1, <3>3 DEF DumpExit, DumpHolds
      <4> QED BY <1>2, <4>1, Label
    <3>4. CASE at[t] = 4 /\ call = "open"
      <4>1. plan'[t] = <<"destroy">> /\ held'[t] = {"vmi"}
        BY <1>2, <2>1, <3>1, <3>4 DEF DumpExit, DumpHolds
      <4> QED BY <1>2, <4>1, Label
    <3>5. CASE at[t] = 5 /\ call = "pause"
      <4>1. plan'[t] = <<"close", "destroy">> /\ held'[t] = {"vmi", "file"}
        BY <1>2, <2>1, <3>1, <3>5 DEF DumpExit, DumpHolds
      <4> QED BY <1>2, <4>1, Label
    <3> QED BY <3>2, <3>3, <3>4, <3>5
  <2>3. CASE pc[t] = "walk"
    <3>1. held[t] = {"vmi", "file"} \cup (IF scn.pause[t] THEN {"pause"} ELSE {})
      BY <1>1, <1>6, <2>3 DEF Local, InWalk
    <3>2. CASE scn.pause[t]
      <4>1. plan'[t] = <<"resume", "close", "destroy">> /\ held'[t] = {"vmi", "file", "pause"}
        BY <1>2, <2>1, <2>3, <3>1, <3>2 DEF DumpExit
      <4> QED BY <1>2, <4>1, Label
    <3>3. CASE ~scn.pause[t]
      <4>1. plan'[t] = <<"close", "destroy">> /\ held'[t] = {"vmi", "file"}
        BY <1>2, <2>1, <2>3, <3>1, <3>3 DEF DumpExit
      <4> QED BY <1>2, <4>1, Label
    <3> QED BY <3>2, <3>3
  <2> QED BY <2>2, <2>3
<1> QED BY <1>5, <1>6

\* What a step must do, seen from outside, for the global parts to stay: nothing to the VM,
\* or pause it, or resume it on the way out.
LEMMA Globals ==
  ASSUME Inv, NEW t \in Tools, scn' = scn,
         \A u \in Tools \ {t} : pc'[u] = pc[u] /\ held'[u] = held[u],
         \A u \in Tools : seen'[u].torn = seen[u].torn,
         pc'[t] = "setup" => pc[t] = "setup",
         \A u \in Tools : pc[u] \in {"exit", "done"} =>
           /\ pc'[u] \in {"exit", "done"} /\ plan'[u] = plan[u]
           /\ at'[u] = at[u] \/ at'[u] = at[u] + 1,
         \/ vm' = vm /\ ("pause" \in held'[t] <=> "pause" \in held[t])
         \/ vm' = "paused" /\ "pause" \in held'[t] /\ pc[t] = "setup"
         \/ /\ "pause" \notin held'[t] /\ Resumed(t)'
            /\ vm' = "running" \/ (vm' = vm /\ "pause" \notin held[t])
  PROVE  (PausedBy /\ RunningBy /\ TornBy /\ Undisturbed)'
<1>1. Types
  BY DEF Inv
<1>2. \A u \in Tools : Left(u) => Left(u)'
  BY <1>1, LeftKept
<1>3. vm \in {"running", "paused"} /\ PausedBy /\ RunningBy /\ TornBy
      /\ \A u \in Tools : seen[u].torn /\ "pause" \in held[u] => Left(u)
  BY DEF Inv, Types, Undisturbed, Left
<1>4. PausedBy'
  BY <1>3 DEF PausedBy
<1>5. TornBy'
  BY <1>3 DEF TornBy, Resumed
<1>6. RunningBy'
  <2> SUFFICES ASSUME NEW u \in Tools, vm' = "running", "pause" \in held'[u] PROVE Left(u)'
    BY DEF RunningBy
  <2>1. CASE vm' = vm /\ ("pause" \in held'[t] <=> "pause" \in held[t])
    BY <1>2, <1>3, <2>1 DEF RunningBy
  <2>2. CASE vm' = "paused"
    BY <2>2
  <2>3. CASE "pause" \notin held'[t] /\ Resumed(t)'
    BY <2>3 DEF Left
  <2> QED BY <2>1, <2>2, <2>3
<1>7. Undisturbed'
  <2> SUFFICES ASSUME NEW u \in Tools, seen'[u].torn, "pause" \in held'[u] PROVE Left(u)'
    BY DEF Undisturbed, Left
  <2>1. CASE "pause" \in held[u]
    <3>1. Left(u)
      BY <1>3, <2>1
    <3> QED BY <1>2, <3>1
  <2>2. CASE "pause" \notin held[u]
    <3>1. u = t /\ pc[t] = "setup"
      BY <2>2
    <3>2. "pause" \in held[t]
      BY <1>3, <3>1 DEF TornBy
    <3> QED BY <2>2, <3>1, <3>2
  <2> QED BY <2>1, <2>2
<1> QED BY <1>4, <1>5, <1>6, <1>7

LEMMA SeenUpdate ==
  ASSUME NEW s, s = [mem |-> s.mem, torn |-> s.torn, cut |-> s.cut], NEW m, NEW c,
         NEW q, q = [[s EXCEPT !.mem = m] EXCEPT !.cut = c]
  PROVE  q = [mem |-> m, torn |-> s.torn, cut |-> c]
<1> DEFINE a == s.mem
           b == s.torn
           d == s.cut
<1>1. s = [mem |-> a, torn |-> b, cut |-> d]
  OBVIOUS
<1>2. q = [[[mem |-> a, torn |-> b, cut |-> d] EXCEPT !.mem = m] EXCEPT !.cut = c]
  BY <1>1, Zenon
<1> HIDE DEF a, b, d
<1>3. [[mem |-> a, torn |-> b, cut |-> d] EXCEPT !.mem = m] = [mem |-> m, torn |-> b, cut |-> d]
  OBVIOUS
<1>4. [[mem |-> m, torn |-> b, cut |-> d] EXCEPT !.cut = c] = [mem |-> m, torn |-> b, cut |-> c]
  OBVIOUS
<1>5. q = [mem |-> m, torn |-> b, cut |-> c]
  BY <1>2, <1>3, <1>4, Zenon
<1> QED BY <1>5 DEF b

\* Advance leaves whether the guest has stored alone.
LEMMA SeenAdvance ==
  ASSUME Types, NEW t \in Tools, NEW missed, Advance(t, missed)
  PROVE  /\ seen' = [u \in Tools |-> [mem |-> seen'[u].mem, torn |-> seen'[u].torn, cut |-> seen'[u].cut]]
         /\ \A u \in Tools : seen'[u].torn = seen[u].torn
<1>1. PICK m, c : seen' = [seen EXCEPT ![t].mem = m, ![t].cut = c]
  BY DEF Advance
<1>2. \A u \in Tools : seen[u] = [mem |-> seen[u].mem, torn |-> seen[u].torn, cut |-> seen[u].cut]
  BY DEF Types
<1>3. seen'[t] = [mem |-> m, torn |-> seen[t].torn, cut |-> c]
  <2>1. seen'[t] = [[seen[t] EXCEPT !.mem = m] EXCEPT !.cut = c]
    BY <1>1 DEF Types
  <2>2. seen[t] = [mem |-> seen[t].mem, torn |-> seen[t].torn, cut |-> seen[t].cut]
    BY <1>2
  <2> QED BY <2>1, <2>2, SeenUpdate
<1>4. \A u \in Tools \ {t} : seen'[u] = seen[u]
  BY <1>1 DEF Types
<1>5. \A u \in Tools : seen'[u].torn = seen[u].torn
  BY <1>3, <1>4
<1>6. \A u \in Tools : seen'[u] = [mem |-> seen'[u].mem, torn |-> seen'[u].torn, cut |-> seen'[u].cut]
  BY <1>2, <1>3, <1>4
<1>7. seen' = [u \in Tools |-> seen'[u]]
  BY <1>1 DEF Types
<1> QED BY <1>5, <1>6, <1>7

LEMMA CallInv == ASSUME Inv, NEW t \in Tools, Call(t) PROVE Inv'
<1>1. Types /\ pc[t] = "setup" /\ Advance(t, FALSE) /\ scn' = scn
  BY DEF Inv, Call
<1>2. held' = [held EXCEPT ![t] = @ \cup Acquired(Current(t))]
  BY DEF Call
<1>3. Acquired(Current(t)) \in SUBSET {"vmi", "file", "pause"}
  BY DEF Acquired
<1>4. Local(t)'
  BY <1>1, <1>2, AdvanceLocal
<1>5. /\ seen' = [u \in Tools |-> [mem |-> seen'[u].mem, torn |-> seen'[u].torn, cut |-> seen'[u].cut]]
      /\ \A u \in Tools : seen'[u].torn = seen[u].torn
  BY <1>1, SeenAdvance
<1>6. \A u \in Tools \ {t} : /\ pc'[u] = pc[u] /\ plan'[u] = plan[u]
                             /\ at'[u] = at[u] /\ held'[u] = held[u]
  BY <1>1, <1>2 DEF Advance, Types
<1>7. \A u \in Tools : Local(u)'
  BY <1>1, <1>4, <1>6, LocalFrame DEF Inv
<1>8. pc' \in [Tools -> {"setup", "walk", "exit", "done"}]
  BY <1>1 DEF Advance, Types
<1>9. held' \in [Tools -> SUBSET {"vmi", "file", "pause"}]
  BY <1>1, <1>2, <1>3 DEF Types
<1>10. vm' \in {"running", "paused"}
  BY <1>1 DEF Call, Pause, Types
<1>11. Types'
  <2>1. /\ scn' = scn /\ mem' = mem /\ stores' = stores /\ code' = code /\ plan' = plan
        /\ at' = [at EXCEPT ![t] = @ + 1]
    BY <1>1 DEF Call, Advance
  <2>2. at' \in [Tools -> Nat \ {0}]
    BY <1>1, <2>1 DEF Types
  <2> QED BY <1>1, <1>5, <1>8, <1>9, <1>10, <2>1, <2>2 DEF Types
<1>12. (PausedBy /\ RunningBy /\ TornBy /\ Undisturbed)'
  <2>1. CASE Current(t) = "pause"
    <3>1. vm' = "paused" /\ "pause" \in held'[t]
      BY <1>1, <1>2, <2>1 DEF Call, Pause, Acquired, Types
    <3> QED BY <1>1, <1>5, <1>6, <3>1, Globals
  <2>2. CASE Current(t) # "pause"
    <3>1. vm' = vm /\ ("pause" \in held'[t] <=> "pause" \in held[t])
      BY <1>1, <1>2, <2>2 DEF Call, Acquired, Types
    <3> QED BY <1>1, <1>5, <1>6, <3>1, Globals
  <2> QED BY <2>1, <2>2
<1> QED BY <1>7, <1>11, <1>12 DEF Inv

LEMMA MissInv == ASSUME Inv, NEW t \in Tools, Miss(t) PROVE Inv'
<1>1. Types /\ pc[t] = "setup" /\ Advance(t, TRUE) /\ scn' = scn /\ held' = held
      /\ scn.tool[t] = "module" /\ Current(t) \in {"pause", "symbol"}
  BY DEF Inv, Miss, Unchecked
<1>2. held' = [held EXCEPT ![t] = @ \cup {}]
  BY <1>1 DEF Types
<1>3. at[t] > 2
  <2>1. at[t] \in Nat \ {0} /\ (at[t] = 1 => Current(t) = "args") /\ (at[t] = 2 => Current(t) = "init")
    BY <1>1, SetupCall DEF Types
  <2> QED BY <1>1, <2>1
<1>4. Local(t)'
  BY <1>1, <1>2, <1>3, AdvanceLocal
<1>5. /\ seen' = [u \in Tools |-> [mem |-> seen'[u].mem, torn |-> seen'[u].torn, cut |-> seen'[u].cut]]
      /\ \A u \in Tools : seen'[u].torn = seen[u].torn
  BY <1>1, SeenAdvance
<1>6. \A u \in Tools \ {t} : /\ pc'[u] = pc[u] /\ plan'[u] = plan[u]
                             /\ at'[u] = at[u] /\ held'[u] = held[u]
  BY <1>1 DEF Advance, Types
<1>7. \A u \in Tools : Local(u)'
  BY <1>1, <1>4, <1>6, LocalFrame DEF Inv
<1>8. pc' \in [Tools -> {"setup", "walk", "exit", "done"}]
  BY <1>1 DEF Advance, Types
<1>9. Types'
  <2>1. /\ scn' = scn /\ mem' = mem /\ stores' = stores /\ code' = code /\ plan' = plan
        /\ at' = [at EXCEPT ![t] = @ + 1] /\ vm' = vm /\ held' = held
    BY <1>1 DEF Miss, Advance
  <2>2. at' \in [Tools -> Nat \ {0}]
    BY <1>1, <2>1 DEF Types
  <2> QED BY <1>1, <1>5, <1>8, <2>1, <2>2 DEF Types
<1>10. vm' = vm
  BY DEF Miss
<1>11. (PausedBy /\ RunningBy /\ TornBy /\ Undisturbed)'
  BY <1>1, <1>5, <1>6, <1>10, Globals
<1> QED BY <1>7, <1>9, <1>11 DEF Inv

LEMMA FailInv == ASSUME Inv, NEW t \in Tools, Fail(t) PROVE Inv'
<1>1. Types /\ pc[t] = "setup" /\ Current(t) # "size" /\ Goto(t, Exit(t, Current(t)))
      /\ pc' = [pc EXCEPT ![t] = "exit"]
      /\ scn' = scn /\ mem' = mem /\ vm' = vm /\ stores' = stores /\ held' = held /\ code' = code
      /\ seen' = seen
  BY DEF Inv, Fail
<1>2. InExit(t)' /\ plan' \in [Tools -> Seq(Calls)] /\ at' \in [Tools -> Nat \ {0}]
  BY <1>1, ExitCovers
<1>3. pc'[t] = "exit" /\ pc' \in [Tools -> {"setup", "walk", "exit", "done"}]
  BY <1>1 DEF Types
<1>4. Types'
  BY <1>1, <1>2, <1>3 DEF Types
<1>5. \A u \in Tools \ {t} : /\ pc'[u] = pc[u] /\ plan'[u] = plan[u]
                             /\ at'[u] = at[u] /\ held'[u] = held[u]
  BY <1>1 DEF Goto, Types
<1>6. Local(t)'
  BY <1>2, <1>3 DEF Local
<1>7. \A u \in Tools : Local(u)'
  BY <1>1, <1>5, <1>6, LocalFrame DEF Inv
<1>8. (PausedBy /\ RunningBy /\ TornBy /\ Undisturbed)'
  BY <1>1, <1>3, <1>5, Globals
<1> QED BY <1>4, <1>7, <1>8 DEF Inv

LEMMA WalkInv == ASSUME Inv, NEW t \in Tools, NEW fails, Walk(t, fails) PROVE Inv'
<1>1. Types /\ pc[t] = "walk"
      /\ scn' = scn /\ mem' = mem /\ vm' = vm /\ stores' = stores /\ held' = held /\ seen' = seen
  BY DEF Inv, Walk
<1>2. CASE pc' = pc /\ plan' = plan /\ at' = at /\ code' = code
  <2>1. Types'
    BY <1>1, <1>2 DEF Types
  <2>2. \A u \in Tools : Local(u)'
    BY <1>1, <1>2, LocalFrame DEF Inv
  <2>3. (PausedBy /\ RunningBy /\ TornBy /\ Undisturbed)'
    BY <1>1, <1>2, Globals
  <2> QED BY <2>1, <2>2, <2>3 DEF Inv
<1>3. CASE /\ pc' = [pc EXCEPT ![t] = "exit"]
           /\ Goto(t, Exit(t, "walk"))
           /\ \E c \in {0, 1} : code' = [code EXCEPT ![t] = c]
  <2>1. InExit(t)' /\ plan' \in [Tools -> Seq(Calls)] /\ at' \in [Tools -> Nat \ {0}]
    BY <1>1, <1>3, ExitCovers
  <2>2. pc'[t] = "exit" /\ pc' \in [Tools -> {"setup", "walk", "exit", "done"}]
    BY <1>1, <1>3 DEF Types
  <2>3. code' \in [Tools -> {0, 1}]
    BY <1>1, <1>3 DEF Types
  <2>4. Types'
    BY <1>1, <2>1, <2>2, <2>3 DEF Types
  <2>5. \A u \in Tools \ {t} : /\ pc'[u] = pc[u] /\ plan'[u] = plan[u]
                               /\ at'[u] = at[u] /\ held'[u] = held[u]
    BY <1>1, <1>3 DEF Goto, Types
  <2>6. Local(t)'
    BY <2>1, <2>2 DEF Local
  <2>7. \A u \in Tools : Local(u)'
    BY <1>1, <2>5, <2>6, LocalFrame DEF Inv
  <2>8. (PausedBy /\ RunningBy /\ TornBy /\ Undisturbed)'
    BY <1>1, <2>2, <2>5, Globals
  <2> QED BY <2>4, <2>7, <2>8 DEF Inv
<1>4. PICK s : IF s.st = "go" THEN UNCHANGED <<pc, plan, at, code>>
               ELSE /\ pc' = [pc EXCEPT ![t] = "exit"]
                    /\ Goto(t, Exit(t, "walk"))
                    /\ code' = [code EXCEPT ![t] = IF s.st = "ok" THEN 0 ELSE 1]
  BY DEF Walk
<1> QED BY <1>2, <1>3, <1>4

LEMMA LeaveInv == ASSUME Inv, NEW t \in Tools, Leave(t) PROVE Inv'
<1>1. /\ Types /\ pc[t] = "exit" /\ InExit(t) /\ at[t] <= Len(plan[t])
      /\ at' = [at EXCEPT ![t] = @ + 1]
      /\ scn' = scn /\ mem' = mem /\ stores' = stores /\ pc' = pc /\ plan' = plan /\ code' = code
      /\ seen' = seen
  BY DEF Inv, Local, Leave
<1>2. Len(plan[t]) \in Nat /\ at[t] \in 1..Len(plan[t]) /\ at'[t] = at[t] + 1
  BY <1>1 DEF Types
<1>3. Current(t) \in ExitCalls
  BY <1>1, <1>2 DEF InExit, Current
<1>4. held' = [held EXCEPT ![t] = @ \ {Frees(Current(t))}]
  <2>1. CASE Current(t) = "resume"
    BY <2>1 DEF Leave, Frees
  <2>2. CASE Current(t) = "close"
    BY <2>2 DEF Leave, Frees
  <2>3. CASE Current(t) = "destroy"
    BY <2>3 DEF Leave, Frees
  <2> QED BY <1>3, <2>1, <2>2, <2>3 DEF ExitCalls
<1>5. held'[t] = held[t] \ {Frees(Current(t))} /\ held[t] \in SUBSET {"vmi", "file", "pause"}
      /\ \A u \in Tools \ {t} : held'[u] = held[u] /\ at'[u] = at[u]
  BY <1>1, <1>4 DEF Types
<1>6. held'[t] \subseteq Rest(t)'
  <2> SUFFICES ASSUME NEW e \in held'[t] PROVE e \in Rest(t)'
    OBVIOUS
  <2>1. e \in held[t] /\ e # Frees(Current(t))
    BY <1>5
  <2>2. e \in Rest(t)
    BY <1>1, <2>1 DEF InExit
  <2>3. PICK k \in at[t]..Len(plan[t]) : e = Frees(plan[t][k])
    BY <2>2 DEF Rest
  <2>4. k # at[t]
    BY <2>1, <2>3 DEF Current
  <2>5. k \in at'[t]..Len(plan[t])
    BY <1>2, <2>3, <2>4
  <2> QED BY <1>1, <2>3, <2>5 DEF Rest
<1>7. "pause" \in held'[t] => "vmi" \in held'[t]
  <2> SUFFICES ASSUME "pause" \in held'[t] PROVE "vmi" \in held'[t]
    OBVIOUS
  <2>1. "vmi" \in held[t]
    BY <1>1, <1>5 DEF InExit
  <2>2. Current(t) # "destroy"
    <3> SUFFICES ASSUME Current(t) = "destroy" PROVE FALSE
      OBVIOUS
    <3>1. at[t] = Len(plan[t])
      BY <1>1, <1>2 DEF InExit, Current
    <3>2. Rest(t)' = {}
      BY <1>1, <1>2, <3>1 DEF Rest
    <3> QED BY <1>6, <3>2
  <2> QED BY <1>3, <1>5, <2>1, <2>2 DEF Frees, ExitCalls
<1>8. InExit(t)'
  BY <1>1, <1>2, <1>6, <1>7 DEF InExit
<1>9. \A u \in Tools : Local(u)'
  <2>1. Local(t)'
    BY <1>1, <1>8 DEF Local
  <2> QED BY <1>1, <1>5, <2>1, LocalFrame DEF Inv
<1>10. vm' = IF Current(t) = "resume" /\ "vmi" \in held[t] THEN "running" ELSE vm
  BY DEF Leave, Resume
<1>11. Types'
  <2>1. at' \in [Tools -> Nat \ {0}]
    BY <1>1 DEF Types
  <2>2. held' \in [Tools -> SUBSET {"vmi", "file", "pause"}]
    BY <1>1, <1>4, <1>5 DEF Types
  <2>3. vm' \in {"running", "paused"}
    BY <1>1, <1>10 DEF Types
  <2> QED BY <1>1, <2>1, <2>2, <2>3 DEF Types
<1>12. (PausedBy /\ RunningBy /\ TornBy /\ Undisturbed)'
  <2>0. \A u \in Tools : pc[u] \in {"exit", "done"} =>
          /\ pc'[u] \in {"exit", "done"} /\ plan'[u] = plan[u]
          /\ at'[u] = at[u] \/ at'[u] = at[u] + 1
    BY <1>1, <1>2, <1>5
  <2>1. CASE Current(t) = "resume"
    <3>1. "pause" \notin held'[t]
      BY <1>5, <2>1 DEF Frees
    <3>2. vm' = "running" \/ (vm' = vm /\ "pause" \notin held[t])
      BY <1>1, <1>10, <2>1 DEF InExit
    <3>3. at[t] \in 1..(at'[t] - 1) /\ plan'[t][at[t]] = "resume"
      BY <1>1, <1>2, <2>1 DEF Current
    <3>4. Resumed(t)'
      BY <1>1, <3>3 DEF Resumed
    <3> QED BY <1>1, <1>5, <2>0, <3>1, <3>2, <3>4, Globals
  <2>2. CASE Current(t) # "resume"
    <3>1. vm' = vm /\ ("pause" \in held'[t] <=> "pause" \in held[t])
      BY <1>3, <1>5, <1>10, <2>2 DEF Frees, ExitCalls
    <3> QED BY <1>1, <1>5, <2>0, <3>1, Globals
  <2> QED BY <2>1, <2>2
<1> QED BY <1>9, <1>11, <1>12 DEF Inv

LEMMA ReturnInv == ASSUME Inv, NEW t \in Tools, Return(t) PROVE Inv'
<1>1. /\ Types /\ pc[t] = "exit" /\ InExit(t) /\ at[t] > Len(plan[t])
      /\ pc' = [pc EXCEPT ![t] = "done"]
      /\ scn' = scn /\ mem' = mem /\ vm' = vm /\ stores' = stores /\ plan' = plan /\ at' = at
      /\ held' = held /\ code' = code /\ seen' = seen
  BY DEF Inv, Local, Return
<1>2. held[t] = {}
  <2>1. at[t] \in Nat /\ Len(plan[t]) \in Nat
    BY <1>1 DEF Types
  <2>2. Rest(t) = {}
    BY <1>1, <2>1 DEF Rest
  <2> QED BY <1>1, <2>2 DEF InExit
<1>3. pc'[t] = "done" /\ pc' \in [Tools -> {"setup", "walk", "exit", "done"}]
      /\ \A u \in Tools \ {t} : pc'[u] = pc[u]
  BY <1>1 DEF Types
<1>4. Types'
  BY <1>1, <1>3 DEF Types
<1>5. Local(t)'
  BY <1>1, <1>2, <1>3 DEF Local
<1>6. \A u \in Tools : Local(u)'
  BY <1>1, <1>3, <1>5, LocalFrame DEF Inv
<1>7. (PausedBy /\ RunningBy /\ TornBy /\ Undisturbed)'
  BY <1>1, <1>3, Globals
<1> QED BY <1>4, <1>6, <1>7 DEF Inv

\* One field of the history of one program changes.
LEMMA CutUpdate ==
  ASSUME NEW s, s = [mem |-> s.mem, torn |-> s.torn, cut |-> s.cut], NEW c,
         NEW q, q = [s EXCEPT !.cut = c]
  PROVE  q = [mem |-> s.mem, torn |-> s.torn, cut |-> c]
<1> DEFINE a == s.mem
           b == s.torn
           d == s.cut
<1>1. q = [[mem |-> a, torn |-> b, cut |-> d] EXCEPT !.cut = c]
  BY Zenon
<1> HIDE DEF a, b, d
<1>2. q = [mem |-> a, torn |-> b, cut |-> c]
  BY <1>1
<1> QED BY <1>2 DEF a, b
LEMMA TornUpdate ==
  ASSUME NEW s, s = [mem |-> s.mem, torn |-> s.torn, cut |-> s.cut], NEW c,
         NEW q, q = [s EXCEPT !.torn = c]
  PROVE  q = [mem |-> s.mem, torn |-> c, cut |-> s.cut]
<1> DEFINE a == s.mem
           b == s.torn
           d == s.cut
<1>1. q = [[mem |-> a, torn |-> b, cut |-> d] EXCEPT !.torn = c]
  BY Zenon
<1> HIDE DEF a, b, d
<1>2. q = [mem |-> a, torn |-> c, cut |-> d]
  BY <1>1
<1> QED BY <1>2 DEF a, d

LEMMA InterruptInv == ASSUME Inv, NEW t \in Tools, Interrupt(t) PROVE Inv'
<1>1. /\ Types /\ seen' = [seen EXCEPT ![t].cut = TRUE]
      /\ scn' = scn /\ mem' = mem /\ vm' = vm /\ stores' = stores /\ pc' = pc /\ plan' = plan
      /\ at' = at /\ held' = held /\ code' = code
  BY DEF Inv, Interrupt
<1>2. \A u \in Tools : seen[u] = [mem |-> seen[u].mem, torn |-> seen[u].torn, cut |-> seen[u].cut]
  BY <1>1 DEF Types
<1>3. seen'[t] = [mem |-> seen[t].mem, torn |-> seen[t].torn, cut |-> TRUE]
  <2>1. seen'[t] = [seen[t] EXCEPT !.cut = TRUE]
    BY <1>1 DEF Types
  <2> QED BY <1>2, <2>1, CutUpdate
<1>4. \A u \in Tools \ {t} : seen'[u] = seen[u]
  BY <1>1 DEF Types
<1>5. \A u \in Tools : seen'[u].torn = seen[u].torn
  BY <1>3, <1>4
<1>6. seen' = [u \in Tools |-> [mem |-> seen'[u].mem, torn |-> seen'[u].torn, cut |-> seen'[u].cut]]
  <2>1. \A u \in Tools : seen'[u] = [mem |-> seen'[u].mem, torn |-> seen'[u].torn, cut |-> seen'[u].cut]
    BY <1>2, <1>3, <1>4
  <2>2. seen' = [u \in Tools |-> seen'[u]]
    BY <1>1 DEF Types
  <2> QED BY <2>1, <2>2
<1>7. Types'
  BY <1>1, <1>6 DEF Types
<1>8. \A u \in Tools : Local(u)'
  BY <1>1, LocalFrame DEF Inv
<1>9. (PausedBy /\ RunningBy /\ TornBy /\ Undisturbed)'
  BY <1>1, <1>5, Globals
<1> QED BY <1>7, <1>8, <1>9 DEF Inv

\* The guest stores only while the VM runs, and then whoever holds a pause has been left.
LEMMA GuestInv == ASSUME Inv, Guest PROVE Inv'
<1>1. /\ Types /\ vm = "running" /\ stores < MaxStores /\ stores' = stores + 1
      /\ scn' = scn /\ vm' = vm /\ pc' = pc /\ plan' = plan
      /\ at' = at /\ held' = held /\ code' = code
      /\ seen' = [t \in Tools |->
                    [seen[t] EXCEPT !.torn = @ \/ "pause" \in held[t] \/ pc[t] = "walk"]]
  BY DEF Inv, Guest
<1>2. DOMAIN mem' = DOMAIN mem
  BY DEF Guest
<1>3. \A u \in Tools : seen[u] = [mem |-> seen[u].mem, torn |-> seen[u].torn, cut |-> seen[u].cut]
  BY <1>1 DEF Types
<1>4. ASSUME NEW u \in Tools
      PROVE  seen'[u] = [mem |-> seen[u].mem,
                         torn |-> seen[u].torn \/ "pause" \in held[u] \/ pc[u] = "walk",
                         cut |-> seen[u].cut]
  <2> DEFINE c == seen[u].torn \/ "pause" \in held[u] \/ pc[u] = "walk"
  <2>1. seen'[u] = [seen[u] EXCEPT !.torn = c]
    BY <1>1, Zenon
  <2> HIDE DEF c
  <2>2. seen'[u] = [mem |-> seen[u].mem, torn |-> c, cut |-> seen[u].cut]
    BY <1>3, <2>1, TornUpdate
  <2> QED BY <2>2 DEF c
<1>5. seen' = [u \in Tools |-> [mem |-> seen'[u].mem, torn |-> seen'[u].torn, cut |-> seen'[u].cut]]
  <2>1. \A u \in Tools : seen'[u] = [mem |-> seen'[u].mem, torn |-> seen'[u].torn, cut |-> seen'[u].cut]
    <3> SUFFICES ASSUME NEW u \in Tools
                 PROVE  seen'[u] = [mem |-> seen'[u].mem, torn |-> seen'[u].torn, cut |-> seen'[u].cut]
      OBVIOUS
    <3> DEFINE c == seen[u].torn \/ "pause" \in held[u] \/ pc[u] = "walk"
    <3>1. seen'[u] = [mem |-> seen[u].mem, torn |-> c, cut |-> seen[u].cut]
      BY <1>4
    <3> HIDE DEF c
    <3> QED BY <3>1
  <2>2. seen' = [u \in Tools |-> seen'[u]]
    BY <1>1
  <2> QED BY <2>1, <2>2
<1>6. \A u \in Tools : seen'[u].torn => seen[u].torn \/ "pause" \in held[u] \/ pc[u] = "walk"
  <2> SUFFICES ASSUME NEW u \in Tools, seen'[u].torn
               PROVE  seen[u].torn \/ "pause" \in held[u] \/ pc[u] = "walk"
    OBVIOUS
  <2> DEFINE c == seen[u].torn \/ "pause" \in held[u] \/ pc[u] = "walk"
  <2>1. seen'[u] = [mem |-> seen[u].mem, torn |-> c, cut |-> seen[u].cut]
    BY <1>4
  <2> HIDE DEF c
  <2>2. seen'[u].torn = c
    BY <2>1
  <2>3. c
    BY <2>2, Zenon
  <2> QED BY <2>3 DEF c
<1>7. Types'
  <2>1. stores' \in 0..MaxStores
    BY <1>1, ScnType DEF Types
  <2> QED BY <1>1, <1>2, <1>5, <2>1 DEF Types
<1>8. \A u \in Tools : Local(u)'
  BY <1>1, LocalFrame DEF Inv
<1>9. PausedBy' /\ RunningBy'
  <2>1. PausedBy /\ RunningBy
    BY DEF Inv
  <2> QED BY <1>1, <2>1 DEF PausedBy, RunningBy, Left, Resumed
<1>10. TornBy'
  <2>1. TornBy
    BY DEF Inv
  <2> SUFFICES ASSUME NEW u \in Tools, pc'[u] = "setup", seen'[u].torn PROVE "pause" \in held'[u]
    BY DEF TornBy
  <2>2. seen[u].torn \/ "pause" \in held[u]
    BY <1>1, <1>6
  <2> QED BY <1>1, <2>1, <2>2 DEF TornBy
<1>11. Undisturbed'
  <2> SUFFICES ASSUME NEW u \in Tools, "pause" \in held'[u] PROVE Left(u)'
    BY DEF Undisturbed, Left
  <2>1. Left(u)
    BY <1>1 DEF Inv, RunningBy
  <2> QED BY <1>1, <2>1 DEF Left, Resumed
<1> QED BY <1>7, <1>8, <1>9, <1>10, <1>11 DEF Inv

LEMMA NextInv == Inv /\ [Next]_vars => Inv'
<1> SUFFICES ASSUME Inv, [Next]_vars PROVE Inv'
  OBVIOUS
<1>1. CASE Guest
  BY <1>1, GuestInv
<1>2. ASSUME NEW t \in Tools, Call(t) PROVE Inv'
  BY <1>2, CallInv
<1>3. ASSUME NEW t \in Tools, Miss(t) PROVE Inv'
  BY <1>3, MissInv
<1>4. ASSUME NEW t \in Tools, Fail(t) PROVE Inv'
  BY <1>4, FailInv
<1>5. ASSUME NEW t \in Tools, NEW fails, Walk(t, fails) PROVE Inv'
  BY <1>5, WalkInv
<1>6. ASSUME NEW t \in Tools, Leave(t) PROVE Inv'
  BY <1>6, LeaveInv
<1>7. ASSUME NEW t \in Tools, Return(t) PROVE Inv'
  BY <1>7, ReturnInv
<1>8. ASSUME NEW t \in Tools, Interrupt(t) PROVE Inv'
  BY <1>8, InterruptInv
<1>9. CASE UNCHANGED vars
  <2>1. /\ scn' = scn /\ mem' = mem /\ vm' = vm /\ stores' = stores /\ pc' = pc /\ plan' = plan
        /\ at' = at /\ held' = held /\ code' = code /\ seen' = seen
    BY <1>9 DEF vars
  <2>2. Types'
    BY <2>1 DEF Inv, Types
  <2>3. \A t \in Tools : Local(t)'
    BY <2>1, LocalFrame DEF Inv
  <2>4. (PausedBy /\ RunningBy /\ TornBy /\ Undisturbed)'
    BY <2>1 DEF Inv, PausedBy, RunningBy, TornBy, Undisturbed, Left, Resumed
  <2> QED BY <2>2, <2>3, <2>4 DEF Inv
<1> QED BY <1>1, <1>2, <1>3, <1>4, <1>5, <1>6, <1>7, <1>8, <1>9 DEF Next, Tool, DiskFull

LEMMA InvHolds == Spec => []Inv
<1> QED BY InitInv, NextInv, PTL DEF Spec

-----------------------------------------------------------------------------
(* The theorems *)

\* Types, and no walk without an instance of LibVMI: every failing vmi_init_complete
\* jumps past the walk.
THEOREM ToolTypes == Spec => []TypeOK
<1>1. ASSUME Inv PROVE TypeOK
  <2>1. ASSUME NEW t \in Tools
        PROVE  /\ pc[t] = "setup" => at[t] <= Len(plan[t])
               /\ pc[t] = "walk" => "vmi" \in held[t]
    <3>1. Local(t)
      BY <1>1 DEF Inv
    <3>2. pc[t] = "walk" => "vmi" \in held[t]
      <4>1. CASE scn.tool[t] = "dump"
        BY <3>1, <4>1 DEF Local, InWalk
      <4>2. CASE scn.tool[t] # "dump"
        BY <3>1, <4>2 DEF Local, InWalk
      <4> QED BY <4>1, <4>2
    <3> QED BY <3>1, <3>2 DEF Local, InSetup
  <2> QED BY <1>1, <2>1 DEF Inv, Types, TypeOK
<1> QED BY <1>1, InvHolds, PTL

\* The kernel of the guest runs under a program that paused the VM only when another
\* program, at its exit label, has resumed it.
THEOREM PauseHolds == Spec => []Undisturbed
<1>1. Inv => Undisturbed
  BY DEF Inv
<1> QED BY <1>1, InvHolds, PTL

\* Whatever fails, the exit labels release all that was acquired and leave no VM paused
\* that was running before.
THEOREM AllReleased == Spec => []Released
<1>1. ASSUME Inv PROVE Released
  <2> SUFFICES ASSUME \A t \in Tools : pc[t] = "done"
               PROVE  /\ \A t \in Tools : held[t] = {}
                      /\ vm = "running" \/ scn.vm = "paused"
    BY DEF Released
  <2>1. \A t \in Tools : held[t] = {}
    BY <1>1 DEF Inv, Local
  <2>2. vm \in {"running", "paused"} /\ PausedBy
    BY <1>1 DEF Inv, Types
  <2> QED BY <2>1, <2>2 DEF PausedBy
<1> QED BY <1>1, InvHolds, PTL

\* dump-memory resumes only a VM whose pause it holds, also when pausing failed or was
\* not asked for.
THEOREM DumpRestraint == Spec => DumpKeepsPause
<1> DEFINE Kept == \A t \in Tools :
       scn.tool[t] = "dump" /\ at'[t] # at[t] /\ vm = "paused" /\ vm' = "running"
         => "pause" \in held[t]
<1>1. ASSUME Inv, [Next]_vars PROVE [Kept]_vars
  <2> SUFFICES ASSUME NEW t \in Tools, scn.tool[t] = "dump", at'[t] # at[t],
                      vm = "paused", vm' = "running"
               PROVE  "pause" \in held[t]
    OBVIOUS
  <2>1. PICK u \in Tools : Leave(u) /\ Current(u) = "resume"
    BY <1>1 DEF Next, Tool, DiskFull, vars, Guest, Call, Pause, Miss, Fail, Walk, Leave, Return, Interrupt
  <2>2. Types /\ pc[u] = "exit" /\ InExit(u) /\ at[u] <= Len(plan[u])
    BY <1>1, <2>1 DEF Inv, Local, Leave
  <2>3. u = t
    BY <2>1, <2>2 DEF Leave, Types
  <2>4. at[t] \in 1..Len(plan[t]) /\ Len(plan[t]) \in Nat
    BY <2>2, <2>3 DEF Types
  <2>5. at[t] = 1 /\ Len(plan[t]) > 0 /\ plan[t][1] = "resume"
    BY <2>1, <2>2, <2>3, <2>4 DEF InExit, Current
  <2> QED BY <2>2, <2>3, <2>5 DEF InExit
<1> QED BY <1>1, InvHolds, PTL DEF Spec, DumpKeepsPause
=============================================================================
