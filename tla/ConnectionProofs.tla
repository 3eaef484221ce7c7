------------------------- MODULE ConnectionProofs -------------------------
(***************************************************************************)
(* For any number of connections, any scenario, any failures and any       *)
(* operator: a connection that works on both sides agrees on its PSN.      *)
(***************************************************************************)
EXTENDS Connection, TLAPS

\* The server's memory is registered only after every QP was started again.
Serving == {"open", "write", "prompt2", "prompt8"}
Served == mr # "none" => spc \in Serving

\* No READ before the client comes to its poll loop.
Early == {"off", "connect", "wait", "regmem", "prompt1", "readfile", "post"}
Idle == cpc \in Early => rd.st = "idle"

\* Connections are established one after the other.
Fresh == cpc \in {"off", "connect", "wait"} => \A j \in Conns : j >= ci => cqp[j] = "none"

\* A dialogue that is under way is the client's at hand, and an accepted one the server's.
Dialogue ==
  \A i \in Conns :
    /\ cm[i] \in {"request", "reply"} => cpc = "wait" /\ ci = i
    /\ cm[i] = "reply" => spc = "await" /\ si = i /\ epsn[i] = cpsn[i]

\* QPs the second phase has not come to yet.
Ahead(j) == \/ spc \in {"start", "accept", "await"}
            \/ spc \in Queries \cup {"reset"} /\ j >= si
            \/ spc \in {"init", "rtr", "rts", "next"} /\ j > si
Untouched ==
  /\ \A j \in Conns : eps[j] = "ok" /\ Ahead(j) => sqp[j] \in {"RTS", "ERR"}
  /\ spc = "await" => sqp[si] \in {"RTS", "ERR"}

\* A PSN at which the server may go on with connection i.
InStep(psn, i) == psn = cpsn[i] \/ (Outstanding(i) /\ psn = rd.psn)
Sync == \A i \in Conns : sqp[i] \in Receiving \cup {"ERR"} /\ cqp[i] = "RTS" => InStep(epsn[i], i)

\* So is the PSN that was saved before the reset; nothing was before the QP was asked.
SavedInStep ==
  /\ spc \in {"queryRts", "reset", "init", "rtr"} /\ "queryRtr" \in asked /\ cqp[si] = "RTS"
     => InStep(saved, si)
  /\ spc \in {"start", "accept", "await", "query", "queryRtr"} => "queryRtr" \notin asked

\* The READ has a key and has taken one PSN; one that was answered was executed, which takes
\* memory.
Flight ==
  /\ cpc = "post" => objs # "none"
  /\ Outstanding(1) => cpsn[1] = Next24(rd.psn) /\ rd.key # "none"
  /\ rd.st = "answered" => epsn[1] = Next24(rd.psn) /\ spc \in Serving \cup Gone

Inv == /\ TypeOK /\ Served /\ Idle /\ Fresh /\ Dialogue /\ Untouched /\ Sync /\ SavedInStep /\ Flight

-----------------------------------------------------------------------------
LEMMA NextInPsns == \A psn \in Psns : Next24(psn) \in Psns
  BY ConnectionAssumption DEF Psns, Next24

LEMMA WordBounds == \A psn \in Psns : Register32(psn) \in {-1} \cup 0..(2 * AckBit - 1)
  BY ConnectionAssumption DEF Psns, Register32, AckBit

LEMMA InitTypes == Init => TypeOK
<1> SUFFICES ASSUME Init PROVE TypeOK
  OBVIOUS
<1> USE ConnectionAssumption DEF Init, Conns, Psns
<1>1. ServerTypes
  BY DEF ServerTypes
<1>2. QpTypes
  BY DEF QpTypes
<1>3. ClientTypes
  <2>1. 1 \in Conns /\ 0 \in Psns
    OBVIOUS
  <2>2. cmr \in BOOLEAN
    OBVIOUS
  <2> QED
    BY <2>1, <2>2 DEF ClientTypes
<1>4. ReadTypes
  BY DEF ReadTypes
<1>5. OperatorTypes
  BY DEF OperatorTypes
<1> QED
  BY <1>1, <1>2, <1>3, <1>4, <1>5 DEF TypeOK

LEMMA PushTypes ==
  ASSUME ServerTypes, NEW ep \in {"null", "ok"}, Push(ep) PROVE ServerTypes'
<1>1. eps' \in [Conns -> {"none", "null", "ok"}]
  BY DEF ServerTypes, Push
<1>2. si' \in Conns
  BY ConnectionAssumption DEF ServerTypes, Push, Conns
<1>3. spc' \in {"accept", "query"} /\ UNCHANGED <<asked, saved>>
  BY DEF Push
<1> QED
  BY <1>1, <1>2, <1>3 DEF ServerTypes, Queries

LEMMA ServerTypesStep == TypeOK /\ [Next]_vars => ServerTypes'
<1> SUFFICES ASSUME TypeOK, [Next]_vars PROVE ServerTypes'
  OBVIOUS
<1> USE ConnectionAssumption, NextInPsns DEF TypeOK, ServerTypes, Queries, Modifies, Gone, Conns, Psns
<1>1. CASE Listen
  BY <1>1 DEF Listen, ServerEnds, serverVars, qpVars, memoryVars, clientVars, operatorVars
<1>2. CASE Accept
  <2>1. CASE Push("null")
    BY <2>1, PushTypes DEF TypeOK
  <2>2. CASE spc' = "await" /\ UNCHANGED <<si, eps, asked, saved>>
    BY <2>2
  <2> QED
    BY <1>2, <2>1, <2>2 DEF Accept
<1>3. CASE Accepted
  <2>1. PICK ep \in {"null", "ok"} : Push(ep)
    BY <1>3 DEF Accepted
  <2> QED
    BY <2>1, PushTypes DEF TypeOK
<1>4. CASE Query
  <2>1. saved' \in Psns
    BY <1>4 DEF Query, QpTypes
  <2>2. asked' \subseteq Queries
    BY <1>4 DEF Query
  <2>3. spc' \in {"queryRtr", "queryRts", "reset"} /\ UNCHANGED <<si, eps>>
    BY <1>4 DEF Query, AfterCall
  <2> QED
    BY <2>1, <2>2, <2>3
<1>5. CASE Modify
  BY <1>5 DEF Modify, AfterCall, From, To, AskedBy, serverVars, qpVars, memoryVars, clientVars, operatorVars
<1>6. CASE NullEndpoint
  BY <1>6 DEF NullEndpoint, ServerEnds, serverVars, qpVars, memoryVars, clientVars, operatorVars
<1>7. CASE NextQp
  BY <1>7 DEF NextQp, serverVars, qpVars, memoryVars, clientVars, operatorVars
<1>8. CASE Register
  BY <1>8 DEF Register, ServerEnds, serverVars, qpVars, memoryVars, clientVars, operatorVars
<1>9. CASE OpenFile
  BY <1>9 DEF OpenFile, Opened, ServerEnds, serverVars, qpVars, memoryVars, clientVars, operatorVars
<1>10. CASE WriteFile
  BY <1>10 DEF WriteFile, serverVars, qpVars, memoryVars, clientVars, operatorVars
<1>11. CASE Connect
  BY <1>11 DEF Connect, ClientEnds, serverVars, qpVars, memoryVars, clientVars, operatorVars
<1>12. CASE Establish
  BY <1>12 DEF Establish, Connected, serverVars, qpVars, memoryVars, clientVars, operatorVars
<1>13. CASE RegMem
  BY <1>13 DEF RegMem, serverVars, qpVars, memoryVars, clientVars, operatorVars
<1>14. CASE ReadFile
  BY <1>14 DEF ReadFile, ClientEnds, serverVars, qpVars, memoryVars, clientVars, operatorVars
<1>15. CASE Post
  BY <1>15 DEF Post, ClientEnds, serverVars, qpVars, memoryVars, clientVars, operatorVars
<1>16. CASE Poll
  BY <1>16 DEF Poll, Completions, serverVars, qpVars, memoryVars, clientVars, operatorVars
<1>17. CASE GiveUp
  BY <1>17 DEF GiveUp, ClientEnds, serverVars, qpVars, memoryVars, clientVars, operatorVars
<1>18. CASE Execute
  BY <1>18 DEF Execute, Receiving, serverVars, qpVars, memoryVars, clientVars, operatorVars
<1>19. CASE Complete
  BY <1>19 DEF Complete, serverVars, qpVars, memoryVars, clientVars, operatorVars
<1>20. CASE Retry
  BY <1>20 DEF Retry, serverVars, qpVars, memoryVars, clientVars, operatorVars
<1>21. CASE LosePacket
  BY <1>21 DEF LosePacket, serverVars, qpVars, memoryVars, clientVars, operatorVars
<1>22. CASE StartClient
  BY <1>22 DEF StartClient, serverVars, qpVars, memoryVars, clientVars, operatorVars
<1>23. CASE CopyFile
  BY <1>23 DEF CopyFile, serverVars, qpVars, memoryVars, clientVars, operatorVars
<1>24. CASE Configure
  BY <1>24 DEF Configure, serverVars, qpVars, memoryVars, clientVars, operatorVars
<1>25. CASE Press1
  BY <1>25 DEF Press1, serverVars, qpVars, memoryVars, clientVars, operatorVars
<1>26. CASE Press2Client
  BY <1>26 DEF Press2Client, ClientEnds, serverVars, qpVars, memoryVars, clientVars, operatorVars
<1>27. CASE Press2Server
  BY <1>27 DEF Press2Server, serverVars, qpVars, memoryVars, clientVars, operatorVars
<1>28. CASE Press8
  BY <1>28 DEF Press8, ServerEnds, serverVars, qpVars, memoryVars, clientVars, operatorVars
<1>29. CASE UNCHANGED vars
  BY <1>29 DEF vars, serverVars, qpVars, memoryVars, clientVars, operatorVars
<1> QED
  BY <1>1, <1>2, <1>3, <1>4, <1>5, <1>6, <1>7, <1>8, <1>9, <1>10, <1>11, <1>12, <1>13, <1>14, <1>15, <1>16, <1>17, <1>18, <1>19, <1>20, <1>21, <1>22, <1>23, <1>24, <1>25, <1>26, <1>27, <1>28, <1>29 DEF Next, Server, Client, Nic, Operator

LEMMA QpTypesStep == TypeOK /\ [Next]_vars => QpTypes'
<1> SUFFICES ASSUME TypeOK, [Next]_vars PROVE QpTypes'
  OBVIOUS
<1> USE ConnectionAssumption, NextInPsns DEF TypeOK, QpTypes, QpTypes, Conns, Psns, Files
<1>1. CASE Listen
  BY <1>1 DEF Listen, ServerEnds, serverVars, qpVars, memoryVars, clientVars, operatorVars
<1>2. CASE Accept
  <2>1. si \in Conns /\ cpsn[si] \in Psns
    BY DEF ServerTypes, ClientTypes
  <2>2. UNCHANGED <<armed, mr, sfile>>
    BY <1>2 DEF Accept, memoryVars
  <2>3. CASE UNCHANGED <<sqp, epsn>>
    BY <2>2, <2>3
  <2>4. CASE sqp' = [sqp EXCEPT ![si] = "RTS"] /\ epsn' = [epsn EXCEPT ![si] = cpsn[si]]
    BY <2>1, <2>2, <2>4
  <2> QED
    BY <1>2, <2>3, <2>4 DEF Accept
<1>3. CASE Accepted
  BY <1>3 DEF Accepted, Push, serverVars, qpVars, memoryVars, clientVars, operatorVars
<1>4. CASE Query
  BY <1>4 DEF Query, AfterCall, serverVars, qpVars, memoryVars, clientVars, operatorVars
<1>5. CASE Modify
  <2>1. si \in Conns /\ saved \in Psns /\ 0 \in Psns /\ spc \in Modifies
    BY <1>5 DEF ServerTypes, Modify
  <2>2. UNCHANGED <<mr, sfile>>
    BY <1>5 DEF Modify, memoryVars
  <2>3. sqp' = [sqp EXCEPT ![si] = To[spc]] \/ sqp' = sqp
    BY <1>5 DEF Modify, qpVars
  <2>4. sqp' \in [Conns -> {"none", "RESET", "INIT", "RTR", "RTS", "ERR", "gone"}]
    <3>1. To[spc] \in {"RESET", "INIT", "RTR", "RTS"}
      BY <2>1 DEF To, Modifies
    <3> QED
      BY <2>1, <2>3, <3>1
  <2>5. \/ epsn' = [epsn EXCEPT ![si] = 0] \/ epsn' = [epsn EXCEPT ![si] = saved] \/ epsn' = epsn
    BY <1>5 DEF Modify, qpVars
  <2>6. epsn' \in [Conns -> Psns]
    BY <2>1, <2>5
  <2>7. \/ armed' = armed \ {si} \/ armed' = armed \cup {si} \/ armed' = armed
    BY <1>5 DEF Modify, qpVars
  <2>8. armed' \subseteq Conns
    BY <2>1, <2>7
  <2> QED
    BY <2>2, <2>4, <2>6, <2>8
<1>6. CASE NullEndpoint
  BY <1>6 DEF NullEndpoint, ServerEnds, serverVars, qpVars, memoryVars, clientVars, operatorVars
<1>7. CASE NextQp
  BY <1>7 DEF NextQp, serverVars, qpVars, memoryVars, clientVars, operatorVars
<1>8. CASE Register
  <2>1. scn.key \in {"old", "new"}
    BY DEF OperatorTypes
  <2> QED
    BY <1>8, <2>1 DEF Register, ServerEnds, qpVars
<1>9. CASE OpenFile
  BY <1>9 DEF OpenFile, Opened, ServerEnds, serverVars, qpVars, memoryVars, clientVars, operatorVars
<1>10. CASE WriteFile
  BY <1>10 DEF WriteFile, serverVars, qpVars, memoryVars, clientVars, operatorVars
<1>11. CASE Connect
  BY <1>11 DEF Connect, ClientEnds, serverVars, qpVars, memoryVars, clientVars, operatorVars
<1>12. CASE Establish
  BY <1>12 DEF Establish, Connected, serverVars, qpVars, memoryVars, clientVars, operatorVars
<1>13. CASE RegMem
  BY <1>13 DEF RegMem, serverVars, qpVars, memoryVars, clientVars, operatorVars
<1>14. CASE ReadFile
  BY <1>14 DEF ReadFile, ClientEnds, serverVars, qpVars, memoryVars, clientVars, operatorVars
<1>15. CASE Post
  BY <1>15 DEF Post, ClientEnds, serverVars, qpVars, memoryVars, clientVars, operatorVars
<1>16. CASE Poll
  BY <1>16 DEF Poll, Completions, serverVars, qpVars, memoryVars, clientVars, operatorVars
<1>17. CASE GiveUp
  BY <1>17 DEF GiveUp, ClientEnds, serverVars, qpVars, memoryVars, clientVars, operatorVars
<1>18. CASE Execute
  <2>1. Next24(rd.psn) \in Psns
    BY DEF ReadTypes
  <2>2. UNCHANGED <<armed, mr, sfile>>
    BY <1>18 DEF Execute, memoryVars
  <2>3. epsn' = [epsn EXCEPT ![1] = Next24(rd.psn)] \/ epsn' = epsn
    BY <1>18 DEF Execute
  <2>4. sqp' = [sqp EXCEPT ![1] = "ERR"] \/ sqp' = sqp
    BY <1>18 DEF Execute
  <2> QED
    BY <2>1, <2>2, <2>3, <2>4
<1>19. CASE Complete
  BY <1>19 DEF Complete, serverVars, qpVars, memoryVars, clientVars, operatorVars
<1>20. CASE Retry
  BY <1>20 DEF Retry, serverVars, qpVars, memoryVars, clientVars, operatorVars
<1>21. CASE LosePacket
  BY <1>21 DEF LosePacket, serverVars, qpVars, memoryVars, clientVars, operatorVars
<1>22. CASE StartClient
  BY <1>22 DEF StartClient, serverVars, qpVars, memoryVars, clientVars, operatorVars
<1>23. CASE CopyFile
  BY <1>23 DEF CopyFile, serverVars, qpVars, memoryVars, clientVars, operatorVars
<1>24. CASE Configure
  BY <1>24 DEF Configure, serverVars, qpVars, memoryVars, clientVars, operatorVars
<1>25. CASE Press1
  BY <1>25 DEF Press1, serverVars, qpVars, memoryVars, clientVars, operatorVars
<1>26. CASE Press2Client
  BY <1>26 DEF Press2Client, ClientEnds, serverVars, qpVars, memoryVars, clientVars, operatorVars
<1>27. CASE Press2Server
  BY <1>27 DEF Press2Server, serverVars, qpVars, memoryVars, clientVars, operatorVars
<1>28. CASE Press8
  BY <1>28 DEF Press8, ServerEnds, serverVars, qpVars, memoryVars, clientVars, operatorVars
<1>29. CASE UNCHANGED vars
  BY <1>29 DEF vars, serverVars, qpVars, memoryVars, clientVars, operatorVars
<1> QED
  BY <1>1, <1>2, <1>3, <1>4, <1>5, <1>6, <1>7, <1>8, <1>9, <1>10, <1>11, <1>12, <1>13, <1>14, <1>15, <1>16, <1>17, <1>18, <1>19, <1>20, <1>21, <1>22, <1>23, <1>24, <1>25, <1>26, <1>27, <1>28, <1>29 DEF Next, Server, Client, Nic, Operator

LEMMA ClientTypesStep == TypeOK /\ [Next]_vars => ClientTypes'
<1> SUFFICES ASSUME TypeOK, [Next]_vars PROVE ClientTypes'
  OBVIOUS
<1> USE ConnectionAssumption, NextInPsns DEF TypeOK, ClientTypes, Gone, Conns
<1>1. CASE Listen
  BY <1>1 DEF Listen, ServerEnds, serverVars, qpVars, memoryVars, clientVars, operatorVars
<1>2. CASE Accept
  BY <1>2 DEF Accept, Push, serverVars, qpVars, memoryVars, clientVars, operatorVars
<1>3. CASE Accepted
  BY <1>3 DEF Accepted, Push, serverVars, qpVars, memoryVars, clientVars, operatorVars
<1>4. CASE Query
  BY <1>4 DEF Query, AfterCall, serverVars, qpVars, memoryVars, clientVars, operatorVars
<1>5. CASE Modify
  BY <1>5 DEF Modify, AfterCall, From, To, AskedBy, serverVars, qpVars, memoryVars, clientVars, operatorVars
<1>6. CASE NullEndpoint
  BY <1>6 DEF NullEndpoint, ServerEnds, serverVars, qpVars, memoryVars, clientVars, operatorVars
<1>7. CASE NextQp
  BY <1>7 DEF NextQp, serverVars, qpVars, memoryVars, clientVars, operatorVars
<1>8. CASE Register
  BY <1>8 DEF Register, ServerEnds, serverVars, qpVars, memoryVars, clientVars, operatorVars
<1>9. CASE OpenFile
  BY <1>9 DEF OpenFile, Opened, ServerEnds, serverVars, qpVars, memoryVars, clientVars, operatorVars
<1>10. CASE WriteFile
  BY <1>10 DEF WriteFile, serverVars, qpVars, memoryVars, clientVars, operatorVars
<1>11. CASE Connect
  <2>1. CASE ClientEnds("crashed")
    BY <2>1 DEF ClientEnds
  <2>2. CASE ~ClientEnds("crashed")
    <3>1. PICK psn \in StartPsns[ci] : cpsn' = [cpsn EXCEPT ![ci] = psn]
      BY <1>11, <2>2 DEF Connect
    <3>2. psn \in Psns
      BY <3>1
    <3>3. cpsn' \in [Conns -> Psns]
      BY <3>1, <3>2
    <3>4. /\ cm' = [cm EXCEPT ![ci] = "request"] /\ cpc' = "wait"
          /\ UNCHANGED <<ci, cqp, cmr, objs>>
      BY <1>11, <2>2 DEF Connect
    <3> QED
      BY <3>3, <3>4
  <2> QED
    BY <2>1, <2>2
<1>12. CASE Establish
  BY <1>12 DEF Establish, Connected, serverVars, qpVars, memoryVars, clientVars, operatorVars
<1>13. CASE RegMem
  BY <1>13 DEF RegMem, serverVars, qpVars, memoryVars, clientVars, operatorVars
<1>14. CASE ReadFile
  BY <1>14 DEF ReadFile, ClientEnds, serverVars, qpVars, memoryVars, clientVars, operatorVars
<1>15. CASE Post
  <2>1. 1 \in Conns
    OBVIOUS
  <2>2. CASE ClientEnds("crashed")
    BY <2>2 DEF ClientEnds
  <2>3. CASE ~ClientEnds("crashed")
    <3>1. cpsn' = [cpsn EXCEPT ![1] = Next24(@)] /\ cpc' = "poll" /\ UNCHANGED <<ci, cqp, cmr, objs, cm>>
      BY <1>15, <2>3 DEF Post
    <3>2. cpsn' \in [Conns -> Psns]
      BY <2>1, <3>1
    <3> QED
      BY <3>1, <3>2
  <2> QED
    BY <2>2, <2>3
<1>16. CASE Poll
  BY <1>16 DEF Poll, Completions, serverVars, qpVars, memoryVars, clientVars, operatorVars
<1>17. CASE GiveUp
  BY <1>17 DEF GiveUp, ClientEnds, serverVars, qpVars, memoryVars, clientVars, operatorVars
<1>18. CASE Execute
  BY <1>18 DEF Execute, Receiving, serverVars, qpVars, memoryVars, clientVars, operatorVars
<1>19. CASE Complete
  BY <1>19 DEF Complete, serverVars, qpVars, memoryVars, clientVars, operatorVars
<1>20. CASE Retry
  BY <1>20 DEF Retry, serverVars, qpVars, memoryVars, clientVars, operatorVars
<1>21. CASE LosePacket
  BY <1>21 DEF LosePacket, serverVars, qpVars, memoryVars, clientVars, operatorVars
<1>22. CASE StartClient
  BY <1>22 DEF StartClient, serverVars, qpVars, memoryVars, clientVars, operatorVars
<1>23. CASE CopyFile
  BY <1>23 DEF CopyFile, serverVars, qpVars, memoryVars, clientVars, operatorVars
<1>24. CASE Configure
  BY <1>24 DEF Configure, serverVars, qpVars, memoryVars, clientVars, operatorVars
<1>25. CASE Press1
  BY <1>25 DEF Press1, serverVars, qpVars, memoryVars, clientVars, operatorVars
<1>26. CASE Press2Client
  BY <1>26 DEF Press2Client, ClientEnds, serverVars, qpVars, memoryVars, clientVars, operatorVars
<1>27. CASE Press2Server
  BY <1>27 DEF Press2Server, serverVars, qpVars, memoryVars, clientVars, operatorVars
<1>28. CASE Press8
  BY <1>28 DEF Press8, ServerEnds, serverVars, qpVars, memoryVars, clientVars, operatorVars
<1>29. CASE UNCHANGED vars
  BY <1>29 DEF vars, serverVars, qpVars, memoryVars, clientVars, operatorVars
<1> QED
  BY <1>1, <1>2, <1>3, <1>4, <1>5, <1>6, <1>7, <1>8, <1>9, <1>10, <1>11, <1>12, <1>13, <1>14, <1>15, <1>16, <1>17, <1>18, <1>19, <1>20, <1>21, <1>22, <1>23, <1>24, <1>25, <1>26, <1>27, <1>28, <1>29 DEF Next, Server, Client, Nic, Operator

LEMMA ReadTypesStep == TypeOK /\ [Next]_vars => ReadTypes'
<1> SUFFICES ASSUME TypeOK, [Next]_vars PROVE ReadTypes'
  OBVIOUS
<1> USE ConnectionAssumption, NextInPsns DEF TypeOK, ReadTypes
<1>1. CASE Listen
  BY <1>1 DEF Listen, ServerEnds, serverVars, qpVars, memoryVars, clientVars, operatorVars
<1>2. CASE Accept
  BY <1>2 DEF Accept, Push, serverVars, qpVars, memoryVars, clientVars, operatorVars
<1>3. CASE Accepted
  BY <1>3 DEF Accepted, Push, serverVars, qpVars, memoryVars, clientVars, operatorVars
<1>4. CASE Query
  BY <1>4 DEF Query, AfterCall, serverVars, qpVars, memoryVars, clientVars, operatorVars
<1>5. CASE Modify
  BY <1>5 DEF Modify, AfterCall, From, To, AskedBy, serverVars, qpVars, memoryVars, clientVars, operatorVars
<1>6. CASE NullEndpoint
  BY <1>6 DEF NullEndpoint, ServerEnds, serverVars, qpVars, memoryVars, clientVars, operatorVars
<1>7. CASE NextQp
  BY <1>7 DEF NextQp, serverVars, qpVars, memoryVars, clientVars, operatorVars
<1>8. CASE Register
  BY <1>8 DEF Register, ServerEnds, serverVars, qpVars, memoryVars, clientVars, operatorVars
<1>9. CASE OpenFile
  BY <1>9 DEF OpenFile, Opened, ServerEnds, serverVars, qpVars, memoryVars, clientVars, operatorVars
<1>10. CASE WriteFile
  BY <1>10 DEF WriteFile, serverVars, qpVars, memoryVars, clientVars, operatorVars
<1>11. CASE Connect
  BY <1>11 DEF Connect, ClientEnds, serverVars, qpVars, memoryVars, clientVars, operatorVars
<1>12. CASE Establish
  BY <1>12 DEF Establish, Connected, serverVars, qpVars, memoryVars, clientVars, operatorVars
<1>13. CASE RegMem
  BY <1>13 DEF RegMem, serverVars, qpVars, memoryVars, clientVars, operatorVars
<1>14. CASE ReadFile
  BY <1>14 DEF ReadFile, ClientEnds, serverVars, qpVars, memoryVars, clientVars, operatorVars
<1>15. CASE Post
  <2>1. cpsn[1] \in Psns /\ objs \in {"none", "old", "new"} /\ 0 \in 0..Retries
    BY DEF ClientTypes, Conns
  <2> QED
    BY <1>15, <2>1 DEF Post, ClientEnds
<1>16. CASE Poll
  BY <1>16 DEF Poll, Completions, serverVars, qpVars, memoryVars, clientVars, operatorVars
<1>17. CASE GiveUp
  BY <1>17 DEF GiveUp, ClientEnds, serverVars, qpVars, memoryVars, clientVars, operatorVars
<1>18. CASE Execute
  BY <1>18 DEF Execute, Receiving, serverVars, qpVars, memoryVars, clientVars, operatorVars
<1>19. CASE Complete
  BY <1>19 DEF Complete, serverVars, qpVars, memoryVars, clientVars, operatorVars
<1>20. CASE Retry
  <2>1. CASE rd.tries < Retries
    <3>1. rd.tries + 1 \in 0..Retries
      BY <2>1
    <3>2. rd' = [rd EXCEPT !.st = "sent", !.tries = rd.tries + 1]
      BY <1>20, <2>1 DEF Retry
    <3> QED
      BY <3>1, <3>2
  <2>2. CASE ~(rd.tries < Retries)
    BY <1>20, <2>2 DEF Retry
  <2> QED
    BY <2>1, <2>2
<1>21. CASE LosePacket
  BY <1>21 DEF LosePacket, serverVars, qpVars, memoryVars, clientVars, operatorVars
<1>22. CASE StartClient
  BY <1>22 DEF StartClient, serverVars, qpVars, memoryVars, clientVars, operatorVars
<1>23. CASE CopyFile
  BY <1>23 DEF CopyFile, serverVars, qpVars, memoryVars, clientVars, operatorVars
<1>24. CASE Configure
  BY <1>24 DEF Configure, serverVars, qpVars, memoryVars, clientVars, operatorVars
<1>25. CASE Press1
  BY <1>25 DEF Press1, serverVars, qpVars, memoryVars, clientVars, operatorVars
<1>26. CASE Press2Client
  BY <1>26 DEF Press2Client, ClientEnds, serverVars, qpVars, memoryVars, clientVars, operatorVars
<1>27. CASE Press2Server
  BY <1>27 DEF Press2Server, serverVars, qpVars, memoryVars, clientVars, operatorVars
<1>28. CASE Press8
  BY <1>28 DEF Press8, ServerEnds, serverVars, qpVars, memoryVars, clientVars, operatorVars
<1>29. CASE UNCHANGED vars
  BY <1>29 DEF vars, serverVars, qpVars, memoryVars, clientVars, operatorVars
<1> QED
  BY <1>1, <1>2, <1>3, <1>4, <1>5, <1>6, <1>7, <1>8, <1>9, <1>10, <1>11, <1>12, <1>13, <1>14, <1>15, <1>16, <1>17, <1>18, <1>19, <1>20, <1>21, <1>22, <1>23, <1>24, <1>25, <1>26, <1>27, <1>28, <1>29 DEF Next, Server, Client, Nic, Operator

LEMMA OperatorTypesStep == TypeOK /\ [Next]_vars => OperatorTypes'
<1> SUFFICES ASSUME TypeOK, [Next]_vars PROVE OperatorTypes'
  OBVIOUS
<1> USE ConnectionAssumption, NextInPsns DEF TypeOK, OperatorTypes, Works, Fails
<1>1. CASE Listen
  BY <1>1 DEF Listen, ServerEnds, serverVars, qpVars, memoryVars, clientVars, operatorVars
<1>2. CASE Accept
  BY <1>2 DEF Accept, Push, serverVars, qpVars, memoryVars, clientVars, operatorVars
<1>3. CASE Accepted
  BY <1>3 DEF Accepted, Push, serverVars, qpVars, memoryVars, clientVars, operatorVars
<1>4. CASE Query
  BY <1>4 DEF Query, AfterCall, serverVars, qpVars, memoryVars, clientVars, operatorVars
<1>5. CASE Modify
  BY <1>5 DEF Modify, AfterCall, From, To, AskedBy, serverVars, qpVars, memoryVars, clientVars, operatorVars
<1>6. CASE NullEndpoint
  BY <1>6 DEF NullEndpoint, ServerEnds, serverVars, qpVars, memoryVars, clientVars, operatorVars
<1>7. CASE NextQp
  BY <1>7 DEF NextQp, serverVars, qpVars, memoryVars, clientVars, operatorVars
<1>8. CASE Register
  BY <1>8 DEF Register, ServerEnds, serverVars, qpVars, memoryVars, clientVars, operatorVars
<1>9. CASE OpenFile
  BY <1>9 DEF OpenFile, Opened, ServerEnds, serverVars, qpVars, memoryVars, clientVars, operatorVars
<1>10. CASE WriteFile
  BY <1>10 DEF WriteFile, serverVars, qpVars, memoryVars, clientVars, operatorVars
<1>11. CASE Connect
  BY <1>11 DEF Connect, ClientEnds, serverVars, qpVars, memoryVars, clientVars, operatorVars
<1>12. CASE Establish
  BY <1>12 DEF Establish, Connected, serverVars, qpVars, memoryVars, clientVars, operatorVars
<1>13. CASE RegMem
  BY <1>13 DEF RegMem, serverVars, qpVars, memoryVars, clientVars, operatorVars
<1>14. CASE ReadFile
  BY <1>14 DEF ReadFile, ClientEnds, serverVars, qpVars, memoryVars, clientVars, operatorVars
<1>15. CASE Post
  BY <1>15 DEF Post, ClientEnds, serverVars, qpVars, memoryVars, clientVars, operatorVars
<1>16. CASE Poll
  BY <1>16 DEF Poll, Completions, serverVars, qpVars, memoryVars, clientVars, operatorVars
<1>17. CASE GiveUp
  BY <1>17 DEF GiveUp, ClientEnds, serverVars, qpVars, memoryVars, clientVars, operatorVars
<1>18. CASE Execute
  BY <1>18 DEF Execute, Receiving, serverVars, qpVars, memoryVars, clientVars, operatorVars
<1>19. CASE Complete
  BY <1>19 DEF Complete, serverVars, qpVars, memoryVars, clientVars, operatorVars
<1>20. CASE Retry
  BY <1>20 DEF Retry, serverVars, qpVars, memoryVars, clientVars, operatorVars
<1>21. CASE LosePacket
  BY <1>21 DEF LosePacket, serverVars, qpVars, memoryVars, clientVars, operatorVars
<1>22. CASE StartClient
  BY <1>22 DEF StartClient, serverVars, qpVars, memoryVars, clientVars, operatorVars
<1>23. CASE CopyFile
  BY <1>23 DEF CopyFile, QpTypes, clientVars, memoryVars
<1>24. CASE Configure
  <2>1. \A i \in Conns : cpsn[i] \in Psns
    BY DEF ClientTypes
  <2>2. cfg' \in [Conns -> {-1} \cup 0..(2 * AckBit - 1)]
    BY <1>24, <2>1, WordBounds DEF Configure
  <2>3. UNCHANGED <<scn, cfile, failures>> /\ did' = did \cup {"configured"}
    BY <1>24 DEF Configure
  <2> QED
    BY <2>2, <2>3
<1>25. CASE Press1
  BY <1>25 DEF Press1, serverVars, qpVars, memoryVars, clientVars, operatorVars
<1>26. CASE Press2Client
  BY <1>26 DEF Press2Client, ClientEnds, serverVars, qpVars, memoryVars, clientVars, operatorVars
<1>27. CASE Press2Server
  BY <1>27 DEF Press2Server, serverVars, qpVars, memoryVars, clientVars, operatorVars
<1>28. CASE Press8
  BY <1>28 DEF Press8, ServerEnds, serverVars, qpVars, memoryVars, clientVars, operatorVars
<1>29. CASE UNCHANGED vars
  BY <1>29 DEF vars, serverVars, qpVars, memoryVars, clientVars, operatorVars
<1> QED
  BY <1>1, <1>2, <1>3, <1>4, <1>5, <1>6, <1>7, <1>8, <1>9, <1>10, <1>11, <1>12, <1>13, <1>14, <1>15, <1>16, <1>17, <1>18, <1>19, <1>20, <1>21, <1>22, <1>23, <1>24, <1>25, <1>26, <1>27, <1>28, <1>29 DEF Next, Server, Client, Nic, Operator

LEMMA TypesStep == TypeOK /\ [Next]_vars => TypeOK'
  BY ServerTypesStep, QpTypesStep, ClientTypesStep, ReadTypesStep, OperatorTypesStep DEF TypeOK
LEMMA ServedStep == Inv /\ [Next]_vars => Served'
<1> SUFFICES ASSUME Inv, [Next]_vars PROVE Served'
  OBVIOUS
<1> USE DEF Inv, Served, Serving, Gone, Queries, Modifies
<1>1. CASE Listen
  BY <1>1 DEF Listen, ServerEnds, serverVars, qpVars, memoryVars, clientVars, operatorVars
<1>2. CASE Accept
  BY <1>2 DEF Accept, Push, serverVars, qpVars, memoryVars, clientVars, operatorVars
<1>3. CASE Accepted
  BY <1>3 DEF Accepted, Push, serverVars, qpVars, memoryVars, clientVars, operatorVars
<1>4. CASE Query
  BY <1>4 DEF Query, AfterCall, serverVars, qpVars, memoryVars, clientVars, operatorVars
<1>5. CASE Modify
  BY <1>5 DEF Modify, AfterCall, From, To, AskedBy, serverVars, qpVars, memoryVars, clientVars, operatorVars
<1>6. CASE NullEndpoint
  BY <1>6 DEF NullEndpoint, ServerEnds, serverVars, qpVars, memoryVars, clientVars, operatorVars
<1>7. CASE NextQp
  BY <1>7 DEF NextQp, serverVars, qpVars, memoryVars, clientVars, operatorVars
<1>8. CASE Register
  BY <1>8 DEF Register, ServerEnds, serverVars, qpVars, memoryVars, clientVars, operatorVars
<1>9. CASE OpenFile
  BY <1>9 DEF OpenFile, Opened, ServerEnds, serverVars, qpVars, memoryVars, clientVars, operatorVars
<1>10. CASE WriteFile
  BY <1>10 DEF WriteFile, serverVars, qpVars, memoryVars, clientVars, operatorVars
<1>11. CASE Connect
  BY <1>11 DEF Connect, ClientEnds, serverVars, qpVars, memoryVars, clientVars, operatorVars
<1>12. CASE Establish
  BY <1>12 DEF Establish, Connected, serverVars, qpVars, memoryVars, clientVars, operatorVars
<1>13. CASE RegMem
  BY <1>13 DEF RegMem, serverVars, qpVars, memoryVars, clientVars, operatorVars
<1>14. CASE ReadFile
  BY <1>14 DEF ReadFile, ClientEnds, serverVars, qpVars, memoryVars, clientVars, operatorVars
<1>15. CASE Post
  BY <1>15 DEF Post, ClientEnds, serverVars, qpVars, memoryVars, clientVars, operatorVars
<1>16. CASE Poll
  BY <1>16 DEF Poll, Completions, serverVars, qpVars, memoryVars, clientVars, operatorVars
<1>17. CASE GiveUp
  BY <1>17 DEF GiveUp, ClientEnds, serverVars, qpVars, memoryVars, clientVars, operatorVars
<1>18. CASE Execute
  BY <1>18 DEF Execute, Receiving, serverVars, qpVars, memoryVars, clientVars, operatorVars
<1>19. CASE Complete
  BY <1>19 DEF Complete, serverVars, qpVars, memoryVars, clientVars, operatorVars
<1>20. CASE Retry
  BY <1>20 DEF Retry, serverVars, qpVars, memoryVars, clientVars, operatorVars
<1>21. CASE LosePacket
  BY <1>21 DEF LosePacket, serverVars, qpVars, memoryVars, clientVars, operatorVars
<1>22. CASE StartClient
  BY <1>22 DEF StartClient, serverVars, qpVars, memoryVars, clientVars, operatorVars
<1>23. CASE CopyFile
  BY <1>23 DEF CopyFile, serverVars, qpVars, memoryVars, clientVars, operatorVars
<1>24. CASE Configure
  BY <1>24 DEF Configure, serverVars, qpVars, memoryVars, clientVars, operatorVars
<1>25. CASE Press1
  BY <1>25 DEF Press1, serverVars, qpVars, memoryVars, clientVars, operatorVars
<1>26. CASE Press2Client
  BY <1>26 DEF Press2Client, ClientEnds, serverVars, qpVars, memoryVars, clientVars, operatorVars
<1>27. CASE Press2Server
  BY <1>27 DEF Press2Server, serverVars, qpVars, memoryVars, clientVars, operatorVars
<1>28. CASE Press8
  BY <1>28 DEF Press8, ServerEnds, serverVars, qpVars, memoryVars, clientVars, operatorVars
<1>29. CASE UNCHANGED vars
  BY <1>29 DEF vars, serverVars, qpVars, memoryVars, clientVars, operatorVars
<1> QED
  BY <1>1, <1>2, <1>3, <1>4, <1>5, <1>6, <1>7, <1>8, <1>9, <1>10, <1>11, <1>12, <1>13, <1>14, <1>15, <1>16, <1>17, <1>18, <1>19, <1>20, <1>21, <1>22, <1>23, <1>24, <1>25, <1>26, <1>27, <1>28, <1>29 DEF Next, Server, Client, Nic, Operator

LEMMA IdleStep == Inv /\ [Next]_vars => Idle'
<1> SUFFICES ASSUME Inv, [Next]_vars PROVE Idle'
  OBVIOUS
<1> USE DEF Inv, Idle, Early, Gone
<1>1. CASE Listen
  BY <1>1 DEF Listen, ServerEnds, serverVars, qpVars, memoryVars, clientVars, operatorVars
<1>2. CASE Accept
  BY <1>2 DEF Accept, Push, serverVars, qpVars, memoryVars, clientVars, operatorVars
<1>3. CASE Accepted
  BY <1>3 DEF Accepted, Push, serverVars, qpVars, memoryVars, clientVars, operatorVars
<1>4. CASE Query
  BY <1>4 DEF Query, AfterCall, serverVars, qpVars, memoryVars, clientVars, operatorVars
<1>5. CASE Modify
  BY <1>5 DEF Modify, AfterCall, From, To, AskedBy, serverVars, qpVars, memoryVars, clientVars, operatorVars
<1>6. CASE NullEndpoint
  BY <1>6 DEF NullEndpoint, ServerEnds, serverVars, qpVars, memoryVars, clientVars, operatorVars
<1>7. CASE NextQp
  BY <1>7 DEF NextQp, serverVars, qpVars, memoryVars, clientVars, operatorVars
<1>8. CASE Register
  BY <1>8 DEF Register, ServerEnds, serverVars, qpVars, memoryVars, clientVars, operatorVars
<1>9. CASE OpenFile
  BY <1>9 DEF OpenFile, Opened, ServerEnds, serverVars, qpVars, memoryVars, clientVars, operatorVars
<1>10. CASE WriteFile
  BY <1>10 DEF WriteFile, serverVars, qpVars, memoryVars, clientVars, operatorVars
<1>11. CASE Connect
  BY <1>11 DEF Connect, ClientEnds, serverVars, qpVars, memoryVars, clientVars, operatorVars
<1>12. CASE Establish
  BY <1>12 DEF Establish, Connected, serverVars, qpVars, memoryVars, clientVars, operatorVars
<1>13. CASE RegMem
  BY <1>13 DEF RegMem, serverVars, qpVars, memoryVars, clientVars, operatorVars
<1>14. CASE ReadFile
  BY <1>14 DEF ReadFile, ClientEnds, serverVars, qpVars, memoryVars, clientVars, operatorVars
<1>15. CASE Post
  BY <1>15 DEF Post, ClientEnds, serverVars, qpVars, memoryVars, clientVars, operatorVars
<1>16. CASE Poll
  BY <1>16 DEF Poll, Completions, serverVars, qpVars, memoryVars, clientVars, operatorVars
<1>17. CASE GiveUp
  BY <1>17 DEF GiveUp, ClientEnds, serverVars, qpVars, memoryVars, clientVars, operatorVars
<1>18. CASE Execute
  BY <1>18 DEF Execute, Receiving, serverVars, qpVars, memoryVars, clientVars, operatorVars
<1>19. CASE Complete
  BY <1>19 DEF Complete, serverVars, qpVars, memoryVars, clientVars, operatorVars
<1>20. CASE Retry
  BY <1>20 DEF Retry, serverVars, qpVars, memoryVars, clientVars, operatorVars
<1>21. CASE LosePacket
  BY <1>21 DEF LosePacket, serverVars, qpVars, memoryVars, clientVars, operatorVars
<1>22. CASE StartClient
  BY <1>22 DEF StartClient, serverVars, qpVars, memoryVars, clientVars, operatorVars
<1>23. CASE CopyFile
  BY <1>23 DEF CopyFile, serverVars, qpVars, memoryVars, clientVars, operatorVars
<1>24. CASE Configure
  BY <1>24 DEF Configure, serverVars, qpVars, memoryVars, clientVars, operatorVars
<1>25. CASE Press1
  BY <1>25 DEF Press1, serverVars, qpVars, memoryVars, clientVars, operatorVars
<1>26. CASE Press2Client
  BY <1>26 DEF Press2Client, ClientEnds, serverVars, qpVars, memoryVars, clientVars, operatorVars
<1>27. CASE Press2Server
  BY <1>27 DEF Press2Server, serverVars, qpVars, memoryVars, clientVars, operatorVars
<1>28. CASE Press8
  BY <1>28 DEF Press8, ServerEnds, serverVars, qpVars, memoryVars, clientVars, operatorVars
<1>29. CASE UNCHANGED vars
  BY <1>29 DEF vars, serverVars, qpVars, memoryVars, clientVars, operatorVars
<1> QED
  BY <1>1, <1>2, <1>3, <1>4, <1>5, <1>6, <1>7, <1>8, <1>9, <1>10, <1>11, <1>12, <1>13, <1>14, <1>15, <1>16, <1>17, <1>18, <1>19, <1>20, <1>21, <1>22, <1>23, <1>24, <1>25, <1>26, <1>27, <1>28, <1>29 DEF Next, Server, Client, Nic, Operator

LEMMA FreshStep == Inv /\ [Next]_vars => Fresh'
<1> SUFFICES ASSUME Inv, [Next]_vars PROVE Fresh'
  OBVIOUS
<1> USE DEF Inv, Fresh, Gone, Idle, Early, TypeOK, ClientTypes, Conns
<1>1. CASE Listen
  BY <1>1 DEF Listen, ServerEnds, serverVars, qpVars, memoryVars, clientVars, operatorVars
<1>2. CASE Accept
  BY <1>2 DEF Accept, Push, serverVars, qpVars, memoryVars, clientVars, operatorVars
<1>3. CASE Accepted
  BY <1>3 DEF Accepted, Push, serverVars, qpVars, memoryVars, clientVars, operatorVars
<1>4. CASE Query
  BY <1>4 DEF Query, AfterCall, serverVars, qpVars, memoryVars, clientVars, operatorVars
<1>5. CASE Modify
  BY <1>5 DEF Modify, AfterCall, From, To, AskedBy, serverVars, qpVars, memoryVars, clientVars, operatorVars
<1>6. CASE NullEndpoint
  BY <1>6 DEF NullEndpoint, ServerEnds, serverVars, qpVars, memoryVars, clientVars, operatorVars
<1>7. CASE NextQp
  BY <1>7 DEF NextQp, serverVars, qpVars, memoryVars, clientVars, operatorVars
<1>8. CASE Register
  BY <1>8 DEF Register, ServerEnds, serverVars, qpVars, memoryVars, clientVars, operatorVars
<1>9. CASE OpenFile
  BY <1>9 DEF OpenFile, Opened, ServerEnds, serverVars, qpVars, memoryVars, clientVars, operatorVars
<1>10. CASE WriteFile
  BY <1>10 DEF WriteFile, serverVars, qpVars, memoryVars, clientVars, operatorVars
<1>11. CASE Connect
  BY <1>11 DEF Connect, ClientEnds, serverVars, qpVars, memoryVars, clientVars, operatorVars
<1>12. CASE Establish
  BY <1>12 DEF Establish, Connected, serverVars, qpVars, memoryVars, clientVars, operatorVars
<1>13. CASE RegMem
  BY <1>13 DEF RegMem, serverVars, qpVars, memoryVars, clientVars, operatorVars
<1>14. CASE ReadFile
  BY <1>14 DEF ReadFile, ClientEnds, serverVars, qpVars, memoryVars, clientVars, operatorVars
<1>15. CASE Post
  BY <1>15 DEF Post, ClientEnds, serverVars, qpVars, memoryVars, clientVars, operatorVars
<1>16. CASE Poll
  BY <1>16 DEF Poll, Completions, serverVars, qpVars, memoryVars, clientVars, operatorVars
<1>17. CASE GiveUp
  BY <1>17 DEF GiveUp, ClientEnds, serverVars, qpVars, memoryVars, clientVars, operatorVars
<1>18. CASE Execute
  BY <1>18 DEF Execute, Receiving, serverVars, qpVars, memoryVars, clientVars, operatorVars
<1>19. CASE Complete
  BY <1>19 DEF Complete, serverVars, qpVars, memoryVars, clientVars, operatorVars
<1>20. CASE Retry
  BY <1>20 DEF Retry, serverVars, qpVars, memoryVars, clientVars, operatorVars
<1>21. CASE LosePacket
  BY <1>21 DEF LosePacket, serverVars, qpVars, memoryVars, clientVars, operatorVars
<1>22. CASE StartClient
  BY <1>22 DEF StartClient, serverVars, qpVars, memoryVars, clientVars, operatorVars
<1>23. CASE CopyFile
  BY <1>23 DEF CopyFile, serverVars, qpVars, memoryVars, clientVars, operatorVars
<1>24. CASE Configure
  BY <1>24 DEF Configure, serverVars, qpVars, memoryVars, clientVars, operatorVars
<1>25. CASE Press1
  BY <1>25 DEF Press1, serverVars, qpVars, memoryVars, clientVars, operatorVars
<1>26. CASE Press2Client
  BY <1>26 DEF Press2Client, ClientEnds, serverVars, qpVars, memoryVars, clientVars, operatorVars
<1>27. CASE Press2Server
  BY <1>27 DEF Press2Server, serverVars, qpVars, memoryVars, clientVars, operatorVars
<1>28. CASE Press8
  BY <1>28 DEF Press8, ServerEnds, serverVars, qpVars, memoryVars, clientVars, operatorVars
<1>29. CASE UNCHANGED vars
  BY <1>29 DEF vars, serverVars, qpVars, memoryVars, clientVars, operatorVars
<1> QED
  BY <1>1, <1>2, <1>3, <1>4, <1>5, <1>6, <1>7, <1>8, <1>9, <1>10, <1>11, <1>12, <1>13, <1>14, <1>15, <1>16, <1>17, <1>18, <1>19, <1>20, <1>21, <1>22, <1>23, <1>24, <1>25, <1>26, <1>27, <1>28, <1>29 DEF Next, Server, Client, Nic, Operator

LEMMA DialogueStep == Inv /\ [Next]_vars => Dialogue'
<1> SUFFICES ASSUME Inv, [Next]_vars PROVE Dialogue'
  OBVIOUS
<1> USE DEF Inv, Dialogue, Idle, Early, Gone, Fresh, TypeOK, ClientTypes
<1>1. CASE Listen
  BY <1>1 DEF Listen, ServerEnds, serverVars, qpVars, memoryVars, clientVars, operatorVars
<1>2. CASE Accept
  <2>1. spc = "accept" /\ UNCHANGED <<cpc, ci, cpsn>> /\ si \in Conns
    BY <1>2 DEF Accept, clientVars, ServerTypes
  <2>2. \A i \in Conns : cm[i] # "reply"
    BY <2>1
  <2>3. CASE UNCHANGED <<cm, epsn>>
    BY <2>1, <2>2, <2>3
  <2>4. CASE cm[si] # "request" /\ cm' = cm
    BY <2>1, <2>2, <2>4
  <2>5. CASE /\ cm[si] = "request" /\ cm' = [cm EXCEPT ![si] = "reply"]
             /\ epsn' = [epsn EXCEPT ![si] = cpsn[si]] /\ spc' = "await" /\ si' = si
    BY <2>1, <2>2, <2>5 DEF QpTypes
  <2> QED
    BY <1>2, <2>3, <2>4, <2>5 DEF Accept
<1>3. CASE Accepted
  BY <1>3 DEF Accepted, Push, serverVars, qpVars, memoryVars, clientVars, operatorVars
<1>4. CASE Query
  <2>1. spc # "await" /\ UNCHANGED <<cm, cpc, ci>>
    BY <1>4 DEF Query, clientVars, Queries
  <2> QED
    BY <2>1
<1>5. CASE Modify
  <2>1. spc # "await" /\ UNCHANGED <<cm, cpc, ci>>
    BY <1>5 DEF Modify, clientVars, Modifies
  <2> QED
    BY <2>1
<1>6. CASE NullEndpoint
  <2>1. spc # "await" /\ UNCHANGED <<cm, cpc, ci>>
    BY <1>6 DEF NullEndpoint, clientVars, Queries
  <2> QED
    BY <2>1
<1>7. CASE NextQp
  BY <1>7 DEF NextQp, serverVars, qpVars, memoryVars, clientVars, operatorVars
<1>8. CASE Register
  BY <1>8 DEF Register, ServerEnds, serverVars, qpVars, memoryVars, clientVars, operatorVars
<1>9. CASE OpenFile
  BY <1>9 DEF OpenFile, Opened, ServerEnds, serverVars, qpVars, memoryVars, clientVars, operatorVars
<1>10. CASE WriteFile
  BY <1>10 DEF WriteFile, serverVars, qpVars, memoryVars, clientVars, operatorVars
<1>11. CASE Connect
  BY <1>11 DEF Connect, ClientEnds, serverVars, qpVars, memoryVars, clientVars, operatorVars
<1>12. CASE Establish
  BY <1>12 DEF Establish, Connected, serverVars, qpVars, memoryVars, clientVars, operatorVars
<1>13. CASE RegMem
  BY <1>13 DEF RegMem, serverVars, qpVars, memoryVars, clientVars, operatorVars
<1>14. CASE ReadFile
  BY <1>14 DEF ReadFile, ClientEnds, serverVars, qpVars, memoryVars, clientVars, operatorVars
<1>15. CASE Post
  BY <1>15 DEF Post, ClientEnds, serverVars, qpVars, memoryVars, clientVars, operatorVars
<1>16. CASE Poll
  BY <1>16 DEF Poll, Completions, serverVars, qpVars, memoryVars, clientVars, operatorVars
<1>17. CASE GiveUp
  BY <1>17 DEF GiveUp, ClientEnds, serverVars, qpVars, memoryVars, clientVars, operatorVars
<1>18. CASE Execute
  BY <1>18 DEF Execute, Receiving, serverVars, qpVars, memoryVars, clientVars, operatorVars
<1>19. CASE Complete
  BY <1>19 DEF Complete, serverVars, qpVars, memoryVars, clientVars, operatorVars
<1>20. CASE Retry
  BY <1>20 DEF Retry, serverVars, qpVars, memoryVars, clientVars, operatorVars
<1>21. CASE LosePacket
  BY <1>21 DEF LosePacket, serverVars, qpVars, memoryVars, clientVars, operatorVars
<1>22. CASE StartClient
  BY <1>22 DEF StartClient, serverVars, qpVars, memoryVars, clientVars, operatorVars
<1>23. CASE CopyFile
  BY <1>23 DEF CopyFile, serverVars, qpVars, memoryVars, clientVars, operatorVars
<1>24. CASE Configure
  BY <1>24 DEF Configure, serverVars, qpVars, memoryVars, clientVars, operatorVars
<1>25. CASE Press1
  BY <1>25 DEF Press1, serverVars, qpVars, memoryVars, clientVars, operatorVars
<1>26. CASE Press2Client
  BY <1>26 DEF Press2Client, ClientEnds, serverVars, qpVars, memoryVars, clientVars, operatorVars
<1>27. CASE Press2Server
  BY <1>27 DEF Press2Server, serverVars, qpVars, memoryVars, clientVars, operatorVars
<1>28. CASE Press8
  BY <1>28 DEF Press8, ServerEnds, serverVars, qpVars, memoryVars, clientVars, operatorVars
<1>29. CASE UNCHANGED vars
  BY <1>29 DEF vars, serverVars, qpVars, memoryVars, clientVars, operatorVars
<1> QED
  BY <1>1, <1>2, <1>3, <1>4, <1>5, <1>6, <1>7, <1>8, <1>9, <1>10, <1>11, <1>12, <1>13, <1>14, <1>15, <1>16, <1>17, <1>18, <1>19, <1>20, <1>21, <1>22, <1>23, <1>24, <1>25, <1>26, <1>27, <1>28, <1>29 DEF Next, Server, Client, Nic, Operator

LEMMA UntouchedStep == Inv /\ [Next]_vars => Untouched'
<1> SUFFICES ASSUME Inv, [Next]_vars PROVE Untouched'
  OBVIOUS
<1> USE DEF Inv, Untouched, Ahead, Queries, Modifies, Gone, TypeOK, ServerTypes, QpTypes
<1>1. CASE Listen
  BY <1>1 DEF Listen, ServerEnds, serverVars, qpVars, memoryVars, clientVars, operatorVars
<1>2. CASE Accept
  BY <1>2 DEF Accept, Push, serverVars, qpVars, memoryVars, clientVars, operatorVars
<1>3. CASE Accepted
  BY <1>3 DEF Accepted, Push, serverVars, qpVars, memoryVars, clientVars, operatorVars
<1>4. CASE Query
  BY <1>4 DEF Query, AfterCall, serverVars, qpVars, memoryVars, clientVars, operatorVars
<1>5. CASE Modify
  <2>1. spc \in Modifies /\ spc' \in {"init", "rtr", "rts", "next"} /\ UNCHANGED <<si, eps>>
    BY <1>5 DEF Modify, AfterCall
  <2>2. \A j \in Conns : j > si => sqp'[j] = sqp[j]
    <3>1. sqp' = [sqp EXCEPT ![si] = To[spc]] \/ sqp' = sqp
      BY <1>5 DEF Modify, qpVars
    <3>2. \A j \in Conns : j > si => j # si
      BY DEF Conns
    <3> QED
      BY <3>1, <3>2
  <2>3. \A j \in Conns : Ahead(j)' => j > si /\ Ahead(j)
    BY <2>1 DEF Conns
  <2> QED
    BY <2>1, <2>2, <2>3
<1>6. CASE NullEndpoint
  BY <1>6 DEF NullEndpoint, ServerEnds, serverVars, qpVars, memoryVars, clientVars, operatorVars
<1>7. CASE NextQp
  <2>1. spc = "next" /\ UNCHANGED <<eps, sqp>>
    BY <1>7 DEF NextQp, qpVars
  <2>2. \/ si' = si + 1 /\ spc' = "query"
        \/ spc' = "register"
    BY <1>7 DEF NextQp
  <2>3. \A j \in Conns : Ahead(j)' => Ahead(j)
    BY <2>1, <2>2 DEF Conns
  <2> QED
    BY <2>1, <2>2, <2>3
<1>8. CASE Register
  BY <1>8 DEF Register, ServerEnds, serverVars, qpVars, memoryVars, clientVars, operatorVars
<1>9. CASE OpenFile
  BY <1>9 DEF OpenFile, Opened, ServerEnds, serverVars, qpVars, memoryVars, clientVars, operatorVars
<1>10. CASE WriteFile
  BY <1>10 DEF WriteFile, serverVars, qpVars, memoryVars, clientVars, operatorVars
<1>11. CASE Connect
  BY <1>11 DEF Connect, ClientEnds, serverVars, qpVars, memoryVars, clientVars, operatorVars
<1>12. CASE Establish
  BY <1>12 DEF Establish, Connected, serverVars, qpVars, memoryVars, clientVars, operatorVars
<1>13. CASE RegMem
  BY <1>13 DEF RegMem, serverVars, qpVars, memoryVars, clientVars, operatorVars
<1>14. CASE ReadFile
  BY <1>14 DEF ReadFile, ClientEnds, serverVars, qpVars, memoryVars, clientVars, operatorVars
<1>15. CASE Post
  BY <1>15 DEF Post, ClientEnds, serverVars, qpVars, memoryVars, clientVars, operatorVars
<1>16. CASE Poll
  BY <1>16 DEF Poll, Completions, serverVars, qpVars, memoryVars, clientVars, operatorVars
<1>17. CASE GiveUp
  BY <1>17 DEF GiveUp, ClientEnds, serverVars, qpVars, memoryVars, clientVars, operatorVars
<1>18. CASE Execute
  BY <1>18 DEF Execute, Receiving, serverVars, qpVars, memoryVars, clientVars, operatorVars
<1>19. CASE Complete
  BY <1>19 DEF Complete, serverVars, qpVars, memoryVars, clientVars, operatorVars
<1>20. CASE Retry
  BY <1>20 DEF Retry, serverVars, qpVars, memoryVars, clientVars, operatorVars
<1>21. CASE LosePacket
  BY <1>21 DEF LosePacket, serverVars, qpVars, memoryVars, clientVars, operatorVars
<1>22. CASE StartClient
  BY <1>22 DEF StartClient, serverVars, qpVars, memoryVars, clientVars, operatorVars
<1>23. CASE CopyFile
  BY <1>23 DEF CopyFile, serverVars, qpVars, memoryVars, clientVars, operatorVars
<1>24. CASE Configure
  BY <1>24 DEF Configure, serverVars, qpVars, memoryVars, clientVars, operatorVars
<1>25. CASE Press1
  BY <1>25 DEF Press1, serverVars, qpVars, memoryVars, clientVars, operatorVars
<1>26. CASE Press2Client
  BY <1>26 DEF Press2Client, ClientEnds, serverVars, qpVars, memoryVars, clientVars, operatorVars
<1>27. CASE Press2Server
  BY <1>27 DEF Press2Server, serverVars, qpVars, memoryVars, clientVars, operatorVars
<1>28. CASE Press8
  BY <1>28 DEF Press8, ServerEnds, serverVars, qpVars, memoryVars, clientVars, operatorVars
<1>29. CASE UNCHANGED vars
  BY <1>29 DEF vars, serverVars, qpVars, memoryVars, clientVars, operatorVars
<1> QED
  BY <1>1, <1>2, <1>3, <1>4, <1>5, <1>6, <1>7, <1>8, <1>9, <1>10, <1>11, <1>12, <1>13, <1>14, <1>15, <1>16, <1>17, <1>18, <1>19, <1>20, <1>21, <1>22, <1>23, <1>24, <1>25, <1>26, <1>27, <1>28, <1>29 DEF Next, Server, Client, Nic, Operator

LEMMA SyncStep == Inv /\ [Next]_vars => Sync'
<1> SUFFICES ASSUME Inv, [Next]_vars PROVE Sync'
  OBVIOUS
<1> USE DEF Inv, Sync, InStep, Outstanding, Receiving, TypeOK, QpTypes, ClientTypes
<1>1. CASE Listen
  BY <1>1 DEF Listen, ServerEnds, serverVars, qpVars, memoryVars, clientVars, operatorVars
<1>2. CASE Accept
  BY <1>2 DEF Accept, Push, serverVars, qpVars, memoryVars, clientVars, operatorVars
<1>3. CASE Accepted
  <2>1. sqp[si] \in {"RTS", "ERR"} /\ si \in Conns
    BY <1>3 DEF Accepted, Untouched, ServerTypes
  <2>2. sqp' = sqp \/ sqp' = [sqp EXCEPT ![si] = "ERR"]
    BY <1>3 DEF Accepted
  <2>3. UNCHANGED <<epsn, cqp, cpsn, rd>>
    BY <1>3 DEF Accepted, clientVars
  <2> QED
    BY <2>1, <2>2, <2>3
<1>4. CASE Query
  BY <1>4 DEF Query, AfterCall, serverVars, qpVars, memoryVars, clientVars, operatorVars
<1>5. CASE Modify
  <2>1. UNCHANGED <<cqp, cpsn, rd>> /\ si \in Conns
    BY <1>5 DEF Modify, clientVars, ServerTypes
  <2>2. CASE UNCHANGED qpVars
    BY <2>1, <2>2 DEF qpVars
  <2>3. CASE spc \in {"reset", "init"} /\ sqp' = [sqp EXCEPT ![si] = To[spc]]
    <3>1. \A i \in Conns \ {si} : sqp'[i] = sqp[i] /\ epsn'[i] = epsn[i]
      BY <1>5, <2>3 DEF Modify, qpVars
    <3>2. sqp'[si] \in {"RESET", "INIT"}
      BY <2>1, <2>3 DEF To
    <3> QED
      BY <2>1, <3>1, <3>2
  <2>4. CASE spc = "rtr" /\ ~UNCHANGED qpVars
    <3>1. sqp' = [sqp EXCEPT ![si] = "RTR"] /\ epsn' = [epsn EXCEPT ![si] = saved]
      BY <1>5, <2>4 DEF Modify, To
    <3>2. "queryRtr" \in asked
      BY <1>5, <2>4 DEF Modify, AskedBy
    <3>3. cqp[si] = "RTS" => InStep(saved, si)
      BY <2>4, <3>2 DEF SavedInStep
    <3> QED
      BY <2>1, <3>1, <3>3
  <2>5. CASE spc = "rts" /\ ~UNCHANGED qpVars
    <3>1. sqp[si] = "RTR"
      BY <1>5, <2>5 DEF Modify, From
    <3>2. sqp' = [sqp EXCEPT ![si] = "RTS"] /\ epsn' = epsn
      BY <1>5, <2>5 DEF Modify, To
    <3> QED
      BY <2>1, <3>1, <3>2
  <2> QED
    BY <1>5, <2>2, <2>3, <2>4, <2>5 DEF Modify, Modifies
<1>6. CASE NullEndpoint
  BY <1>6 DEF NullEndpoint, ServerEnds, serverVars, qpVars, memoryVars, clientVars, operatorVars
<1>7. CASE NextQp
  BY <1>7 DEF NextQp, serverVars, qpVars, memoryVars, clientVars, operatorVars
<1>8. CASE Register
  BY <1>8 DEF Register, ServerEnds, serverVars, qpVars, memoryVars, clientVars, operatorVars
<1>9. CASE OpenFile
  BY <1>9 DEF OpenFile, Opened, ServerEnds, serverVars, qpVars, memoryVars, clientVars, operatorVars
<1>10. CASE WriteFile
  BY <1>10 DEF WriteFile, serverVars, qpVars, memoryVars, clientVars, operatorVars
<1>11. CASE Connect
  <2>1. UNCHANGED <<sqp, epsn, rd>>
    BY <1>11 DEF Connect, ClientEnds, qpVars
  <2>2. CASE ClientEnds("crashed")
    BY <2>2, <2>1 DEF ClientEnds
  <2>3. CASE ~ClientEnds("crashed")
    <3>1. cqp' = cqp /\ \A i \in Conns \ {ci} : cpsn'[i] = cpsn[i]
      BY <1>11, <2>3 DEF Connect
    <3>2. cqp[ci] = "none"
      BY <1>11 DEF Connect, Fresh, Conns
    <3> QED
      BY <2>1, <3>1, <3>2
  <2> QED
    BY <2>2, <2>3
<1>12. CASE Establish
  <2>1. UNCHANGED <<sqp, epsn, cpsn, rd>>
    BY <1>12 DEF Establish, qpVars
  <2>2. cqp' = [cqp EXCEPT ![ci] = "RTS"]
    BY <1>12 DEF Establish
  <2>3. epsn[ci] = cpsn[ci]
    BY <1>12 DEF Establish, Dialogue
  <2> QED
    BY <2>1, <2>2, <2>3
<1>13. CASE RegMem
  BY <1>13 DEF RegMem, serverVars, qpVars, memoryVars, clientVars, operatorVars
<1>14. CASE ReadFile
  BY <1>14 DEF ReadFile, ClientEnds, serverVars, qpVars, memoryVars, clientVars, operatorVars
<1>15. CASE Post
  <2>1. CASE ClientEnds("crashed")
    BY <1>15, <2>1 DEF Post, ClientEnds, qpVars
  <2>2. CASE ~ClientEnds("crashed")
    <3>1. rd.st = "idle"
      BY <1>15 DEF Post, Idle, Early
    <3>2. rd'.st = "sent" /\ rd'.psn = cpsn[1] /\ cqp' = cqp
      BY <1>15, <2>2 DEF Post
    <3>3. \A i \in Conns \ {1} : cpsn'[i] = cpsn[i]
      BY <1>15, <2>2 DEF Post
    <3>4. \A i \in Conns, psn \in Psns : InStep(psn, i) => InStep(psn, i)'
      BY <3>1, <3>2, <3>3
    <3>5. UNCHANGED <<sqp, epsn>>
      BY <1>15 DEF Post, qpVars
    <3> QED
      BY <3>4, <3>5, <3>2
  <2> QED
    BY <2>1, <2>2
<1>16. CASE Poll
  BY <1>16 DEF Poll, Completions, serverVars, qpVars, memoryVars, clientVars, operatorVars
<1>17. CASE GiveUp
  BY <1>17 DEF GiveUp, ClientEnds, serverVars, qpVars, memoryVars, clientVars, operatorVars
<1>18. CASE Execute
  <2>1. UNCHANGED <<cqp, cpsn>> /\ Outstanding(1)
    BY <1>18 DEF Execute, clientVars
  <2>2. rd'.st \in {"answered", "refused", "lost"} /\ rd'.psn = rd.psn
    BY <1>18 DEF Execute, ReadTypes
  <2>3. \A i \in Conns, psn \in Psns : InStep(psn, i) => InStep(psn, i)'
    BY <2>1, <2>2
  <2>4. CASE UNCHANGED <<sqp, epsn>>
    BY <2>1, <2>3, <2>4
  <2>5. CASE sqp[1] \in Receiving /\ sqp' = [sqp EXCEPT ![1] = "ERR"] /\ epsn' = epsn
    BY <2>1, <2>3, <2>5
  <2>6. CASE epsn' = [epsn EXCEPT ![1] = Next24(rd.psn)] /\ sqp' = sqp
    <3>1. cpsn[1] = Next24(rd.psn)
      BY <2>1 DEF Flight
    <3>2. \A i \in Conns \ {1} : epsn'[i] = epsn[i]
      BY <2>6
    <3>3. 1 \in Conns => epsn'[1] = cpsn'[1]
      BY <2>1, <2>6, <3>1
    <3> QED
      BY <2>1, <2>3, <2>6, <3>2, <3>3
  <2> QED
    BY <1>18, <2>4, <2>5, <2>6 DEF Execute
<1>19. CASE Complete
  <2>1. UNCHANGED <<sqp, epsn, cpsn>>
    BY <1>19 DEF Complete, qpVars
  <2>2. \A i \in Conns \ {1} : cqp'[i] = cqp[i]
    BY <1>19 DEF Complete
  <2>3. CASE rd.st = "answered"
    BY <1>19, <2>1, <2>2, <2>3 DEF Complete, Flight
  <2>4. CASE rd.st = "refused"
    <3>1. cqp' = [cqp EXCEPT ![1] = "ERR"]
      BY <1>19, <2>4 DEF Complete
    <3> QED
      BY <2>1, <2>2, <3>1
  <2> QED
    BY <1>19, <2>3, <2>4 DEF Complete
<1>20. CASE Retry
  <2>1. UNCHANGED <<sqp, epsn, cpsn>> /\ rd.st = "lost"
    BY <1>20 DEF Retry, qpVars
  <2>2. CASE cqp' = [cqp EXCEPT ![1] = "ERR"]
    BY <2>1, <2>2
  <2>3. CASE cqp' = cqp /\ rd'.st = "sent" /\ rd'.psn = rd.psn
    BY <2>1, <2>3
  <2>4. rd.tries = Retries \/ rd.tries < Retries
    BY <1>20 DEF Retry
  <2> QED
    BY <1>20, <2>2, <2>3, <2>4 DEF Retry, ReadTypes
<1>21. CASE LosePacket
  BY <1>21 DEF LosePacket, serverVars, qpVars, memoryVars, clientVars, operatorVars
<1>22. CASE StartClient
  BY <1>22 DEF StartClient, serverVars, qpVars, memoryVars, clientVars, operatorVars
<1>23. CASE CopyFile
  BY <1>23 DEF CopyFile, serverVars, qpVars, memoryVars, clientVars, operatorVars
<1>24. CASE Configure
  BY <1>24 DEF Configure, serverVars, qpVars, memoryVars, clientVars, operatorVars
<1>25. CASE Press1
  BY <1>25 DEF Press1, serverVars, qpVars, memoryVars, clientVars, operatorVars
<1>26. CASE Press2Client
  BY <1>26 DEF Press2Client, ClientEnds, serverVars, qpVars, memoryVars, clientVars, operatorVars
<1>27. CASE Press2Server
  BY <1>27 DEF Press2Server, serverVars, qpVars, memoryVars, clientVars, operatorVars
<1>28. CASE Press8
  BY <1>28 DEF Press8, ServerEnds, serverVars, qpVars, memoryVars, clientVars, operatorVars
<1>29. CASE UNCHANGED vars
  BY <1>29 DEF vars, serverVars, qpVars, memoryVars, clientVars, operatorVars
<1> QED
  BY <1>1, <1>2, <1>3, <1>4, <1>5, <1>6, <1>7, <1>8, <1>9, <1>10, <1>11, <1>12, <1>13, <1>14, <1>15, <1>16, <1>17, <1>18, <1>19, <1>20, <1>21, <1>22, <1>23, <1>24, <1>25, <1>26, <1>27, <1>28, <1>29 DEF Next, Server, Client, Nic, Operator

LEMMA SavedStep == Inv /\ [Next]_vars => SavedInStep'
<1> SUFFICES ASSUME Inv, [Next]_vars PROVE SavedInStep'
  OBVIOUS
<1> USE DEF Inv, SavedInStep, InStep, Outstanding, Gone, TypeOK, ServerTypes, ClientTypes
<1>1. CASE Listen
  BY <1>1 DEF Listen, ServerEnds, serverVars, qpVars, memoryVars, clientVars, operatorVars
<1>2. CASE Accept
  BY <1>2 DEF Accept, Push, serverVars, qpVars, memoryVars, clientVars, operatorVars
<1>3. CASE Accepted
  BY <1>3 DEF Accepted, Push, serverVars, qpVars, memoryVars, clientVars, operatorVars
<1>4. CASE Query
  <2>1. UNCHANGED <<si, cqp, cpsn, rd>> /\ spc \in Queries /\ eps[si] = "ok" /\ spc' = AfterCall[spc]
    BY <1>4 DEF Query, clientVars
  <2>2. CASE spc = "query"
    BY <1>4, <2>1, <2>2 DEF Query, AfterCall
  <2>3. CASE spc = "queryRtr"
    <3>1. spc' = "queryRts"
      BY <2>1, <2>3 DEF AfterCall
    <3>2. sqp[si] \in {"RTS", "ERR"}
      BY <2>1, <2>3 DEF Untouched, Ahead, Queries, Conns
    <3>3. cqp[si] = "RTS" => InStep(epsn[si], si)
      BY <3>2 DEF Sync, Receiving
    <3>4. "queryRtr" \in asked' => saved' = epsn[si]
      BY <1>4, <2>3 DEF Query
    <3> QED
      BY <2>1, <3>1, <3>3, <3>4
  <2>4. CASE spc = "queryRts"
    <3>1. spc' = "reset" /\ saved' = saved /\ ("queryRtr" \in asked' => "queryRtr" \in asked)
      BY <1>4, <2>1, <2>4 DEF Query, AfterCall
    <3> QED
      BY <2>1, <2>4, <3>1
  <2> QED
    BY <2>1, <2>2, <2>3, <2>4 DEF Queries
<1>5. CASE Modify
  <2>1. UNCHANGED <<si, asked, saved, cqp, cpsn, rd>>
    BY <1>5 DEF Modify, clientVars
  <2>2. spc \in Modifies /\ spc' \in {"init", "rtr", "rts", "next"}
    BY <1>5 DEF Modify, AfterCall, Modifies
  <2>3. spc' \in {"init", "rtr"} => spc \in {"reset", "init"}
    BY <1>5 DEF Modify, AfterCall, Modifies
  <2> QED
    BY <2>1, <2>2, <2>3
<1>6. CASE NullEndpoint
  BY <1>6 DEF NullEndpoint, ServerEnds, serverVars, qpVars, memoryVars, clientVars, operatorVars
<1>7. CASE NextQp
  BY <1>7 DEF NextQp, serverVars, qpVars, memoryVars, clientVars, operatorVars
<1>8. CASE Register
  BY <1>8 DEF Register, ServerEnds, serverVars, qpVars, memoryVars, clientVars, operatorVars
<1>9. CASE OpenFile
  BY <1>9 DEF OpenFile, Opened, ServerEnds, serverVars, qpVars, memoryVars, clientVars, operatorVars
<1>10. CASE WriteFile
  BY <1>10 DEF WriteFile, serverVars, qpVars, memoryVars, clientVars, operatorVars
<1>11. CASE Connect
  <2>1. UNCHANGED <<spc, si, asked, saved, rd>>
    BY <1>11 DEF Connect, ClientEnds, serverVars
  <2>2. CASE ClientEnds("crashed")
    BY <2>2, <2>1 DEF ClientEnds
  <2>3. CASE ~ClientEnds("crashed")
    <3>1. cqp' = cqp /\ \A i \in Conns \ {ci} : cpsn'[i] = cpsn[i]
      BY <1>11, <2>3 DEF Connect
    <3>2. cqp[ci] = "none"
      BY <1>11 DEF Connect, Fresh, Conns
    <3> QED
      BY <2>1, <3>1, <3>2
  <2> QED
    BY <2>2, <2>3
<1>12. CASE Establish
  <2>1. spc = "await"
    BY <1>12 DEF Establish, Dialogue
  <2> QED
    BY <1>12, <2>1 DEF Establish, serverVars
<1>13. CASE RegMem
  BY <1>13 DEF RegMem, serverVars, qpVars, memoryVars, clientVars, operatorVars
<1>14. CASE ReadFile
  BY <1>14 DEF ReadFile, ClientEnds, serverVars, qpVars, memoryVars, clientVars, operatorVars
<1>15. CASE Post
  <2>1. CASE ClientEnds("crashed")
    BY <1>15, <2>1 DEF Post, ClientEnds, serverVars
  <2>2. CASE ~ClientEnds("crashed")
    <3>1. rd.st = "idle"
      BY <1>15 DEF Post, Idle, Early
    <3>2. rd'.st = "sent" /\ rd'.psn = cpsn[1] /\ cqp' = cqp
      BY <1>15, <2>2 DEF Post
    <3>3. \A i \in Conns \ {1} : cpsn'[i] = cpsn[i]
      BY <1>15, <2>2 DEF Post
    <3>4. \A i \in Conns, psn \in Psns : InStep(psn, i) => InStep(psn, i)'
      BY <3>1, <3>2, <3>3
    <3>5. UNCHANGED <<spc, si, asked, saved>>
      BY <1>15 DEF Post, serverVars
    <3> QED
      BY <3>4, <3>5, <3>2
  <2> QED
    BY <2>1, <2>2
<1>16. CASE Poll
  BY <1>16 DEF Poll, Completions, serverVars, qpVars, memoryVars, clientVars, operatorVars
<1>17. CASE GiveUp
  BY <1>17 DEF GiveUp, ClientEnds, serverVars, qpVars, memoryVars, clientVars, operatorVars
<1>18. CASE Execute
  <2>1. UNCHANGED <<spc, si, asked, saved, cqp, cpsn>> /\ Outstanding(1)
    BY <1>18 DEF Execute, serverVars, clientVars
  <2>2. rd'.st \in {"answered", "refused", "lost"} /\ rd'.psn = rd.psn
    BY <1>18 DEF Execute, ReadTypes
  <2> QED
    BY <2>1, <2>2
<1>19. CASE Complete
  <2>1. UNCHANGED <<spc, si, asked, saved, cpsn>>
    BY <1>19 DEF Complete, serverVars
  <2>2. \A i \in Conns \ {1} : cqp'[i] = cqp[i]
    BY <1>19 DEF Complete
  <2>3. CASE rd.st = "answered"
    <3>1. spc \in Serving \cup Gone
      BY <2>3 DEF Flight
    <3> QED
      BY <2>1, <3>1 DEF Serving
  <2>4. CASE rd.st = "refused"
    <3>1. cqp' = [cqp EXCEPT ![1] = "ERR"]
      BY <1>19, <2>4 DEF Complete
    <3> QED
      BY <2>1, <2>2, <3>1
  <2> QED
    BY <1>19, <2>3, <2>4 DEF Complete
<1>20. CASE Retry
  <2>1. UNCHANGED <<spc, si, asked, saved, cpsn>> /\ rd.st = "lost"
    BY <1>20 DEF Retry, serverVars
  <2>2. CASE cqp' = [cqp EXCEPT ![1] = "ERR"]
    BY <2>1, <2>2
  <2>3. CASE cqp' = cqp /\ rd'.st = "sent" /\ rd'.psn = rd.psn
    BY <2>1, <2>3
  <2>4. rd.tries = Retries \/ rd.tries < Retries
    BY <1>20 DEF Retry
  <2> QED
    BY <1>20, <2>2, <2>3, <2>4 DEF Retry, ReadTypes
<1>21. CASE LosePacket
  BY <1>21 DEF LosePacket, serverVars, qpVars, memoryVars, clientVars, operatorVars
<1>22. CASE StartClient
  BY <1>22 DEF StartClient, serverVars, qpVars, memoryVars, clientVars, operatorVars
<1>23. CASE CopyFile
  BY <1>23 DEF CopyFile, serverVars, qpVars, memoryVars, clientVars, operatorVars
<1>24. CASE Configure
  BY <1>24 DEF Configure, serverVars, qpVars, memoryVars, clientVars, operatorVars
<1>25. CASE Press1
  BY <1>25 DEF Press1, serverVars, qpVars, memoryVars, clientVars, operatorVars
<1>26. CASE Press2Client
  BY <1>26 DEF Press2Client, ClientEnds, serverVars, qpVars, memoryVars, clientVars, operatorVars
<1>27. CASE Press2Server
  BY <1>27 DEF Press2Server, serverVars, qpVars, memoryVars, clientVars, operatorVars
<1>28. CASE Press8
  BY <1>28 DEF Press8, ServerEnds, serverVars, qpVars, memoryVars, clientVars, operatorVars
<1>29. CASE UNCHANGED vars
  BY <1>29 DEF vars, serverVars, qpVars, memoryVars, clientVars, operatorVars
<1> QED
  BY <1>1, <1>2, <1>3, <1>4, <1>5, <1>6, <1>7, <1>8, <1>9, <1>10, <1>11, <1>12, <1>13, <1>14, <1>15, <1>16, <1>17, <1>18, <1>19, <1>20, <1>21, <1>22, <1>23, <1>24, <1>25, <1>26, <1>27, <1>28, <1>29 DEF Next, Server, Client, Nic, Operator

LEMMA FlightStep == Inv /\ [Next]_vars => Flight'
<1> SUFFICES ASSUME Inv, [Next]_vars PROVE Flight'
  OBVIOUS
<1> USE DEF Inv, Flight, Outstanding, Serving, Gone, Modifies, Queries, Idle, Early, TypeOK, QpTypes, ClientTypes, ReadTypes
<1>1. CASE Listen
  BY <1>1 DEF Listen, ServerEnds, serverVars, qpVars, memoryVars, clientVars, operatorVars
<1>2. CASE Accept
  BY <1>2 DEF Accept, Push, serverVars, qpVars, memoryVars, clientVars, operatorVars
<1>3. CASE Accepted
  BY <1>3 DEF Accepted, Push, serverVars, qpVars, memoryVars, clientVars, operatorVars
<1>4. CASE Query
  BY <1>4 DEF Query, AfterCall, serverVars, qpVars, memoryVars, clientVars, operatorVars
<1>5. CASE Modify
  BY <1>5 DEF Modify, AfterCall, From, To, AskedBy, serverVars, qpVars, memoryVars, clientVars, operatorVars
<1>6. CASE NullEndpoint
  BY <1>6 DEF NullEndpoint, ServerEnds, serverVars, qpVars, memoryVars, clientVars, operatorVars
<1>7. CASE NextQp
  BY <1>7 DEF NextQp, serverVars, qpVars, memoryVars, clientVars, operatorVars
<1>8. CASE Register
  BY <1>8 DEF Register, ServerEnds, serverVars, qpVars, memoryVars, clientVars, operatorVars
<1>9. CASE OpenFile
  BY <1>9 DEF OpenFile, Opened, ServerEnds, serverVars, qpVars, memoryVars, clientVars, operatorVars
<1>10. CASE WriteFile
  BY <1>10 DEF WriteFile, serverVars, qpVars, memoryVars, clientVars, operatorVars
<1>11. CASE Connect
  BY <1>11 DEF Connect, ClientEnds, serverVars, qpVars, memoryVars, clientVars, operatorVars
<1>12. CASE Establish
  BY <1>12 DEF Establish, Connected, serverVars, qpVars, memoryVars, clientVars, operatorVars
<1>13. CASE RegMem
  BY <1>13 DEF RegMem, serverVars, qpVars, memoryVars, clientVars, operatorVars
<1>14. CASE ReadFile
  BY <1>14 DEF ReadFile, ClientEnds, serverVars, qpVars, memoryVars, clientVars, operatorVars
<1>15. CASE Post
  <2>1. CASE ClientEnds("crashed")
    BY <1>15, <2>1 DEF Post, ClientEnds
  <2>2. CASE ~ClientEnds("crashed")
    <3>1. /\ rd' = [st |-> "sent", psn |-> cpsn[1], key |-> objs, tries |-> 0] /\ cpc' = "poll"
          /\ cpsn' = [cpsn EXCEPT ![1] = Next24(@)]
      BY <1>15, <2>2 DEF Post
    <3>2. objs # "none" /\ 1 \in Conns
      BY <1>15, ConnectionAssumption DEF Post, Conns
    <3> QED
      BY <3>1, <3>2
  <2> QED
    BY <2>1, <2>2
<1>16. CASE Poll
  BY <1>16 DEF Poll, Completions, serverVars, qpVars, memoryVars, clientVars, operatorVars
<1>17. CASE GiveUp
  BY <1>17 DEF GiveUp, ClientEnds, serverVars, qpVars, memoryVars, clientVars, operatorVars
<1>18. CASE Execute
  <2>1. UNCHANGED <<spc, cpc, objs, cpsn, mr>> /\ Outstanding(1)
    BY <1>18 DEF Execute, serverVars, clientVars, memoryVars
  <2>2. rd'.psn = rd.psn /\ rd'.key = rd.key /\ rd'.st \in {"answered", "refused", "lost"}
    BY <1>18 DEF Execute
  <2>3. CASE rd'.st = "answered"
    <3>1. rd.key = mr /\ epsn' = [epsn EXCEPT ![1] = Next24(rd.psn)]
      BY <1>18, <2>3 DEF Execute
    <3>2. spc \in Serving /\ 1 \in Conns
      BY <2>1, <3>1, ConnectionAssumption DEF Served, Conns
    <3> QED
      BY <2>1, <2>2, <3>1, <3>2
  <2>4. CASE rd'.st # "answered"
    BY <2>1, <2>2, <2>4
  <2> QED
    BY <2>3, <2>4
<1>19. CASE Complete
  BY <1>19 DEF Complete, serverVars, qpVars, memoryVars, clientVars, operatorVars
<1>20. CASE Retry
  BY <1>20 DEF Retry, serverVars, qpVars, memoryVars, clientVars, operatorVars
<1>21. CASE LosePacket
  BY <1>21 DEF LosePacket, serverVars, qpVars, memoryVars, clientVars, operatorVars
<1>22. CASE StartClient
  BY <1>22 DEF StartClient, serverVars, qpVars, memoryVars, clientVars, operatorVars
<1>23. CASE CopyFile
  BY <1>23 DEF CopyFile, serverVars, qpVars, memoryVars, clientVars, operatorVars
<1>24. CASE Configure
  BY <1>24 DEF Configure, serverVars, qpVars, memoryVars, clientVars, operatorVars
<1>25. CASE Press1
  BY <1>25 DEF Press1, serverVars, qpVars, memoryVars, clientVars, operatorVars
<1>26. CASE Press2Client
  BY <1>26 DEF Press2Client, ClientEnds, serverVars, qpVars, memoryVars, clientVars, operatorVars
<1>27. CASE Press2Server
  BY <1>27 DEF Press2Server, serverVars, qpVars, memoryVars, clientVars, operatorVars
<1>28. CASE Press8
  BY <1>28 DEF Press8, ServerEnds, serverVars, qpVars, memoryVars, clientVars, operatorVars
<1>29. CASE UNCHANGED vars
  BY <1>29 DEF vars, serverVars, qpVars, memoryVars, clientVars, operatorVars
<1> QED
  BY <1>1, <1>2, <1>3, <1>4, <1>5, <1>6, <1>7, <1>8, <1>9, <1>10, <1>11, <1>12, <1>13, <1>14, <1>15, <1>16, <1>17, <1>18, <1>19, <1>20, <1>21, <1>22, <1>23, <1>24, <1>25, <1>26, <1>27, <1>28, <1>29 DEF Next, Server, Client, Nic, Operator

LEMMA InitInv == Init => Inv
<1> SUFFICES ASSUME Init PROVE Inv
  OBVIOUS
<1>1. TypeOK
  BY InitTypes
<1>2. Served /\ Idle /\ Fresh /\ Dialogue
  BY DEF Init, Served, Idle, Fresh, Dialogue
<1>3. Untouched /\ Sync
  BY DEF Init, Untouched, Sync, Receiving
<1>4. SavedInStep /\ Flight
  BY DEF Init, SavedInStep, Flight, Outstanding
<1> QED
  BY <1>1, <1>2, <1>3, <1>4 DEF Inv

LEMMA NextInv == Inv /\ [Next]_vars => Inv'
  BY TypesStep, ServedStep, IdleStep, FreshStep, DialogueStep, UntouchedStep, SyncStep, SavedStep,
     FlightStep DEF Inv

\* The types of every state.
THEOREM ConnectionTypes == Spec => []TypeOK
<1>1. Inv => TypeOK
  BY DEF Inv
<1> QED
  BY <1>1, InitInv, NextInv, PTL DEF Spec

\* For any number of connections, whatever fails and whatever the operator does in whatever
\* order: the PSN a QP of the server expects is the one its client sends next, through the
\* reset and new start of the QP in between (rdmatry_server.cpp:203-262).
THEOREM PsnAgreed == Spec => []Agreed
<1>1. Inv => Agreed
  BY DEF Inv, Sync, InStep, Agreed
<1> QED
  BY <1>1, InitInv, NextInv, PTL DEF Spec
-----------------------------------------------------------------------------
(***************************************************************************)
(* With the order of the readme kept and nothing failed, the connections   *)
(* are set up as they should be: for any number of connections.            *)
(***************************************************************************)
\* Nothing has failed, and the operator keeps to the order.
Calm == scn.orderly /\ failures = 0

Unharmed ==
  /\ spc # "crashed" /\ cpc # "crashed"
  /\ \A i \in Conns : eps[i] # "null" /\ cm[i] # "broken"

\* The client starts when the server listens, and the server waits until the client has all its
\* connections.
Connecting == {"off", "connect", "wait"}
Meeting ==
  /\ spc = "start" => cpc = "off"
  /\ cpc = "off" => ci = 1
  /\ cpc \in Connecting =>
       /\ spc \in {"start", "accept", "await"}
       /\ \A j \in Conns : j >= ci => cm[j] # "open"
  /\ cpc \in {"connect", "wait"} => \A j \in Conns : j < ci => cqp[j] = "RTS"
  /\ cpc \notin Connecting \cup {"done"} => \A j \in Conns : cqp[j] = "RTS"

\* Every call of the second phase finds what the ones before it leave.
Restarted(j) == sqp[j] = "RTS" /\ j \in armed
Restarting ==
  /\ spc \in {"start", "accept", "await", "query"} => asked = {}
  /\ spc = "queryRtr" => asked = {"query"}
  /\ spc = "queryRts" => asked = {"query", "queryRtr"}
  /\ spc \in Modifies => asked = Queries
  /\ spc = "init" => sqp[si] = "RESET"
  /\ spc = "rtr" => sqp[si] = "INIT" /\ si \in armed
  /\ spc = "rts" => sqp[si] = "RTR" /\ si \in armed
  /\ spc \in Queries \cup Modifies => \A j \in Conns : j < si => Restarted(j)
  /\ spc = "next" => \A j \in Conns : j <= si => Restarted(j)
  /\ spc \in Serving \cup {"register"} => \A j \in Conns : Restarted(j)

\* The key goes from the memory region to the file, to the other file, to the client.
Prompts == {"prompt2", "prompt8"}
KeyPassed ==
  /\ spc \in Serving => mr = scn.key
  /\ spc = "write" => sfile = "empty"
  /\ spc \in Prompts => sfile = scn.key
  /\ "copied" \in did => cfile = scn.key /\ spc \in Prompts \cup {"done"}
  /\ cpc \in {"readfile", "post", "poll", "prompt2", "done"} => "copied" \in did
  /\ cpc \in {"post", "poll"} => objs = scn.key
  /\ cpc \in {"prompt1", "readfile", "post"} => cmr
  /\ spc = "done" => cpc = "done"

\* The READ is executed and answered.
Answered ==
  /\ cpc = "poll" => rd.st \in {"sent", "answered", "good"} /\ rd.key = scn.key
  /\ cpc \in {"prompt2", "done"} => rd.st = "good"

\* The snapshot is taken when all PSNs agree, and they stay.
Snapshot ==
  /\ cpc \in {"prompt2", "done"} /\ spc # "done" => \A i \in Conns : epsn[i] = cpsn[i]
  /\ \A i \in Conns : cfg[i] # -1 => cpc \in {"prompt2", "done"} /\ cfg[i] = Register32(cpsn[i])

Course == Calm => Unharmed /\ Meeting /\ Restarting /\ KeyPassed /\ Answered /\ Snapshot

-----------------------------------------------------------------------------
LEMMA CalmBefore ==
  ASSUME TypeOK, [Next]_vars, Calm' PROVE Calm /\ scn' = scn /\ ~Fails
<1>1. scn' = scn
  <2>1. CASE Listen
    BY <2>1 DEF Listen
  <2>2. CASE Accept
    BY <2>2 DEF Accept
  <2>3. CASE Accepted
    BY <2>3 DEF Accepted
  <2>4. CASE Query
    BY <2>4 DEF Query
  <2>5. CASE Modify
    BY <2>5 DEF Modify
  <2>6. CASE NullEndpoint
    BY <2>6 DEF NullEndpoint
  <2>7. CASE NextQp
    BY <2>7 DEF NextQp
  <2>8. CASE Register
    BY <2>8 DEF Register
  <2>9. CASE OpenFile
    BY <2>9 DEF OpenFile
  <2>10. CASE WriteFile
    BY <2>10 DEF WriteFile
  <2>11. CASE Connect
    BY <2>11 DEF Connect
  <2>12. CASE Establish
    BY <2>12 DEF Establish
  <2>13. CASE RegMem
    BY <2>13 DEF RegMem
  <2>14. CASE ReadFile
    BY <2>14 DEF ReadFile
  <2>15. CASE Post
    BY <2>15 DEF Post
  <2>16. CASE Poll
    BY <2>16 DEF Poll
  <2>17. CASE GiveUp
    BY <2>17 DEF GiveUp
  <2>18. CASE Execute
    BY <2>18 DEF Execute
  <2>19. CASE Complete
    BY <2>19 DEF Complete
  <2>20. CASE Retry
    BY <2>20 DEF Retry
  <2>21. CASE LosePacket
    BY <2>21 DEF LosePacket
  <2>22. CASE StartClient
    BY <2>22 DEF StartClient
  <2>23. CASE CopyFile
    BY <2>23 DEF CopyFile
  <2>24. CASE Configure
    BY <2>24 DEF Configure
  <2>25. CASE Press1
    BY <2>25 DEF Press1
  <2>26. CASE Press2Client
    BY <2>26 DEF Press2Client
  <2>27. CASE Press2Server
    BY <2>27 DEF Press2Server
  <2>28. CASE Press8
    BY <2>28 DEF Press8
  <2>29. CASE UNCHANGED vars
    BY <2>29 DEF vars
  <2> QED
    BY <2>1, <2>2, <2>3, <2>4, <2>5, <2>6, <2>7, <2>8, <2>9, <2>10, <2>11, <2>12, <2>13, <2>14, <2>15, <2>16, <2>17, <2>18, <2>19, <2>20, <2>21, <2>22, <2>23, <2>24, <2>25, <2>26, <2>27, <2>28, <2>29 DEF Next, Server, Client, Nic, Operator
<1>2. failures' = failures \/ failures' = failures + 1
  <2>1. CASE Listen
    BY <2>1 DEF Listen, Works, Fails
  <2>2. CASE Accept
    BY <2>2 DEF Accept, Works, Fails
  <2>3. CASE Accepted
    BY <2>3 DEF Accepted, Works, Fails
  <2>4. CASE Query
    BY <2>4 DEF Query, Works, Fails
  <2>5. CASE Modify
    BY <2>5 DEF Modify, Works, Fails
  <2>6. CASE NullEndpoint
    BY <2>6 DEF NullEndpoint, Works, Fails
  <2>7. CASE NextQp
    BY <2>7 DEF NextQp, Works, Fails
  <2>8. CASE Register
    BY <2>8 DEF Register, Works, Fails
  <2>9. CASE OpenFile
    BY <2>9 DEF OpenFile, Works, Fails
  <2>10. CASE WriteFile
    BY <2>10 DEF WriteFile, Works, Fails
  <2>11. CASE Connect
    BY <2>11 DEF Connect, Works, Fails
  <2>12. CASE Establish
    BY <2>12 DEF Establish, Works, Fails
  <2>13. CASE RegMem
    BY <2>13 DEF RegMem, Works, Fails
  <2>14. CASE ReadFile
    BY <2>14 DEF ReadFile, Works, Fails
  <2>15. CASE Post
    BY <2>15 DEF Post, Works, Fails
  <2>16. CASE Poll
    BY <2>16 DEF Poll, Works, Fails
  <2>17. CASE GiveUp
    BY <2>17 DEF GiveUp, Works, Fails
  <2>18. CASE Execute
    BY <2>18 DEF Execute, Works, Fails
  <2>19. CASE Complete
    BY <2>19 DEF Complete, Works, Fails
  <2>20. CASE Retry
    BY <2>20 DEF Retry, Works, Fails
  <2>21. CASE LosePacket
    BY <2>21 DEF LosePacket, Works, Fails
  <2>22. CASE StartClient
    BY <2>22 DEF StartClient, Works, Fails
  <2>23. CASE CopyFile
    BY <2>23 DEF CopyFile, Works, Fails
  <2>24. CASE Configure
    BY <2>24 DEF Configure, Works, Fails
  <2>25. CASE Press1
    BY <2>25 DEF Press1, Works, Fails
  <2>26. CASE Press2Client
    BY <2>26 DEF Press2Client, Works, Fails
  <2>27. CASE Press2Server
    BY <2>27 DEF Press2Server, Works, Fails
  <2>28. CASE Press8
    BY <2>28 DEF Press8, Works, Fails
  <2>29. CASE UNCHANGED vars
    BY <2>29 DEF vars
  <2> QED
    BY <2>1, <2>2, <2>3, <2>4, <2>5, <2>6, <2>7, <2>8, <2>9, <2>10, <2>11, <2>12, <2>13, <2>14, <2>15, <2>16, <2>17, <2>18, <2>19, <2>20, <2>21, <2>22, <2>23, <2>24, <2>25, <2>26, <2>27, <2>28, <2>29 DEF Next, Server, Client, Nic, Operator
<1>3. failures \in Nat
  BY DEF TypeOK, OperatorTypes
<1> QED
  BY <1>1, <1>2, <1>3 DEF Calm, Fails


\* A READ that is under way belongs to the client's poll loop, when both programs have got that far.
LEMMA ReadInPoll ==
  ASSUME Inv, Course, Calm, rd.st \notin {"idle", "good"}
  PROVE  cpc = "poll" /\ rd.st \in {"sent", "answered"} /\ rd.key = scn.key /\ spc \in Prompts
<1>1. Unharmed /\ Answered /\ KeyPassed
  BY DEF Course
<1>2. cpc \notin Early /\ cpc # "crashed" /\ cpc \notin {"prompt2", "done"}
  BY <1>1 DEF Inv, Idle, Unharmed, Answered
<1>3. cpc = "poll"
  BY <1>2 DEF Inv, TypeOK, ClientTypes, Early, Gone
<1>4. rd.st \in {"sent", "answered"} /\ rd.key = scn.key
  BY <1>1, <1>3 DEF Answered
<1>5. "copied" \in did /\ spc # "done"
  BY <1>1, <1>3 DEF KeyPassed
<1> QED
  BY <1>1, <1>3, <1>4, <1>5 DEF KeyPassed

\* What the actions with a failing branch are when nothing fails.
LEMMA CalmAccept ==
  ASSUME Inv, Course, Calm, ~Fails, Accept
  PROVE  /\ spc = "accept" /\ spc' = "await" /\ si \in Conns /\ cm[si] = "request"
         /\ UNCHANGED <<si, eps, asked, saved, armed, mr, sfile, cpc, ci, cqp, cpsn, cmr, objs, rd,
                        cfile, cfg, did>>
         /\ \A j \in Conns : /\ cm'[j] = IF j = si THEN "reply" ELSE cm[j]
                             /\ sqp'[j] = IF j = si THEN "RTS" ELSE sqp[j]
                             /\ j # si => epsn'[j] = epsn[j]
<1>1. si \in Conns /\ cm[si] # "broken"
  BY DEF Inv, TypeOK, ServerTypes, Course, Unharmed
<1>2. /\ cm' = [cm EXCEPT ![si] = "reply"] /\ sqp' = [sqp EXCEPT ![si] = "RTS"]
      /\ epsn' = [epsn EXCEPT ![si] = cpsn[si]]
      /\ cm[si] = "request" /\ spc' = "await" /\ UNCHANGED <<si, eps, asked, saved>>
  BY <1>1 DEF Accept
<1>3. UNCHANGED <<armed, mr, sfile, cpc, ci, cqp, cpsn, cmr, objs, rd, cfile, cfg, did>>
  BY DEF Accept, memoryVars, clientVars, operatorVars
<1>4. DOMAIN cm = Conns /\ DOMAIN sqp = Conns /\ DOMAIN epsn = Conns
  BY DEF Inv, TypeOK, ClientTypes, QpTypes
<1>5. \A j \in Conns : cm'[j] = IF j = si THEN "reply" ELSE cm[j]
  BY <1>1, <1>2, <1>4
<1>6. \A j \in Conns : sqp'[j] = IF j = si THEN "RTS" ELSE sqp[j]
  BY <1>1, <1>2, <1>4
<1>7. \A j \in Conns : j # si => epsn'[j] = epsn[j]
  BY <1>1, <1>2, <1>4
<1>8. spc = "accept" /\ spc' = "await" /\ cm[si] = "request" /\ UNCHANGED <<si, eps, asked, saved>>
  BY <1>2 DEF Accept
<1>9. \A j \in Conns : /\ cm'[j] = IF j = si THEN "reply" ELSE cm[j]
                       /\ sqp'[j] = IF j = si THEN "RTS" ELSE sqp[j]
                       /\ j # si => epsn'[j] = epsn[j]
  BY <1>5, <1>6, <1>7
<1> QED
  BY <1>1, <1>3, <1>8, <1>9

LEMMA CalmAccepted ==
  ASSUME Inv, Course, Calm, ~Fails, Accepted
  PROVE  /\ spc = "await" /\ si \in Conns /\ cm[si] = "open"
         /\ \/ si < NumConn /\ si' = si + 1 /\ spc' = "accept"
            \/ si = NumConn /\ si' = 1 /\ spc' = "query"
         /\ UNCHANGED <<asked, saved, sqp, epsn, armed, mr, sfile, cpc, ci, cqp, cpsn, cmr, objs, cm,
                        rd, cfile, cfg, did>>
         /\ \A j \in Conns : eps'[j] = IF j = si THEN "ok" ELSE eps[j]
<1>1. si \in Conns /\ cm[si] # "broken" /\ DOMAIN eps = Conns
  BY DEF Inv, TypeOK, ServerTypes, Course, Unharmed
<1>2. cm[si] = "open" /\ Push("ok") /\ UNCHANGED <<cm, sqp>>
  BY <1>1 DEF Accepted
<1>3. UNCHANGED <<epsn, armed, mr, sfile, cpc, ci, cqp, cpsn, cmr, objs, rd, cfile, cfg, did>>
  BY DEF Accepted, memoryVars, clientVars, operatorVars
<1>4. \/ si < NumConn /\ si' = si + 1 /\ spc' = "accept"
      \/ si = NumConn /\ si' = 1 /\ spc' = "query"
  BY <1>1, <1>2, ConnectionAssumption DEF Push, Conns
<1>5. eps' = [eps EXCEPT ![si] = "ok"] /\ UNCHANGED <<asked, saved>>
  BY <1>2 DEF Push
<1>6. spc = "await"
  BY DEF Accepted
<1> QED
  BY <1>1, <1>2, <1>3, <1>4, <1>5, <1>6

LEMMA CalmQuery ==
  ASSUME Inv, Course, Calm, ~Fails, Query
  PROVE  /\ \/ spc = "query" /\ spc' = "queryRtr"
            \/ spc = "queryRtr" /\ spc' = "queryRts"
            \/ spc = "queryRts" /\ spc' = "reset"
         /\ asked' = asked \cup {spc}
         /\ UNCHANGED <<si, eps, sqp, epsn, armed, mr, sfile, cpc, ci, cqp, cpsn, cmr, objs, cm, rd,
                        cfile, cfg, did>>
<1>1. spc \in Queries /\ spc' = AfterCall[spc] /\ asked' = asked \cup {spc}
  BY DEF Query
<1>2. UNCHANGED <<si, eps, sqp, epsn, armed, mr, sfile, cpc, ci, cqp, cpsn, cmr, objs, cm, rd,
                 cfile, cfg, did>>
  BY DEF Query, qpVars, memoryVars, clientVars, operatorVars
<1> QED
  BY <1>1, <1>2 DEF Queries, AfterCall

LEMMA CalmModify ==
  ASSUME Inv, Course, Calm, ~Fails, Modify
  PROVE  /\ \/ spc = "reset" /\ spc' = "init" /\ sqp'[si] = "RESET"
            \/ spc = "init" /\ spc' = "rtr" /\ sqp'[si] = "INIT" /\ si \in armed'
            \/ spc = "rtr" /\ spc' = "rts" /\ sqp'[si] = "RTR" /\ si \in armed'
            \/ spc = "rts" /\ spc' = "next" /\ sqp'[si] = "RTS" /\ si \in armed'
         /\ \A j \in Conns \ {si} :
              sqp'[j] = sqp[j] /\ epsn'[j] = epsn[j] /\ (j \in armed' <=> j \in armed)
         /\ UNCHANGED <<si, eps, asked, saved, mr, sfile, cpc, ci, cqp, cpsn, cmr, objs, cm, rd,
                        cfile, cfg, did>>
<1>1. spc \in Modifies /\ si \in Conns /\ DOMAIN sqp = Conns /\ DOMAIN epsn = Conns
  BY DEF Modify, Inv, TypeOK, ServerTypes, QpTypes
<1>2. Restarting
  BY DEF Course
<1>3. From[spc] = "any" \/ sqp[si] = From[spc]
  BY <1>1, <1>2 DEF From, Restarting, Modifies
<1>4. AskedBy[spc] = "none" \/ AskedBy[spc] \in asked
  BY <1>1, <1>2 DEF AskedBy, Restarting, Modifies, Queries
<1>5. /\ sqp' = [sqp EXCEPT ![si] = To[spc]]
      /\ epsn' = CASE spc = "reset" -> [epsn EXCEPT ![si] = 0]
                   [] spc = "rtr" -> [epsn EXCEPT ![si] = saved]
                   [] OTHER -> epsn
      /\ armed' = CASE spc = "reset" -> armed \ {si}
                    [] spc = "init" -> armed \cup {si}
                    [] OTHER -> armed
  BY <1>3, <1>4 DEF Modify
<1>6. \/ spc = "reset" /\ spc' = "init" /\ To[spc] = "RESET"
      \/ spc = "init" /\ spc' = "rtr" /\ To[spc] = "INIT"
      \/ spc = "rtr" /\ spc' = "rts" /\ To[spc] = "RTR"
      \/ spc = "rts" /\ spc' = "next" /\ To[spc] = "RTS"
  BY <1>1 DEF Modify, AfterCall, To, Modifies
<1>7. UNCHANGED <<si, eps, asked, saved, mr, sfile, cpc, ci, cqp, cpsn, cmr, objs, cm, rd,
                 cfile, cfg, did>>
  BY DEF Modify, memoryVars, clientVars, operatorVars
<1>8. \A j \in Conns \ {si} :
        sqp'[j] = sqp[j] /\ epsn'[j] = epsn[j] /\ (j \in armed' <=> j \in armed)
  <2>1. \A j \in Conns \ {si} : sqp'[j] = sqp[j]
    BY <1>1, <1>5
  <2>2. \A j \in Conns \ {si} : epsn'[j] = epsn[j]
    BY <1>1, <1>5, <1>6
  <2>3. \A j \in Conns \ {si} : j \in armed' <=> j \in armed
    BY <1>1, <1>5, <1>6
  <2> QED
    BY <2>1, <2>2, <2>3
<1>9. sqp'[si] = To[spc]
  BY <1>1, <1>5
<1>10. spc \in {"rtr", "rts"} => si \in armed
  BY <1>2 DEF Restarting
<1>11. spc \in {"init", "rtr", "rts"} => si \in armed'
  BY <1>5, <1>10
<1> QED
  BY <1>6, <1>7, <1>8, <1>9, <1>11

LEMMA CalmNullEndpoint ==
  ASSUME Inv, Course, Calm, NullEndpoint PROVE FALSE
  BY DEF NullEndpoint, Inv, TypeOK, ServerTypes, Course, Unharmed

LEMMA CalmConnect ==
  ASSUME Inv, Course, Calm, ~Fails, Connect
  PROVE  /\ cpc = "connect" /\ cpc' = "wait" /\ ci \in Conns
         /\ UNCHANGED <<ci, cqp, cmr, objs, rd, spc, si, eps, asked, saved, sqp, epsn, armed, mr,
                        sfile, cfile, cfg, did>>
         /\ \A j \in Conns : cm'[j] = IF j = ci THEN "request" ELSE cm[j]
<1>1. cpc = "connect" /\ ci \in Conns /\ DOMAIN cm = Conns
  BY DEF Connect, Inv, TypeOK, ClientTypes
<1>2. spc \notin Gone \cup {"start"}
  BY <1>1 DEF Course, Meeting, Connecting, Gone
<1>3. cm' = [cm EXCEPT ![ci] = "request"] /\ cpc' = "wait" /\ UNCHANGED <<ci, cqp, cmr, objs, rd>>
  BY <1>2 DEF Connect
<1>4. UNCHANGED <<spc, si, eps, asked, saved, sqp, epsn, armed, mr, sfile, cfile, cfg, did>>
  BY DEF Connect, serverVars, qpVars, memoryVars, operatorVars
<1> QED
  BY <1>1, <1>3, <1>4

LEMMA CalmGiveUp ==
  ASSUME Inv, Course, Calm, ~Fails, GiveUp PROVE FALSE
<1>1. cpc = "wait" /\ ci \in Conns
  BY DEF GiveUp, Inv, TypeOK, ClientTypes
<1>2. cm[ci] # "broken" /\ eps[ci] # "null"
  BY <1>1 DEF Course, Unharmed
<1>3. spc \notin Gone
  BY <1>1 DEF Course, Meeting, Connecting, Gone
<1> QED
  BY <1>2, <1>3 DEF GiveUp

LEMMA CalmReadFile ==
  ASSUME Inv, Course, Calm, ReadFile
  PROVE  /\ cpc = "readfile" /\ cpc' = "post" /\ objs' = cfile
         /\ UNCHANGED <<ci, cqp, cpsn, cmr, cm, rd, spc, si, eps, asked, saved, sqp, epsn, armed, mr,
                        sfile, cfile, cfg, did>>
<1>1. cpc = "readfile"
  BY DEF ReadFile
<1>2. cfile = scn.key
  BY <1>1 DEF Course, KeyPassed
<1>3. scn.key \in {"old", "new"}
  BY ConnectionAssumption DEF Inv, TypeOK, OperatorTypes
<1>4. objs' = cfile /\ cpc' = "post" /\ UNCHANGED <<ci, cqp, cpsn, cmr, cm, rd>>
  BY <1>2, <1>3 DEF ReadFile
<1>5. UNCHANGED <<spc, si, eps, asked, saved, sqp, epsn, armed, mr, sfile, cfile, cfg, did>>
  BY DEF ReadFile, serverVars, qpVars, memoryVars, operatorVars
<1> QED
  BY <1>1, <1>4, <1>5

LEMMA CalmPost ==
  ASSUME Inv, Course, Calm, Post
  PROVE  /\ cpc = "post" /\ cpc' = "poll" /\ rd'.st = "sent" /\ rd'.key = objs
         /\ UNCHANGED <<ci, cqp, cmr, objs, cm, spc, si, eps, asked, saved, sqp, epsn, armed, mr,
                        sfile, cfile, cfg, did>>
<1>1. cpc = "post"
  BY DEF Post
<1>2. cmr
  BY <1>1 DEF Course, KeyPassed
<1>3. /\ rd' = [st |-> "sent", psn |-> cpsn[1], key |-> objs, tries |-> 0]
      /\ cpc' = "poll" /\ UNCHANGED <<ci, cqp, cmr, objs, cm>>
  BY <1>2 DEF Post
<1>4. UNCHANGED <<spc, si, eps, asked, saved, sqp, epsn, armed, mr, sfile, cfile, cfg, did>>
  BY DEF Post, serverVars, qpVars, memoryVars, operatorVars
<1> QED
  BY <1>1, <1>3, <1>4

LEMMA CalmExecute ==
  ASSUME Inv, Course, Calm, Execute
  PROVE  /\ cpc = "poll" /\ rd'.st = "answered" /\ rd'.key = rd.key
         /\ UNCHANGED <<cpc, ci, cqp, cpsn, cmr, objs, cm, spc, si, eps, asked, saved, sqp, armed, mr,
                        sfile, cfile, cfg, did>>
<1>1. rd.st = "sent"
  BY DEF Execute
<1>2. cpc = "poll" /\ rd.key = scn.key /\ spc \in Prompts /\ 1 \in Conns
  BY <1>1, ReadInPoll, ConnectionAssumption DEF Conns
<1>3. mr = scn.key /\ Restarted(1) /\ cqp[1] = "RTS"
  BY <1>2 DEF Course, KeyPassed, Restarting, Meeting, Prompts, Serving, Connecting
<1>4. sqp[1] \in Receiving /\ 1 \in armed /\ rd.key = mr
  BY <1>2, <1>3 DEF Restarted, Receiving
<1>5. epsn[1] = rd.psn \/ epsn[1] = Next24(rd.psn)
  BY <1>1, <1>2, <1>3, <1>4 DEF Inv, Sync, InStep, Flight, Outstanding
<1>6. rd' = [rd EXCEPT !.st = "answered"] /\ UNCHANGED sqp
  BY <1>4, <1>5 DEF Execute
<1>7. rd'.st = "answered" /\ rd'.key = rd.key
  BY <1>6 DEF Inv, TypeOK, ReadTypes
<1>8. UNCHANGED <<cpc, ci, cqp, cpsn, cmr, objs, cm, spc, si, eps, asked, saved, armed, mr,
                 sfile, cfile, cfg, did>>
  BY DEF Execute, serverVars, memoryVars, clientVars, operatorVars
<1> QED
  BY <1>2, <1>6, <1>7, <1>8

LEMMA CalmComplete ==
  ASSUME Inv, Course, Calm, Complete
  PROVE  /\ cpc = "poll" /\ rd'.st = "good" /\ rd'.key = rd.key
         /\ UNCHANGED <<cpc, ci, cqp, cpsn, cmr, objs, cm, spc, si, eps, asked, saved, sqp, epsn,
                        armed, mr, sfile, cfile, cfg, did>>
<1>1. rd.st = "answered" /\ cpc = "poll"
  BY ReadInPoll DEF Complete
<1>2. rd' = [rd EXCEPT !.st = "good"] /\ cqp' = cqp
  BY <1>1 DEF Complete
<1>3. rd'.st = "good" /\ rd'.key = rd.key
  BY <1>2 DEF Inv, TypeOK, ReadTypes
<1>4. UNCHANGED <<cpc, ci, cpsn, cmr, objs, cm, spc, si, eps, asked, saved, sqp, epsn,
                 armed, mr, sfile, cfile, cfg, did>>
  BY DEF Complete, serverVars, qpVars, memoryVars, operatorVars
<1> QED
  BY <1>1, <1>2, <1>3, <1>4

LEMMA CalmRetry ==
  ASSUME Inv, Course, Calm, Retry PROVE FALSE
  BY ReadInPoll DEF Retry

LEMMA CalmLosePacket ==
  ASSUME ~Fails, LosePacket PROVE FALSE
  BY DEF LosePacket

LEMMA UnharmedStep ==
  ASSUME Inv, Course, [Next]_vars, Calm' PROVE Unharmed'
<1>0. Calm /\ scn' = scn /\ ~Fails
  BY CalmBefore DEF Inv
<1>00. Unharmed /\ Meeting /\ Restarting /\ KeyPassed /\ Answered /\ Snapshot
  BY <1>0 DEF Course
<1> USE <1>0, <1>00 DEF Unharmed, Meeting, KeyPassed, Gone, Connecting, Files
<1>1. CASE Listen
  BY <1>1 DEF Listen, ServerEnds, serverVars, qpVars, memoryVars, clientVars, operatorVars
<1>2. CASE Accept
  BY <1>2, CalmAccept
<1>3. CASE Accepted
  BY <1>3, CalmAccepted
<1>4. CASE Query
  BY <1>4, CalmQuery
<1>5. CASE Modify
  BY <1>5, CalmModify
<1>6. CASE NullEndpoint
  BY <1>6, CalmNullEndpoint
<1>7. CASE NextQp
  BY <1>7 DEF NextQp, serverVars, qpVars, memoryVars, clientVars, operatorVars
<1>8. CASE Register
  BY <1>8 DEF Register, ServerEnds, serverVars, qpVars, memoryVars, clientVars, operatorVars
<1>9. CASE OpenFile
  BY <1>9 DEF OpenFile, Opened, ServerEnds, serverVars, qpVars, memoryVars, clientVars, operatorVars
<1>10. CASE WriteFile
  BY <1>10 DEF WriteFile, serverVars, qpVars, memoryVars, clientVars, operatorVars
<1>11. CASE Connect
  BY <1>11, CalmConnect
<1>12. CASE Establish
  BY <1>12 DEF Establish, Connected, serverVars, qpVars, memoryVars, clientVars, operatorVars
<1>13. CASE RegMem
  BY <1>13 DEF RegMem, serverVars, qpVars, memoryVars, clientVars, operatorVars
<1>14. CASE ReadFile
  BY <1>14, CalmReadFile
<1>15. CASE Post
  BY <1>15, CalmPost
<1>16. CASE Poll
  BY <1>16 DEF Poll, Completions, serverVars, qpVars, memoryVars, clientVars, operatorVars
<1>17. CASE GiveUp
  BY <1>17, CalmGiveUp
<1>18. CASE Execute
  BY <1>18, CalmExecute
<1>19. CASE Complete
  BY <1>19, CalmComplete
<1>20. CASE Retry
  BY <1>20, CalmRetry
<1>21. CASE LosePacket
  BY <1>21, CalmLosePacket
<1>22. CASE StartClient
  BY <1>22 DEF StartClient, serverVars, qpVars, memoryVars, clientVars, operatorVars
<1>23. CASE CopyFile
  BY <1>23 DEF CopyFile, serverVars, qpVars, memoryVars, clientVars, operatorVars
<1>24. CASE Configure
  BY <1>24 DEF Configure, serverVars, qpVars, memoryVars, clientVars, operatorVars
<1>25. CASE Press1
  BY <1>25 DEF Press1, serverVars, qpVars, memoryVars, clientVars, operatorVars
<1>26. CASE Press2Client
  <2>1. cpc = "prompt2" /\ cpc' = "done" /\ UNCHANGED <<spc, eps>>
    BY <1>26 DEF Press2Client, ClientEnds, serverVars
  <2>2. \A i \in Conns : cm[i] \notin {"request", "reply"}
    BY <2>1 DEF Inv, Dialogue
  <2>3. cm' = [i \in Conns |-> IF cm[i] \in {"request", "reply"} THEN "broken" ELSE cm[i]]
    BY <1>26 DEF Press2Client, ClientEnds
  <2>4. \A i \in Conns : cm'[i] = cm[i]
    BY <2>2, <2>3
  <2> QED
    BY <2>1, <2>4
<1>27. CASE Press2Server
  BY <1>27 DEF Press2Server, serverVars, qpVars, memoryVars, clientVars, operatorVars
<1>28. CASE Press8
  BY <1>28 DEF Press8, ServerEnds, serverVars, qpVars, memoryVars, clientVars, operatorVars
<1>29. CASE UNCHANGED vars
  BY <1>29 DEF vars, serverVars, qpVars, memoryVars, clientVars, operatorVars
<1> QED
  BY <1>1, <1>2, <1>3, <1>4, <1>5, <1>6, <1>7, <1>8, <1>9, <1>10, <1>11, <1>12, <1>13, <1>14, <1>15, <1>16, <1>17, <1>18, <1>19, <1>20, <1>21, <1>22, <1>23, <1>24, <1>25, <1>26, <1>27, <1>28, <1>29 DEF Next, Server, Client, Nic, Operator

LEMMA MeetingStep ==
  ASSUME Inv, Course, [Next]_vars, Calm' PROVE Meeting'
<1>0. Calm /\ scn' = scn /\ ~Fails
  BY CalmBefore DEF Inv
<1>00. Unharmed /\ Meeting /\ Restarting /\ KeyPassed /\ Answered /\ Snapshot
  BY <1>0 DEF Course
<1> USE <1>0, <1>00 DEF Meeting, Unharmed, Gone, Connecting, Queries, Modifies
<1>1. CASE Listen
  BY <1>1 DEF Listen, ServerEnds, serverVars, qpVars, memoryVars, clientVars, operatorVars
<1>2. CASE Accept
  BY <1>2, CalmAccept
<1>3. CASE Accepted
  <2>1. ci \in Conns /\ si \in Conns
    BY DEF Inv, TypeOK, ServerTypes, ClientTypes
  <2>2. cm[si] = "open" /\ UNCHANGED <<cm, cpc, ci, cqp>> /\ spc = "await"
    BY <1>3, CalmAccepted
  <2>3. spc' = "accept" \/ (spc' = "query" /\ si = NumConn)
    BY <1>3, CalmAccepted
  <2>4. cpc \in Connecting => si < ci
    BY <2>1, <2>2 DEF Conns
  <2>5. cpc \in Connecting => spc' = "accept"
    BY <2>1, <2>3, <2>4 DEF Conns
  <2> QED
    BY <2>2, <2>3, <2>5
<1>4. CASE Query
  BY <1>4, CalmQuery
<1>5. CASE Modify
  BY <1>5, CalmModify
<1>6. CASE NullEndpoint
  BY <1>6, CalmNullEndpoint
<1>7. CASE NextQp
  BY <1>7 DEF NextQp, serverVars, qpVars, memoryVars, clientVars, operatorVars
<1>8. CASE Register
  BY <1>8 DEF Register, ServerEnds, serverVars, qpVars, memoryVars, clientVars, operatorVars
<1>9. CASE OpenFile
  BY <1>9 DEF OpenFile, Opened, ServerEnds, serverVars, qpVars, memoryVars, clientVars, operatorVars
<1>10. CASE WriteFile
  BY <1>10 DEF WriteFile, serverVars, qpVars, memoryVars, clientVars, operatorVars
<1>11. CASE Connect
  BY <1>11, CalmConnect
<1>12. CASE Establish
  <2>1. cpc = "wait" /\ cm[ci] = "reply" /\ ci \in Conns
    BY <1>12 DEF Establish, Inv, TypeOK, ClientTypes
  <2>2. spc = "await" /\ spc' = spc
    BY <1>12, <2>1 DEF Inv, Dialogue, Establish, serverVars
  <2>3. \A j \in Conns : cm'[j] = IF j = ci THEN "open" ELSE cm[j]
    BY <1>12, <2>1 DEF Establish, Inv, TypeOK, ClientTypes
  <2>4. \A j \in Conns : cqp'[j] = IF j = ci THEN "RTS" ELSE cqp[j]
    BY <1>12, <2>1 DEF Establish, Inv, TypeOK, ClientTypes
  <2>5. CASE ci = NumConn
    <3>1. cpc' = "regmem"
      BY <1>12, <2>5 DEF Establish, Connected
    <3>2. \A j \in Conns : cqp'[j] = "RTS"
      BY <2>1, <2>4, <2>5 DEF Conns
    <3> QED
      BY <2>2, <3>1, <3>2
  <2>6. CASE ci # NumConn
    <3>1. cpc' = "connect" /\ ci' = ci + 1
      BY <1>12, <2>6 DEF Establish, Connected
    <3>2. \A j \in Conns : j >= ci + 1 => cm'[j] # "open"
      BY <2>1, <2>3 DEF Conns
    <3>3. \A j \in Conns : j < ci + 1 => cqp'[j] = "RTS"
      BY <2>1, <2>4 DEF Conns
    <3> QED
      BY <2>2, <3>1, <3>2, <3>3
  <2> QED
    BY <2>5, <2>6
<1>13. CASE RegMem
  BY <1>13 DEF RegMem, serverVars, qpVars, memoryVars, clientVars, operatorVars
<1>14. CASE ReadFile
  BY <1>14, CalmReadFile
<1>15. CASE Post
  BY <1>15, CalmPost
<1>16. CASE Poll
  BY <1>16 DEF Poll, Completions, serverVars, qpVars, memoryVars, clientVars, operatorVars
<1>17. CASE GiveUp
  BY <1>17, CalmGiveUp
<1>18. CASE Execute
  BY <1>18, CalmExecute
<1>19. CASE Complete
  BY <1>19, CalmComplete
<1>20. CASE Retry
  BY <1>20, CalmRetry
<1>21. CASE LosePacket
  BY <1>21, CalmLosePacket
<1>22. CASE StartClient
  <2>1. spc = "accept" /\ cpc = "off" /\ cpc' = "connect" /\ UNCHANGED <<spc, ci, cqp, cm>>
    BY <1>22 DEF StartClient, Allows, Calm, serverVars
  <2>2. \A j \in Conns : ~(j < ci)
    BY <2>1 DEF Conns
  <2> QED
    BY <2>1, <2>2
<1>23. CASE CopyFile
  BY <1>23 DEF CopyFile, serverVars, qpVars, memoryVars, clientVars, operatorVars
<1>24. CASE Configure
  BY <1>24 DEF Configure, serverVars, qpVars, memoryVars, clientVars, operatorVars
<1>25. CASE Press1
  BY <1>25 DEF Press1, serverVars, qpVars, memoryVars, clientVars, operatorVars
<1>26. CASE Press2Client
  BY <1>26 DEF Press2Client, ClientEnds, serverVars, qpVars, memoryVars, clientVars, operatorVars
<1>27. CASE Press2Server
  BY <1>27 DEF Press2Server, serverVars, qpVars, memoryVars, clientVars, operatorVars
<1>28. CASE Press8
  BY <1>28 DEF Press8, ServerEnds, serverVars, qpVars, memoryVars, clientVars, operatorVars
<1>29. CASE UNCHANGED vars
  BY <1>29 DEF vars, serverVars, qpVars, memoryVars, clientVars, operatorVars
<1> QED
  BY <1>1, <1>2, <1>3, <1>4, <1>5, <1>6, <1>7, <1>8, <1>9, <1>10, <1>11, <1>12, <1>13, <1>14, <1>15, <1>16, <1>17, <1>18, <1>19, <1>20, <1>21, <1>22, <1>23, <1>24, <1>25, <1>26, <1>27, <1>28, <1>29 DEF Next, Server, Client, Nic, Operator

LEMMA RestartingStep ==
  ASSUME Inv, Course, [Next]_vars, Calm' PROVE Restarting'
<1>0. Calm /\ scn' = scn /\ ~Fails
  BY CalmBefore DEF Inv
<1>00. Unharmed /\ Meeting /\ Restarting /\ KeyPassed /\ Answered /\ Snapshot
  BY <1>0 DEF Course
<1> USE <1>0, <1>00 DEF Restarting, Restarted, Unharmed, Queries, Modifies, Serving
<1>1. CASE Listen
  BY <1>1 DEF Listen, ServerEnds, serverVars, qpVars, memoryVars, clientVars, operatorVars
<1>2. CASE Accept
  BY <1>2, CalmAccept
<1>3. CASE Accepted
  <2>1. /\ asked' = {} /\ sqp' = sqp /\ armed' = armed
        /\ spc' = "accept" \/ (spc' = "query" /\ si' = 1)
    BY <1>3, CalmAccepted
  <2>2. \A j \in Conns : ~(j < 1)
    BY DEF Conns
  <2> QED
    BY <2>1, <2>2
<1>4. CASE Query
  BY <1>4, CalmQuery
<1>5. CASE Modify
  <2>1. spc \in Modifies /\ UNCHANGED <<si, asked>> /\ si \in Conns
    BY <1>5, CalmModify DEF Inv, TypeOK, ServerTypes
  <2>2. \A j \in Conns : j < si => Restarted(j)'
    <3>1. \A j \in Conns : j < si => j # si /\ Restarted(j)
      BY <2>1 DEF Conns
    <3> QED
      BY <1>5, <3>1, CalmModify
  <2>3. \/ spc' = "init" /\ sqp'[si] = "RESET"
        \/ spc' = "rtr" /\ sqp'[si] = "INIT" /\ si \in armed'
        \/ spc' = "rts" /\ sqp'[si] = "RTR" /\ si \in armed'
        \/ spc' = "next" /\ Restarted(si)'
    BY <1>5, CalmModify
  <2>4. spc' = "next" => \A j \in Conns : j <= si => Restarted(j)'
    <3>1. \A j \in Conns : j <= si => j < si \/ j = si
      BY <2>1 DEF Conns
    <3>2. spc' = "next" => Restarted(si)'
      BY <2>3
    <3> QED
      BY <2>1, <2>2, <3>1, <3>2
  <2> QED
    BY <2>1, <2>2, <2>3, <2>4
<1>6. CASE NullEndpoint
  BY <1>6, CalmNullEndpoint
<1>7. CASE NextQp
  <2>1. spc = "next" /\ asked' = {} /\ UNCHANGED <<sqp, armed>> /\ si \in Conns
    BY <1>7 DEF NextQp, qpVars, Inv, TypeOK, ServerTypes
  <2>2. \/ si < NumConn /\ si' = si + 1 /\ spc' = "query"
        \/ ~(si < NumConn) /\ spc' = "register"
    BY <1>7 DEF NextQp
  <2>3. spc' = "query" => \A j \in Conns : j < si' => j <= si
    BY <2>1, <2>2 DEF Conns
  <2>4. spc' = "register" => \A j \in Conns : j <= si
    BY <2>1, <2>2, ConnectionAssumption DEF Conns
  <2> QED
    BY <2>1, <2>2, <2>3, <2>4
<1>8. CASE Register
  BY <1>8 DEF Register, ServerEnds, serverVars, qpVars, memoryVars, clientVars, operatorVars
<1>9. CASE OpenFile
  BY <1>9 DEF OpenFile, Opened, ServerEnds, serverVars, qpVars, memoryVars, clientVars, operatorVars
<1>10. CASE WriteFile
  BY <1>10 DEF WriteFile, serverVars, qpVars, memoryVars, clientVars, operatorVars
<1>11. CASE Connect
  BY <1>11, CalmConnect
<1>12. CASE Establish
  BY <1>12 DEF Establish, Connected, serverVars, qpVars, memoryVars, clientVars, operatorVars
<1>13. CASE RegMem
  BY <1>13 DEF RegMem, serverVars, qpVars, memoryVars, clientVars, operatorVars
<1>14. CASE ReadFile
  BY <1>14, CalmReadFile
<1>15. CASE Post
  BY <1>15, CalmPost
<1>16. CASE Poll
  BY <1>16 DEF Poll, Completions, serverVars, qpVars, memoryVars, clientVars, operatorVars
<1>17. CASE GiveUp
  BY <1>17, CalmGiveUp
<1>18. CASE Execute
  BY <1>18, CalmExecute
<1>19. CASE Complete
  BY <1>19, CalmComplete
<1>20. CASE Retry
  BY <1>20, CalmRetry
<1>21. CASE LosePacket
  BY <1>21, CalmLosePacket
<1>22. CASE StartClient
  BY <1>22 DEF StartClient, serverVars, qpVars, memoryVars, clientVars, operatorVars
<1>23. CASE CopyFile
  BY <1>23 DEF CopyFile, serverVars, qpVars, memoryVars, clientVars, operatorVars
<1>24. CASE Configure
  BY <1>24 DEF Configure, serverVars, qpVars, memoryVars, clientVars, operatorVars
<1>25. CASE Press1
  BY <1>25 DEF Press1, serverVars, qpVars, memoryVars, clientVars, operatorVars
<1>26. CASE Press2Client
  BY <1>26 DEF Press2Client, ClientEnds, serverVars, qpVars, memoryVars, clientVars, operatorVars
<1>27. CASE Press2Server
  BY <1>27 DEF Press2Server, serverVars, qpVars, memoryVars, clientVars, operatorVars
<1>28. CASE Press8
  BY <1>28 DEF Press8, ServerEnds, serverVars, qpVars, memoryVars, clientVars, operatorVars
<1>29. CASE UNCHANGED vars
  BY <1>29 DEF vars, serverVars, qpVars, memoryVars, clientVars, operatorVars
<1> QED
  BY <1>1, <1>2, <1>3, <1>4, <1>5, <1>6, <1>7, <1>8, <1>9, <1>10, <1>11, <1>12, <1>13, <1>14, <1>15, <1>16, <1>17, <1>18, <1>19, <1>20, <1>21, <1>22, <1>23, <1>24, <1>25, <1>26, <1>27, <1>28, <1>29 DEF Next, Server, Client, Nic, Operator

LEMMA KeyPassedStep ==
  ASSUME Inv, Course, [Next]_vars, Calm' PROVE KeyPassed'
<1>0. Calm /\ scn' = scn /\ ~Fails
  BY CalmBefore DEF Inv
<1>00. Unharmed /\ Meeting /\ Restarting /\ KeyPassed /\ Answered /\ Snapshot
  BY <1>0 DEF Course
<1> USE <1>0, <1>00 DEF KeyPassed, Unharmed, Meeting, Serving, Prompts, Connecting, Queries, Modifies, Gone, Calm, Allows
<1>1. CASE Listen
  BY <1>1 DEF Listen, ServerEnds, serverVars, qpVars, memoryVars, clientVars, operatorVars
<1>2. CASE Accept
  BY <1>2, CalmAccept
<1>3. CASE Accepted
  BY <1>3, CalmAccepted
<1>4. CASE Query
  BY <1>4, CalmQuery
<1>5. CASE Modify
  BY <1>5, CalmModify
<1>6. CASE NullEndpoint
  BY <1>6, CalmNullEndpoint
<1>7. CASE NextQp
  BY <1>7 DEF NextQp, serverVars, qpVars, memoryVars, clientVars, operatorVars
<1>8. CASE Register
  BY <1>8 DEF Register, ServerEnds, serverVars, qpVars, memoryVars, clientVars, operatorVars
<1>9. CASE OpenFile
  BY <1>9 DEF OpenFile, Opened, ServerEnds, serverVars, qpVars, memoryVars, clientVars, operatorVars
<1>10. CASE WriteFile
  BY <1>10 DEF WriteFile, serverVars, qpVars, memoryVars, clientVars, operatorVars
<1>11. CASE Connect
  BY <1>11, CalmConnect
<1>12. CASE Establish
  BY <1>12 DEF Establish, Connected, serverVars, qpVars, memoryVars, clientVars, operatorVars
<1>13. CASE RegMem
  BY <1>13 DEF RegMem, serverVars, qpVars, memoryVars, clientVars, operatorVars
<1>14. CASE ReadFile
  BY <1>14, CalmReadFile
<1>15. CASE Post
  BY <1>15, CalmPost
<1>16. CASE Poll
  BY <1>16 DEF Poll, Completions, serverVars, qpVars, memoryVars, clientVars, operatorVars
<1>17. CASE GiveUp
  BY <1>17, CalmGiveUp
<1>18. CASE Execute
  BY <1>18, CalmExecute
<1>19. CASE Complete
  BY <1>19, CalmComplete
<1>20. CASE Retry
  BY <1>20, CalmRetry
<1>21. CASE LosePacket
  BY <1>21, CalmLosePacket
<1>22. CASE StartClient
  BY <1>22 DEF StartClient, serverVars, qpVars, memoryVars, clientVars, operatorVars
<1>23. CASE CopyFile
  BY <1>23 DEF CopyFile, serverVars, qpVars, memoryVars, clientVars, operatorVars
<1>24. CASE Configure
  BY <1>24 DEF Configure, serverVars, qpVars, memoryVars, clientVars, operatorVars
<1>25. CASE Press1
  BY <1>25 DEF Press1, serverVars, qpVars, memoryVars, clientVars, operatorVars
<1>26. CASE Press2Client
  BY <1>26 DEF Press2Client, ClientEnds, serverVars, qpVars, memoryVars, clientVars, operatorVars
<1>27. CASE Press2Server
  BY <1>27 DEF Press2Server, serverVars, qpVars, memoryVars, clientVars, operatorVars
<1>28. CASE Press8
  BY <1>28 DEF Press8, ServerEnds, serverVars, qpVars, memoryVars, clientVars, operatorVars
<1>29. CASE UNCHANGED vars
  BY <1>29 DEF vars, serverVars, qpVars, memoryVars, clientVars, operatorVars
<1> QED
  BY <1>1, <1>2, <1>3, <1>4, <1>5, <1>6, <1>7, <1>8, <1>9, <1>10, <1>11, <1>12, <1>13, <1>14, <1>15, <1>16, <1>17, <1>18, <1>19, <1>20, <1>21, <1>22, <1>23, <1>24, <1>25, <1>26, <1>27, <1>28, <1>29 DEF Next, Server, Client, Nic, Operator

LEMMA AnsweredStep ==
  ASSUME Inv, Course, [Next]_vars, Calm' PROVE Answered'
<1>0. Calm /\ scn' = scn /\ ~Fails
  BY CalmBefore DEF Inv
<1>00. Unharmed /\ Meeting /\ Restarting /\ KeyPassed /\ Answered /\ Snapshot
  BY <1>0 DEF Course
<1> USE <1>0, <1>00 DEF Answered, Unharmed, KeyPassed, Gone
<1>1. CASE Listen
  BY <1>1 DEF Listen, ServerEnds, serverVars, qpVars, memoryVars, clientVars, operatorVars
<1>2. CASE Accept
  BY <1>2, CalmAccept
<1>3. CASE Accepted
  BY <1>3, CalmAccepted
<1>4. CASE Query
  BY <1>4, CalmQuery
<1>5. CASE Modify
  BY <1>5, CalmModify
<1>6. CASE NullEndpoint
  BY <1>6, CalmNullEndpoint
<1>7. CASE NextQp
  BY <1>7 DEF NextQp, serverVars, qpVars, memoryVars, clientVars, operatorVars
<1>8. CASE Register
  BY <1>8 DEF Register, ServerEnds, serverVars, qpVars, memoryVars, clientVars, operatorVars
<1>9. CASE OpenFile
  BY <1>9 DEF OpenFile, Opened, ServerEnds, serverVars, qpVars, memoryVars, clientVars, operatorVars
<1>10. CASE WriteFile
  BY <1>10 DEF WriteFile, serverVars, qpVars, memoryVars, clientVars, operatorVars
<1>11. CASE Connect
  BY <1>11, CalmConnect
<1>12. CASE Establish
  BY <1>12 DEF Establish, Connected, serverVars, qpVars, memoryVars, clientVars, operatorVars
<1>13. CASE RegMem
  BY <1>13 DEF RegMem, serverVars, qpVars, memoryVars, clientVars, operatorVars
<1>14. CASE ReadFile
  BY <1>14, CalmReadFile
<1>15. CASE Post
  BY <1>15, CalmPost
<1>16. CASE Poll
  BY <1>16 DEF Poll, Completions, serverVars, qpVars, memoryVars, clientVars, operatorVars
<1>17. CASE GiveUp
  BY <1>17, CalmGiveUp
<1>18. CASE Execute
  BY <1>18, CalmExecute
<1>19. CASE Complete
  BY <1>19, CalmComplete
<1>20. CASE Retry
  BY <1>20, CalmRetry
<1>21. CASE LosePacket
  BY <1>21, CalmLosePacket
<1>22. CASE StartClient
  BY <1>22 DEF StartClient, serverVars, qpVars, memoryVars, clientVars, operatorVars
<1>23. CASE CopyFile
  BY <1>23 DEF CopyFile, serverVars, qpVars, memoryVars, clientVars, operatorVars
<1>24. CASE Configure
  BY <1>24 DEF Configure, serverVars, qpVars, memoryVars, clientVars, operatorVars
<1>25. CASE Press1
  BY <1>25 DEF Press1, serverVars, qpVars, memoryVars, clientVars, operatorVars
<1>26. CASE Press2Client
  BY <1>26 DEF Press2Client, ClientEnds, serverVars, qpVars, memoryVars, clientVars, operatorVars
<1>27. CASE Press2Server
  BY <1>27 DEF Press2Server, serverVars, qpVars, memoryVars, clientVars, operatorVars
<1>28. CASE Press8
  BY <1>28 DEF Press8, ServerEnds, serverVars, qpVars, memoryVars, clientVars, operatorVars
<1>29. CASE UNCHANGED vars
  BY <1>29 DEF vars, serverVars, qpVars, memoryVars, clientVars, operatorVars
<1> QED
  BY <1>1, <1>2, <1>3, <1>4, <1>5, <1>6, <1>7, <1>8, <1>9, <1>10, <1>11, <1>12, <1>13, <1>14, <1>15, <1>16, <1>17, <1>18, <1>19, <1>20, <1>21, <1>22, <1>23, <1>24, <1>25, <1>26, <1>27, <1>28, <1>29 DEF Next, Server, Client, Nic, Operator

LEMMA SnapshotStep ==
  ASSUME Inv, Course, [Next]_vars, Calm' PROVE Snapshot'
<1>0. Calm /\ scn' = scn /\ ~Fails
  BY CalmBefore DEF Inv
<1>00. Unharmed /\ Meeting /\ Restarting /\ KeyPassed /\ Answered /\ Snapshot
  BY <1>0 DEF Course
<1> USE <1>0, <1>00 DEF Snapshot, Unharmed, Gone, Modifies, Queries, Prompts, KeyPassed, Calm, Allows
<1>1. CASE Listen
  BY <1>1 DEF Listen, ServerEnds, serverVars, qpVars, memoryVars, clientVars, operatorVars
<1>2. CASE Accept
  BY <1>2, CalmAccept
<1>3. CASE Accepted
  BY <1>3, CalmAccepted
<1>4. CASE Query
  BY <1>4, CalmQuery
<1>5. CASE Modify
  BY <1>5, CalmModify
<1>6. CASE NullEndpoint
  BY <1>6, CalmNullEndpoint
<1>7. CASE NextQp
  BY <1>7 DEF NextQp, serverVars, qpVars, memoryVars, clientVars, operatorVars
<1>8. CASE Register
  BY <1>8 DEF Register, ServerEnds, serverVars, qpVars, memoryVars, clientVars, operatorVars
<1>9. CASE OpenFile
  BY <1>9 DEF OpenFile, Opened, ServerEnds, serverVars, qpVars, memoryVars, clientVars, operatorVars
<1>10. CASE WriteFile
  BY <1>10 DEF WriteFile, serverVars, qpVars, memoryVars, clientVars, operatorVars
<1>11. CASE Connect
  BY <1>11, CalmConnect
<1>12. CASE Establish
  BY <1>12 DEF Establish, Connected, serverVars, qpVars, memoryVars, clientVars, operatorVars
<1>13. CASE RegMem
  BY <1>13 DEF RegMem, serverVars, qpVars, memoryVars, clientVars, operatorVars
<1>14. CASE ReadFile
  BY <1>14, CalmReadFile
<1>15. CASE Post
  BY <1>15, CalmPost
<1>16. CASE Poll
  <2>1. cpc = "poll" /\ UNCHANGED <<epsn, cpsn, spc, cfg>> /\ cpc' = "prompt2"
    BY <1>16 DEF Poll, serverVars, qpVars, operatorVars
  <2>2. rd.st = "good"
    BY <1>16, <2>1 DEF Poll, Completions, Answered
  <2>3. spc \in Serving /\ \A i \in Conns : cqp[i] = "RTS"
    BY <2>1 DEF Serving, Meeting, Connecting
  <2>4. \A i \in Conns : sqp[i] = "RTS"
    BY <2>3 DEF Restarting, Restarted
  <2>5. \A i \in Conns : epsn[i] = cpsn[i]
    BY <2>2, <2>3, <2>4 DEF Inv, Sync, InStep, Outstanding, Receiving
  <2> QED
    BY <2>1, <2>5
<1>17. CASE GiveUp
  BY <1>17, CalmGiveUp
<1>18. CASE Execute
  BY <1>18, CalmExecute
<1>19. CASE Complete
  BY <1>19, CalmComplete
<1>20. CASE Retry
  BY <1>20, CalmRetry
<1>21. CASE LosePacket
  BY <1>21, CalmLosePacket
<1>22. CASE StartClient
  BY <1>22 DEF StartClient, serverVars, qpVars, memoryVars, clientVars, operatorVars
<1>23. CASE CopyFile
  BY <1>23 DEF CopyFile, serverVars, qpVars, memoryVars, clientVars, operatorVars
<1>24. CASE Configure
  BY <1>24 DEF Configure, serverVars, qpVars, memoryVars, clientVars, operatorVars
<1>25. CASE Press1
  BY <1>25 DEF Press1, serverVars, qpVars, memoryVars, clientVars, operatorVars
<1>26. CASE Press2Client
  BY <1>26 DEF Press2Client, ClientEnds, serverVars, qpVars, memoryVars, clientVars, operatorVars
<1>27. CASE Press2Server
  BY <1>27 DEF Press2Server, serverVars, qpVars, memoryVars, clientVars, operatorVars
<1>28. CASE Press8
  BY <1>28 DEF Press8, ServerEnds, serverVars, qpVars, memoryVars, clientVars, operatorVars
<1>29. CASE UNCHANGED vars
  BY <1>29 DEF vars, serverVars, qpVars, memoryVars, clientVars, operatorVars
<1> QED
  BY <1>1, <1>2, <1>3, <1>4, <1>5, <1>6, <1>7, <1>8, <1>9, <1>10, <1>11, <1>12, <1>13, <1>14, <1>15, <1>16, <1>17, <1>18, <1>19, <1>20, <1>21, <1>22, <1>23, <1>24, <1>25, <1>26, <1>27, <1>28, <1>29 DEF Next, Server, Client, Nic, Operator


LEMMA InitCourse == Init => Course
<1> SUFFICES ASSUME Init, Calm PROVE Course
  BY DEF Course
<1>1. Unharmed /\ Meeting
  BY DEF Init, Unharmed, Meeting, Connecting, Conns
<1>2. Restarting
  BY DEF Init, Restarting, Queries, Modifies, Serving
<1>3. KeyPassed /\ Answered /\ Snapshot
  BY DEF Init, KeyPassed, Answered, Snapshot, Serving, Prompts
<1> QED
  BY <1>1, <1>2, <1>3 DEF Course

LEMMA NextCourse == Inv /\ Course /\ [Next]_vars => Course'
  BY UnharmedStep, MeetingStep, RestartingStep, KeyPassedStep, AnsweredStep, SnapshotStep DEF Course

-----------------------------------------------------------------------------
(* What the switch makes of the word that parse.py writes.                 *)

LEMMA FirstWord ==
  ASSUME NEW psn \in Psns
  PROVE  FirstPsn(Register32(psn)) = psn /\ FirstAck(Register32(psn))
<1>1. PsnMod \in Nat \ {0} /\ psn \in 0..(PsnMod - 1)
  BY ConnectionAssumption DEF Psns
<1>2. Register32(psn) + 1 = psn + 2 * PsnMod
  BY <1>1 DEF Register32, AckBit
<1>3. (psn + 2 * PsnMod) % PsnMod = psn
  BY <1>1
<1>4. (psn + 2 * PsnMod) \div (2 * PsnMod) = 1
  BY <1>1
<1> QED
  BY <1>2, <1>3, <1>4 DEF FirstPsn, FirstAck, AckBit

LEMMA CourseConfigured == Inv /\ Course => Configured
<1> SUFFICES ASSUME Inv, Course, Calm, NEW i \in Conns, cfg[i] # -1, spc \notin Gone
             PROVE  sqp[i] = "RTS" /\ i \in armed /\ FirstPsn(cfg[i]) = epsn[i] /\ FirstAck(cfg[i])
  BY DEF Configured, Calm
<1>1. Restarting /\ KeyPassed /\ Snapshot
  BY DEF Course
<1>2. cpc \in {"prompt2", "done"} /\ cfg[i] = Register32(cpsn[i])
  BY <1>1 DEF Snapshot
<1>3. spc \in Prompts /\ epsn[i] = cpsn[i]
  BY <1>1, <1>2 DEF KeyPassed, Snapshot, Gone
<1>4. Restarted(i)
  BY <1>1, <1>3 DEF Restarting, Prompts, Serving
<1>5. cpsn[i] \in Psns
  BY DEF Inv, TypeOK, ClientTypes
<1> QED
  BY <1>2, <1>3, <1>4, <1>5, FirstWord DEF Restarted

\* For any number of connections: with the order of the readme kept and nothing failed, no
\* program crashes, and what the client has read is the guest's word, whatever files an earlier
\* run left behind (rdmatry_server.cpp:181-352, rdmatry_client.cpp:207-283).
THEOREM OrderHolds == Spec => []OrderSuffices
<1>1. Inv /\ Course => OrderSuffices
  BY DEF Course, Calm, Unharmed, Answered, OrderSuffices
<1> QED
  BY <1>1, InitInv, NextInv, InitCourse, NextCourse, PTL DEF Spec

\* For any number of connections and any start PSNs, the one that wraps included: the register
\* the operator writes makes the switch's first request carry the PSN the server expects
\* (parse.py:20, simple.py:40).
THEOREM FirstRequestFits == Spec => []Configured
<1> QED
  BY CourseConfigured, InitInv, NextInv, InitCourse, NextCourse, PTL DEF Spec
=============================================================================
