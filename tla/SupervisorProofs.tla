-------------------------- MODULE SupervisorProofs --------------------------
(***************************************************************************)
(* Theorems about the two ends of a job in the daemon.  Supervisor: a      *)
(* durable drain holds, for every set of organizations, jobs and control   *)
(* calls, every interleaving and any number of crashes; the counters of    *)
(* admission are exact, and what an installer read as idle stays so.       *)
(* OutputEvents: the output of a job arrives as a reliable stream, and     *)
(* exactly, for every length of the streams and of a chunk, and every number *)
(* of crashes, lost replies and failed writes.                             *)
(***************************************************************************)
EXTENDS Supervisor, OutputEvents, FiniteSetTheorems, TLAPS

(***************************************************************************)
(* DrainHolds alone is not inductive: MarkDrain writes the marker long     *)
(* after control_writer set the flags, so that an admitted drain call must *)
(* be known to have set them, and a drained lifecycle never to run open.   *)
(***************************************************************************)
DrainMarking == \E c \in Calls : Method[c] = "drain" /\ call[c] = "admitted"

DrainInv == /\ drainFile => lifecycle
            /\ lifecycle => draining
            /\ DrainMarking => lifecycle
            /\ call \in [Calls -> CallPCs]

\* The strengthened invariant holds at first.
LEMMA DrainInit == Init => DrainInv
BY DEF Init, DrainInv, DrainMarking, CallPCs

\* No other step of a call makes it a drain that is about to write.
LEMMA MarkingBegins ==
    ASSUME NEW c \in Calls, NEW pc \in CallPCs, call \in [Calls -> CallPCs],
           At(c, pc), pc = "admitted" => Method[c] # "drain"
    PROVE  call' \in [Calls -> CallPCs] /\ (DrainMarking' => DrainMarking)
BY DEF At, DrainMarking

\* The admission of a control call: only a drain touches the flags.
LEMMA DrainEnter ==
    ASSUME NEW c \in Calls, DrainInv, Enter(c)
    PROVE  DrainInv'
<1>1. call' \in [Calls -> CallPCs]
  BY DEF Enter, Refuse, Join, At, DrainInv, CallPCs
<1>2. UNCHANGED drainFile
  BY DEF Enter
<1>3. CASE UNCHANGED flags /\ (call'[c] = "admitted" => lifecycle \/ Method[c] # "drain")
  <2>1. DrainMarking' => DrainMarking \/ lifecycle
    BY <1>3 DEF Enter, Refuse, Join, At, DrainMarking, DrainInv
  <2> QED BY <1>1, <1>2, <1>3, <2>1 DEF DrainInv, flags
<1>4. CASE lifecycle' = TRUE /\ draining' = TRUE
  BY <1>1, <1>2, <1>4 DEF DrainInv
<1>5. CASE UNCHANGED <<lifecycle, draining>> /\ Method[c] # "drain"
  <2>1. DrainMarking' => DrainMarking
    BY <1>5 DEF Enter, Refuse, Join, At, DrainMarking, DrainInv
  <2> QED BY <1>1, <1>2, <1>5, <2>1 DEF DrainInv
<1> QED
  BY <1>3, <1>4, <1>5 DEF Enter, Refuse, Join, At, flags, DrainInv

\* The steps of an admitted call, one by one.
LEMMA DrainCall ==
    ASSUME NEW c \in Calls, DrainInv, CallStep(c)
    PROVE  DrainInv'
<1> USE MarkingBegins DEF DrainInv, CallPCs
<1>1. CASE Serve(c)
  BY <1>1 DEF Serve, flags
<1>2. CASE MarkDrain(c)
  <2>1. lifecycle
    BY <1>2 DEF MarkDrain, DrainMarking
  <2> QED BY <1>2, <2>1 DEF MarkDrain
<1>3. CASE GateLogout(c)
  BY <1>3 DEF GateLogout
<1>4. CASE AwaitQuiet(c)
  BY <1>4 DEF AwaitQuiet, EndLogout
<1>5. CASE RecordLogout(c)
  BY <1>5 DEF RecordLogout, flags
<1>6. CASE LogoutConflict(c)
  BY <1>6 DEF LogoutConflict, EndLogout
<1>7. CASE Revoke(c)
  BY <1>7 DEF Revoke, EndLogout
<1>8. CASE Select(c)
  BY <1>8 DEF Select, flags
<1>9. CASE Reopen(c)
  BY <1>9 DEF Reopen
<1>10. CASE EndCall(c)
  BY <1>10 DEF EndCall, flags
<1> QED
  BY <1>1, <1>2, <1>3, <1>4, <1>5, <1>6, <1>7, <1>8, <1>9, <1>10 DEF CallStep

\* Sessions, jobs and observers leave the flags and the calls alone.
LEMMA DrainElsewhere ==
    ASSUME DrainInv, UNCHANGED <<lifecycle, drainFile, call>>,
           draining' = draining \/ draining'
    PROVE  DrainInv'
BY DEF DrainInv, DrainMarking

\* Every step keeps it.
LEMMA DrainNext == DrainInv /\ [Next]_vars => DrainInv'
<1> SUFFICES ASSUME DrainInv, [Next]_vars PROVE DrainInv'
  OBVIOUS
<1>1. CASE \E o \in Orgs : SpawnSession(o) \/ SessionStep(o) \/ Reconnect(o)
  BY <1>1, DrainElsewhere DEF SessionStep, SpawnSession, AdmitSession, OpenSession,
     OpenFails, Poll, Lease, CloseSession, Reconnect, flags
<1>2. CASE \E j \in Jobs : WorkerEnds(j) \/ RecoveryEnds(j)
  BY <1>2, DrainElsewhere DEF WorkerEnds, RecoveryEnds, flags
<1>3. CASE \E c \in Calls : Enter(c)
  BY <1>3, DrainEnter
<1>4. CASE \E c \in Calls : CallStep(c)
  BY <1>4, DrainCall
<1>5. CASE Shutdown
  BY <1>5, DrainElsewhere DEF Shutdown
<1>6. CASE StopRunner \/ JoinRunner \/ Exit \/ SeeIdle
  BY <1>6, DrainElsewhere DEF StopRunner, JoinRunner, Exit, SeeIdle, flags
<1>7. CASE Crash
  <2>1. call' \in [Calls -> CallPCs] /\ ~DrainMarking'
    BY <1>7 DEF Crash, DrainMarking, DrainInv, CallPCs
  <2> QED BY <1>7, <2>1 DEF Crash, DrainInv
<1>8. CASE UNCHANGED vars
  BY <1>8, DrainElsewhere DEF vars, flags
<1> QED
  BY <1>1, <1>2, <1>3, <1>4, <1>5, <1>6, <1>7, <1>8 DEF Next

(***************************************************************************)
(* A drain whose marker is durable is in force in the running daemon and   *)
(* in every daemon started after a crash: no selection, logout or shutdown *)
(* that was under way reopens admission (control_writer, drain.json).      *)
(***************************************************************************)
THEOREM DrainStays == Spec => []DrainHolds
<1>1. DrainInv => DrainHolds
  BY DEF DrainInv, DrainHolds
<1> QED
  BY <1>1, DrainInit, DrainNext, PTL DEF Spec
-----------------------------------------------------------------------------
(***************************************************************************)
(* The idle acknowledgement.  That the counters are exact is inductive by  *)
(* itself; that idle is final is not: it needs the durable drain, under    *)
(* which nothing is admitted, and, for the intent of a logout, that the    *)
(* gate of its call is still shut while it waits: the gate is one flag,    *)
(* and a logout whose gate another one opened waits behind no gate.        *)
(***************************************************************************)
LogoutKnown ==
    \A c \in Calls :
        /\ call[c] \in {"gated", "quiet", "revoking"} => Method[c] = "logout"
        /\ call[c] \in {"gated", "quiet"} => logoutRequested \/ c \in exposed
        /\ call[c] = "quiet" => (active = 0 /\ quiescence = 0) \/ c \in exposed

IdleInv == /\ TypeOK /\ CountersMatchOwners /\ DrainInv /\ LogoutKnown
           /\ idleSeen => drainFile /\ managed = 0

\* What the sessions, the jobs and the calls add to the counters.
SessionCount == SessionsIn({"opening", "loop", "leasing", "closing"})
                + SessionsIn({"loop", "leasing", "closing"}) + SessionsIn({"leasing"})
Tasks == WorkIn({"worker", "recovery"})
Working == WorkIn({"worker"})
Writing == Cardinality(Writers)

\* What a session in this state adds.
Weight(pc) == CASE pc = "leasing" -> 3
                [] pc \in {"loop", "closing"} -> 2
                [] pc = "opening" -> 1
                [] OTHER -> 0

\* A subset of a finite set that gains or loses at most one element.
LEMMA OneMoves ==
    ASSUME NEW S, IsFiniteSet(S), NEW x, NEW T, \A y : y # x => (y \in S <=> y \in T)
    PROVE  /\ Cardinality(S) \in Nat /\ Cardinality(T) \in Nat
           /\ (x \in S <=> x \in T) => Cardinality(T) = Cardinality(S)
           /\ x \in S /\ x \notin T => Cardinality(T) = Cardinality(S) - 1
           /\ x \notin S /\ x \in T => Cardinality(T) = Cardinality(S) + 1
<1>1. CASE x \in S <=> x \in T
  <2>1. S = T
    BY <1>1
  <2> QED
    BY <2>1, FS_CardinalityType
<1>2. CASE x \in S /\ x \notin T
  <2>1. T = S \ {x}
    BY <1>2
  <2> QED
    BY <1>2, <2>1, FS_RemoveElement, FS_CardinalityType
<1>3. CASE x \notin S /\ x \in T
  <2>1. T = S \cup {x}
    BY <1>3
  <2> QED
    BY <1>3, <2>1, FS_AddElement, FS_CardinalityType
<1> QED
  BY <1>1, <1>2, <1>3

\* A session that moves changes the number of sessions in some states by one at most.
LEMMA SessionsMove ==
    ASSUME NEW o \in Orgs, NEW pc, session \in [Orgs -> SessionPCs],
           session' = [session EXCEPT ![o] = pc], NEW pcs
    PROVE  /\ SessionsIn(pcs) \in Nat /\ SessionsIn(pcs)' \in Nat
           /\ SessionsIn(pcs)' = SessionsIn(pcs) + (IF pc \in pcs THEN 1 ELSE 0)
                                                 - (IF session[o] \in pcs THEN 1 ELSE 0)
<1> DEFINE S == {p \in Orgs : session[p] \in pcs}
           T == {p \in Orgs : session'[p] \in pcs}
<1>1. IsFiniteSet(S)
  BY FiniteAssumption, FS_Subset
<1>2. \A p : p # o => (p \in S <=> p \in T)
  OBVIOUS
<1>3. (o \in S <=> session[o] \in pcs) /\ (o \in T <=> pc \in pcs)
  OBVIOUS
<1>4. SessionsIn(pcs) = Cardinality(S) /\ SessionsIn(pcs)' = Cardinality(T)
  BY DEF SessionsIn
<1> HIDE DEF S, T
<1>5. /\ Cardinality(S) \in Nat /\ Cardinality(T) \in Nat
      /\ (o \in S <=> o \in T) => Cardinality(T) = Cardinality(S)
      /\ o \in S /\ o \notin T => Cardinality(T) = Cardinality(S) - 1
      /\ o \notin S /\ o \in T => Cardinality(T) = Cardinality(S) + 1
  BY <1>1, <1>2, OneMoves
<1> QED
  BY <1>3, <1>4, <1>5

\* A session that moves takes its weight along.
LEMMA SessionCounted ==
    ASSUME NEW o \in Orgs, NEW pc \in SessionPCs, session \in [Orgs -> SessionPCs],
           session' = [session EXCEPT ![o] = pc]
    PROVE  /\ session' \in [Orgs -> SessionPCs]
           /\ SessionCount \in Nat /\ SessionCount' \in Nat
           /\ SessionCount' = SessionCount + Weight(pc) - Weight(session[o])
<1> DEFINE A == {"opening", "loop", "leasing", "closing"}
           B == {"loop", "leasing", "closing"}
           C == {"leasing"}
           In(pcs, p) == IF p \in pcs THEN 1 ELSE 0
<1>1. \A p \in SessionPCs : Weight(p) = In(A, p) + In(B, p) + In(C, p)
  BY DEF Weight, SessionPCs
<1>2. SessionCount = SessionsIn(A) + SessionsIn(B) + SessionsIn(C)
  BY DEF SessionCount
<1>5. SessionCount' = SessionsIn(A)' + SessionsIn(B)' + SessionsIn(C)'
  BY DEF SessionCount
<1> HIDE DEF A, B, C
<1>3. ASSUME NEW pcs
      PROVE  /\ SessionsIn(pcs) \in Nat /\ SessionsIn(pcs)' \in Nat
             /\ SessionsIn(pcs)' = SessionsIn(pcs) + In(pcs, pc) - In(pcs, session[o])
  BY SessionsMove
<1>4. session[o] \in SessionPCs /\ session' \in [Orgs -> SessionPCs]
  OBVIOUS
<1> HIDE DEF In
<1>6. \A pcs, p : In(pcs, p) \in {0, 1}
  BY DEF In
<1> QED
  BY <1>1, <1>2, <1>3, <1>4, <1>5, <1>6

\* A job whose task begins or ends.
LEMMA WorkCounted ==
    ASSUME NEW j \in Jobs, NEW s \in WorkStates, work \in [Jobs -> WorkStates],
           work' = [work EXCEPT ![j] = s]
    PROVE  /\ work' \in [Jobs -> WorkStates]
           /\ Tasks \in Nat /\ Tasks' \in Nat /\ Working \in Nat /\ Working' \in Nat
           /\ Tasks' = Tasks + (IF s \in {"worker", "recovery"} THEN 1 ELSE 0)
                             - (IF work[j] \in {"worker", "recovery"} THEN 1 ELSE 0)
           /\ Working' = Working + (IF s = "worker" THEN 1 ELSE 0)
                                 - (IF work[j] = "worker" THEN 1 ELSE 0)
<1>1. ASSUME NEW states
      PROVE  /\ WorkIn(states) \in Nat /\ WorkIn(states)' \in Nat
             /\ WorkIn(states)' = WorkIn(states) + (IF s \in states THEN 1 ELSE 0)
                                                 - (IF work[j] \in states THEN 1 ELSE 0)
  <2> DEFINE S == {i \in Jobs : work[i] \in states}
             T == {i \in Jobs : work'[i] \in states}
  <2>1. IsFiniteSet(S)
    BY FiniteAssumption, FS_Subset
  <2>2. \A i : i # j => (i \in S <=> i \in T)
    OBVIOUS
  <2>3. (j \in S <=> work[j] \in states) /\ (j \in T <=> s \in states)
    OBVIOUS
  <2>4. WorkIn(states) = Cardinality(S) /\ WorkIn(states)' = Cardinality(T)
    BY DEF WorkIn
  <2> HIDE DEF S, T
  <2>5. /\ Cardinality(S) \in Nat /\ Cardinality(T) \in Nat
        /\ (j \in S <=> j \in T) => Cardinality(T) = Cardinality(S)
        /\ j \in S /\ j \notin T => Cardinality(T) = Cardinality(S) - 1
        /\ j \notin S /\ j \in T => Cardinality(T) = Cardinality(S) + 1
    BY <2>1, <2>2, OneMoves
  <2> QED
    BY <2>3, <2>4, <2>5
<1> QED
  BY <1>1 DEF Tasks, Working

\* recover() gives each journal that nobody owned a task.
LEMMA RecoveryCounted ==
    ASSUME NEW o \in Orgs, NEW mine \in SUBSET Left(o), work \in [Jobs -> WorkStates],
           Recover(mine)
    PROVE  /\ work' \in [Jobs -> WorkStates]
           /\ Tasks \in Nat /\ Tasks' \in Nat /\ Working \in Nat /\ Working' = Working
           /\ Cardinality(mine) \in Nat /\ Tasks' = Tasks + Cardinality(mine)
<1> DEFINE S == {i \in Jobs : work[i] \in {"worker", "recovery"}}
           T == {i \in Jobs : work'[i] \in {"worker", "recovery"}}
           W == {i \in Jobs : work[i] = "worker"}
<1>1. IsFiniteSet(S) /\ IsFiniteSet(mine) /\ IsFiniteSet(W)
  BY FiniteAssumption, FS_Subset DEF Left
<1>2. T = S \cup mine /\ S \cap mine = {}
  BY DEF Left, Recover
<1>3. Cardinality(T) = Cardinality(S) + Cardinality(mine)
  <2>1. Cardinality(S \cup mine) = Cardinality(S) + Cardinality(mine) - Cardinality(S \cap mine)
    BY <1>1, FS_Union
  <2>2. Cardinality({}) = 0 /\ Cardinality(S) \in Nat /\ Cardinality(mine) \in Nat
    BY <1>1, FS_EmptySet, FS_CardinalityType
  <2>3. Cardinality(S \cap mine) = 0
    BY <2>2, <1>2
  <2> QED
    BY <2>1, <2>2, <2>3, <1>2
<1>4. Tasks = Cardinality(S) /\ Tasks' = Cardinality(T)
  BY DEF Tasks, WorkIn
<1>5. Working = Cardinality(W) /\ Working' = Cardinality(W)
  <2>1. {i \in Jobs : work'[i] \in {"worker"}} = W /\ {i \in Jobs : work[i] \in {"worker"}} = W
    BY DEF Left, Recover
  <2> QED
    BY <2>1 DEF Working, WorkIn
<1>6. work' \in [Jobs -> WorkStates]
  BY DEF Left, Recover, WorkStates
<1>7. /\ Cardinality(S) \in Nat /\ Cardinality(mine) \in Nat /\ Cardinality(W) \in Nat
  BY <1>1, FS_CardinalityType
<1> HIDE DEF S, T, W
<1> QED
  BY <1>3, <1>4, <1>5, <1>6, <1>7

\* A control call that is admitted, goes on or ends.
LEMMA WriterCounted ==
    ASSUME NEW c \in Calls, NEW pc \in CallPCs, call \in [Calls -> CallPCs], At(c, pc)
    PROVE  /\ call' \in [Calls -> CallPCs] /\ Writing \in Nat /\ Writing' \in Nat
           /\ Writing' = Writing + (IF pc \in {"new", "done"} THEN 0 ELSE 1)
                                 - (IF call[c] \in {"new", "done"} THEN 0 ELSE 1)
<1> DEFINE S == {d \in Calls : call[d] \notin {"new", "done"}}
           T == {d \in Calls : call'[d] \notin {"new", "done"}}
<1>1. IsFiniteSet(S)
  BY FiniteAssumption, FS_Subset
<1>2. \A d : d # c => (d \in S <=> d \in T)
  BY DEF At
<1>3. /\ c \in S <=> call[c] \notin {"new", "done"}
      /\ c \in T <=> pc \notin {"new", "done"}
      /\ call' \in [Calls -> CallPCs]
  BY DEF At
<1>4. Writing = Cardinality(S) /\ Writing' = Cardinality(T)
  BY DEF Writing, Writers
<1> HIDE DEF S, T
<1>5. /\ Cardinality(S) \in Nat /\ Cardinality(T) \in Nat
      /\ (c \in S <=> c \in T) => Cardinality(T) = Cardinality(S)
      /\ c \in S /\ c \notin T => Cardinality(T) = Cardinality(S) - 1
      /\ c \notin S /\ c \in T => Cardinality(T) = Cardinality(S) + 1
  BY <1>1, <1>2, OneMoves
<1> QED
  BY <1>3, <1>4, <1>5

\* The counters, in these terms.
LEMMA Counted ==
    CountersMatchOwners <=>
      /\ active = Tasks /\ quiescence = SessionCount + Working
      /\ managed = active + quiescence + Writing
  BY DEF CountersMatchOwners, SessionCount, Tasks, Working, Writing

\* Where nothing is counted nothing runs.
LEMMA NothingCounted ==
    ASSUME TypeOK, CountersMatchOwners, active = 0, quiescence = 0
    PROVE  /\ \A o \in Orgs : session[o] \in {"none", "spawned"}
           /\ \A j \in Jobs : work[j] \notin {"worker", "recovery"}
<1> DEFINE A == {"opening", "loop", "leasing", "closing"}
           S == {o \in Orgs : session[o] \in A}
           T == {j \in Jobs : work[j] \in {"worker", "recovery"}}
<1>1. IsFiniteSet(S) /\ IsFiniteSet(T)
  BY FiniteAssumption, FS_Subset
<1>2. Cardinality(T) = 0
  BY DEF CountersMatchOwners, WorkIn
<1>3. ASSUME NEW pcs PROVE SessionsIn(pcs) \in Nat
  <2>1. IsFiniteSet({o \in Orgs : session[o] \in pcs})
    BY FiniteAssumption, FS_Subset
  <2> QED
    BY <2>1, FS_CardinalityType DEF SessionsIn
<1>4. WorkIn({"worker"}) \in Nat
  <2>1. IsFiniteSet({j \in Jobs : work[j] \in {"worker"}})
    BY FiniteAssumption, FS_Subset
  <2> QED
    BY <2>1, FS_CardinalityType DEF WorkIn
<1>5. SessionsIn(A) = 0
  <2> DEFINE a == SessionsIn(A)
             b == SessionsIn({"loop", "leasing", "closing"})
             d == SessionsIn({"leasing"})
             w == WorkIn({"worker"})
  <2>1. a \in Nat /\ b \in Nat /\ d \in Nat /\ w \in Nat
    BY <1>3, <1>4
  <2>2. a + b + d + w = 0
    BY DEF CountersMatchOwners
  <2> HIDE DEF a, b, d, w
  <2>3. a = 0
    BY <2>1, <2>2
  <2> QED
    BY <2>3 DEF a
<1>6. Cardinality(S) = 0
  BY <1>5 DEF SessionsIn
<1>7. S = {} /\ T = {}
  BY <1>1, <1>2, <1>6, FS_EmptySet
<1>8. \A o \in Orgs : session[o] \in SessionPCs
  BY DEF TypeOK
<1> QED
  BY <1>7, <1>8 DEF SessionPCs

\* An empty total means that there are no owners of any kind.
LEMMA TotalIsZero ==
    ASSUME TypeOK, CountersMatchOwners, managed = 0
    PROVE  NothingRuns /\ active = 0 /\ quiescence = 0
<1>1. IsFiniteSet(Writers) /\ Cardinality(Writers) \in Nat
  BY FiniteAssumption, FS_Subset, FS_CardinalityType DEF Writers
<1>2. active \in Nat /\ quiescence \in Nat /\ managed = active + quiescence + Cardinality(Writers)
  BY DEF TypeOK, CountersMatchOwners
<1>3. active = 0 /\ quiescence = 0 /\ Cardinality(Writers) = 0
  <2>1. PICK a \in Nat, q \in Nat, w \in Nat :
          a = active /\ q = quiescence /\ w = Cardinality(Writers)
    BY <1>1, <1>2
  <2>2. a + q + w = 0
    BY <1>2, <2>1
  <2>3. a = 0 /\ q = 0 /\ w = 0
    BY <2>2
  <2> QED
    BY <2>1, <2>3
<1>4. Writers = {}
  BY <1>1, <1>3, FS_EmptySet
<1> QED
  BY <1>3, <1>4, NothingCounted DEF NothingRuns

\* Whoever counts itself in or out changes the totals by as much.
LEMMA Reckoned ==
    ASSUME CountersMatchOwners, NEW n \in Int, NEW m \in Int, Count(n, m),
           Tasks \in Nat, SessionCount \in Nat, Working \in Nat, Writing \in Nat,
           Tasks' \in Nat, SessionCount' \in Nat, Working' \in Nat, Writing' = Writing,
           Tasks' = Tasks + n, SessionCount' + Working' = SessionCount + Working + m
    PROVE  /\ CountersMatchOwners'
           /\ active' \in Nat /\ quiescence' \in Nat /\ managed' \in Nat
<1>1. /\ active = Tasks /\ quiescence = SessionCount + Working
      /\ managed = active + quiescence + Writing
  BY Counted
<1>2. active' = active + n /\ quiescence' = quiescence + m /\ managed' = managed + n + m
  BY DEF Count
<1>3. active' = Tasks'
  BY <1>1, <1>2
<1>4. quiescence' = SessionCount' + Working'
  <2>1. quiescence' = SessionCount + Working + m
    BY <1>1, <1>2
  <2> QED
    BY <2>1
<1>5. managed' = active' + quiescence' + Writing'
  <2>1. managed' = active + quiescence + Writing + n + m
    BY <1>1, <1>2
  <2>2. active \in Nat /\ quiescence \in Nat
    BY <1>1
  <2> QED
    BY <2>1, <2>2, <1>2
<1>6. CountersMatchOwners'
  BY <1>3, <1>4, <1>5 DEF CountersMatchOwners, SessionCount, Tasks, Working, Writing
<1>7. active' \in Nat /\ quiescence' \in Nat
  <2>1. PICK t \in Nat, u \in Nat, w \in Nat : t = Tasks' /\ u = SessionCount' /\ w = Working'
    OBVIOUS
  <2>2. u + w \in Nat
    OBVIOUS
  <2>3. active' = t /\ quiescence' = u + w
    BY <1>3, <1>4, <2>1
  <2> QED
    BY <2>2, <2>3
<1>8. managed' \in Nat
  <2>1. PICK a \in Nat, q \in Nat, w \in Nat : a = active' /\ q = quiescence' /\ w = Writing'
    BY <1>7
  <2>2. a + q + w \in Nat
    OBVIOUS
  <2> QED
    BY <1>5, <2>1, <2>2
<1> QED
  BY <1>6, <1>7, <1>8

\* What is counted is a number.
LEMMA CountsTyped == Tasks \in Nat /\ SessionCount \in Nat /\ Working \in Nat /\ Writing \in Nat
<1>1. ASSUME NEW pcs PROVE SessionsIn(pcs) \in Nat
  <2>1. IsFiniteSet({o \in Orgs : session[o] \in pcs})
    BY FiniteAssumption, FS_Subset
  <2> QED
    BY <2>1, FS_CardinalityType DEF SessionsIn
<1>2. ASSUME NEW states PROVE WorkIn(states) \in Nat
  <2>1. IsFiniteSet({j \in Jobs : work[j] \in states})
    BY FiniteAssumption, FS_Subset
  <2> QED
    BY <2>1, FS_CardinalityType DEF WorkIn
<1>3. Writing \in Nat
  BY FiniteAssumption, FS_Subset, FS_CardinalityType DEF Writing, Writers
<1> QED
  BY <1>1, <1>2, <1>3 DEF Tasks, SessionCount, Working

\* Sessions and jobs that go on under an open gate, or count nothing.
LEMMA ElsewhereKeeps ==
    ASSUME IdleInv, TypeOK', CountersMatchOwners', DrainInv',
           UNCHANGED <<call, gate, drainFile, idleSeen>>,
           active = 0 /\ quiescence = 0 /\ ~Admits => UNCHANGED counters
    PROVE  IdleInv'
<1>1. LogoutKnown'
  <2> SUFFICES ASSUME NEW c \in Calls
               PROVE  /\ call[c] \in {"gated", "quiet", "revoking"} => Method[c] = "logout"
                      /\ call[c] \in {"gated", "quiet"} => logoutRequested \/ c \in exposed
                      /\ call[c] = "quiet"
                           => (active' = 0 /\ quiescence' = 0) \/ c \in exposed
    BY DEF LogoutKnown, gate
  <2> QED
    BY DEF IdleInv, LogoutKnown, Admits, counters
<1>2. idleSeen => drainFile' /\ managed' = 0
  <2> SUFFICES ASSUME idleSeen PROVE managed' = 0
    BY DEF IdleInv
  <2>1. active = 0 /\ quiescence = 0
    BY TotalIsZero DEF IdleInv
  <2>2. ~Admits
    BY DEF IdleInv, DrainInv, Admits
  <2> QED
    BY <2>1, <2>2 DEF IdleInv, counters
<1> QED
  BY <1>1, <1>2 DEF IdleInv

\* A turn of a session moves it, begins n tasks of which w are workers, and counts them; one
\* that had not been admitted counts nothing while the gate is shut.
LEMMA SessionTurns ==
    ASSUME IdleInv, NEW o \in Orgs, NEW pc \in SessionPCs, NEW n \in Int, NEW m \in Int,
           NEW w \in Int,
           UNCHANGED <<flags, drainFile, daemon, call, account, idleSeen, left>>,
           session' = [session EXCEPT ![o] = pc],
           work' \in [Jobs -> WorkStates], Tasks' \in Nat, Working' \in Nat,
           Tasks' = Tasks + n, Working' = Working + w, Count(n, m),
           m = Weight(pc) - Weight(session[o]) + w,
           session[o] \in {"none", "spawned"} => n = 0 /\ (m = 0 \/ Admits)
    PROVE  IdleInv'
<1>1. /\ TypeOK /\ CountersMatchOwners /\ DrainInv
      /\ session \in [Orgs -> SessionPCs] /\ session[o] \in SessionPCs
  BY DEF IdleInv, TypeOK
<1>2. DrainInv' /\ Writing' = Writing
  BY <1>1, DrainElsewhere DEF flags, Writing, Writers
<1>3. Tasks \in Nat /\ SessionCount \in Nat /\ Working \in Nat /\ Writing \in Nat
  BY CountsTyped
<1>4. /\ session' \in [Orgs -> SessionPCs] /\ SessionCount' \in Nat
      /\ SessionCount' = SessionCount + Weight(pc) - Weight(session[o])
  BY <1>1, SessionCounted
<1>5. Weight(pc) \in Nat /\ Weight(session[o]) \in Nat
  BY <1>1 DEF Weight
<1>6. SessionCount' + Working' = SessionCount + Working + m
  BY <1>3, <1>4, <1>5
<1>7. /\ CountersMatchOwners' /\ active' \in Nat /\ quiescence' \in Nat /\ managed' \in Nat
  BY <1>1, <1>2, <1>3, <1>4, <1>6, Reckoned
<1>8. TypeOK'
  BY <1>1, <1>4, <1>7 DEF TypeOK, flags, gate, daemon, account
<1>9. ASSUME active = 0, quiescence = 0, ~Admits PROVE UNCHANGED counters
  <2>1. session[o] \in {"none", "spawned"}
    BY <1>1, <1>9, NothingCounted
  <2>2. n = 0 /\ m = 0
    BY <2>1, <1>9
  <2> QED
    BY <2>2, <1>1 DEF Count, counters, TypeOK
<1> QED
  BY <1>1, <1>2, <1>7, <1>8, <1>9, ElsewhereKeeps DEF flags

\* A turn that leaves the jobs alone.
LEMMA SessionAlone ==
    ASSUME IdleInv, NEW o \in Orgs, NEW pc \in SessionPCs, NEW m \in Int,
           UNCHANGED <<flags, drainFile, daemon, call, account, idleSeen, left>>,
           session' = [session EXCEPT ![o] = pc], UNCHANGED work,
           Count(0, m) \/ (m = 0 /\ UNCHANGED counters),
           m = Weight(pc) - Weight(session[o]),
           session[o] \in {"none", "spawned"} => m = 0 \/ Admits
    PROVE  IdleInv'
<1>1. Tasks \in Nat /\ Working \in Nat
  BY CountsTyped
<1>2. work' \in [Jobs -> WorkStates] /\ Tasks' = Tasks /\ Working' = Working
  BY DEF IdleInv, TypeOK, Tasks, Working, WorkIn
<1>3. Count(0, m)
  BY DEF Count, counters, IdleInv, TypeOK
<1>4. Tasks' = Tasks + 0 /\ Working' = Working + 0 /\ Tasks' \in Nat /\ Working' \in Nat
  BY <1>1, <1>2
<1>5. session[o] \in SessionPCs /\ Weight(pc) \in Nat /\ Weight(session[o]) \in Nat
  BY DEF IdleInv, TypeOK, Weight
<1>6. m = Weight(pc) - Weight(session[o]) + 0
  BY <1>5
<1>7. PICK n \in Int : n = 0
  OBVIOUS
<1>8. /\ Tasks' = Tasks + n /\ Working' = Working + n /\ Count(n, m)
      /\ m = Weight(pc) - Weight(session[o]) + n
      /\ session[o] \in {"none", "spawned"} => n = 0 /\ (m = 0 \/ Admits)
  BY <1>3, <1>4, <1>6, <1>7
<1> QED
  BY <1>2, <1>4, <1>8, SessionTurns

\* A session that opens, or fails to, after it has begun to recover the jobs nobody owns.
LEMMA SessionRecovers ==
    ASSUME IdleInv, NEW o \in Orgs, OpenSession(o) \/ OpenFails(o)
    PROVE  IdleInv'
<1>1. work \in [Jobs -> WorkStates] /\ session[o] = "opening"
  BY DEF IdleInv, TypeOK, OpenSession, OpenFails
<1>2. UNCHANGED <<flags, drainFile, daemon, call, account, idleSeen, left>>
  BY DEF OpenSession, OpenFails
<1>3. PICK mine \in SUBSET Left(o), pc \in {"loop", "none"} :
        /\ Recover(mine) /\ session' = [session EXCEPT ![o] = pc]
        /\ Count(Cardinality(mine), IF pc = "loop" THEN 1 ELSE -1)
  BY DEF OpenSession, OpenFails
<1>4. /\ work' \in [Jobs -> WorkStates] /\ Tasks' \in Nat /\ Working' = Working
      /\ Working \in Nat /\ Cardinality(mine) \in Nat /\ Tasks' = Tasks + Cardinality(mine)
  BY <1>1, <1>3, RecoveryCounted
<1>5. PICK m \in Int : m = IF pc = "loop" THEN 1 ELSE -1
  OBVIOUS
<1>6. m = Weight(pc) - Weight(session[o]) + 0 /\ pc \in SessionPCs
  <2>1. Weight("loop") = 2 /\ Weight("none") = 0 /\ Weight("opening") = 1
    BY DEF Weight
  <2> QED
    BY <2>1, <1>1, <1>3, <1>5 DEF SessionPCs
<1>7. Count(Cardinality(mine), m)
  BY <1>3, <1>5
<1>8. PICK n \in Int, w \in Int : n = Cardinality(mine) /\ w = 0
  BY <1>4
<1>9. /\ Tasks' = Tasks + n /\ Working' = Working + w /\ Working' \in Nat
      /\ Count(n, m) /\ m = Weight(pc) - Weight(session[o]) + w
      /\ session[o] \in {"none", "spawned"} => n = 0 /\ (m = 0 \/ Admits)
  <2>1. Working' = Working + w
    BY <1>4, <1>8
  <2> QED
    BY <2>1, <1>1, <1>4, <1>6, <1>7, <1>8
<1> QED
  BY <1>2, <1>3, <1>4, <1>6, <1>9, SessionTurns

\* The lease of a job, whose worker takes over the count of the poll.
LEMMA SessionLeases ==
    ASSUME IdleInv, NEW o \in Orgs, session[o] = "leasing", NEW j \in Jobs, work[j] = "new",
           work' = [work EXCEPT ![j] = "worker"],
           session' = [session EXCEPT ![o] = "loop"], Count(1, 0),
           UNCHANGED <<flags, drainFile, daemon, call, account, idleSeen, left>>
    PROVE  IdleInv'
<1>1. work \in [Jobs -> WorkStates] /\ "worker" \in WorkStates /\ "loop" \in SessionPCs
  BY DEF IdleInv, TypeOK, WorkStates, SessionPCs
<1>2. /\ work' \in [Jobs -> WorkStates]
      /\ Tasks \in Nat /\ Tasks' \in Nat /\ Working \in Nat /\ Working' \in Nat
      /\ Tasks' = Tasks + (IF "worker" \in {"worker", "recovery"} THEN 1 ELSE 0)
                        - (IF work[j] \in {"worker", "recovery"} THEN 1 ELSE 0)
      /\ Working' = Working + (IF "worker" = "worker" THEN 1 ELSE 0)
                            - (IF work[j] = "worker" THEN 1 ELSE 0)
  BY <1>1, WorkCounted
<1>3. Tasks' = Tasks + 1 /\ Working' = Working + 1
  BY <1>2
<1>4. 0 = Weight("loop") - Weight(session[o]) + 1
  BY DEF Weight
<1>5. PICK n \in Int, m \in Int : n = 1 /\ m = 0
  OBVIOUS
<1>6. /\ Tasks' = Tasks + n /\ Working' = Working + n /\ Count(n, m)
      /\ m = Weight("loop") - Weight(session[o]) + n
      /\ session[o] \in {"none", "spawned"} => n = 0 /\ (m = 0 \/ Admits)
  BY <1>3, <1>4, <1>5
<1> QED
  BY <1>1, <1>2, <1>6, SessionTurns

\* The tasks of an organization's session.
LEMMA SessionKeeps ==
    ASSUME IdleInv, NEW o \in Orgs, SpawnSession(o) \/ SessionStep(o) \/ Reconnect(o)
    PROVE  IdleInv'
<1>1. UNCHANGED <<flags, drainFile, daemon, call, account, idleSeen, left>>
  BY DEF SpawnSession, SessionStep, Reconnect, AdmitSession, OpenSession, OpenFails, Poll,
       Lease,
         CloseSession
<1>2. /\ Weight("none") = 0 /\ Weight("spawned") = 0 /\ Weight("opening") = 1
      /\ Weight("loop") = 2 /\ Weight("closing") = 2 /\ Weight("leasing") = 3
  BY DEF Weight
<1>3. SessionPCs = {"none", "spawned", "opening", "loop", "leasing", "closing"}
  BY DEF SessionPCs
<1>4. ASSUME NEW from \in SessionPCs, NEW pc \in SessionPCs, NEW m \in Int,
             session[o] = from, session' = [session EXCEPT ![o] = pc], UNCHANGED work,
             Count(0, m) \/ (m = 0 /\ UNCHANGED counters), m = Weight(pc) - Weight(from),
             from \in {"none", "spawned"} => m = 0 \/ Admits
      PROVE  IdleInv'
  BY <1>1, <1>4, SessionAlone
<1>5. CASE SpawnSession(o)
  <2>1. /\ session[o] = "none" /\ session' = [session EXCEPT ![o] = "spawned"]
        /\ UNCHANGED work /\ UNCHANGED counters
    BY <1>5 DEF SpawnSession
  <2>2. 0 = Weight("spawned") - Weight("none")
    BY <1>2
  <2> QED
    BY <2>1, <2>2, <1>3, <1>4
<1>6. CASE AdmitSession(o) /\ Admits
  <2>1. /\ session[o] = "spawned" /\ session' = [session EXCEPT ![o] = "opening"]
        /\ UNCHANGED work /\ Count(0, 1)
    BY <1>6 DEF AdmitSession
  <2>2. 1 = Weight("opening") - Weight("spawned")
    BY <1>2
  <2> QED
    BY <2>1, <2>2, <1>3, <1>4, <1>6
<1>7. CASE AdmitSession(o) /\ ~Admits
  <2>1. /\ session[o] = "spawned" /\ session' = [session EXCEPT ![o] = "none"]
        /\ UNCHANGED work /\ UNCHANGED counters
    BY <1>7 DEF AdmitSession
  <2>2. 0 = Weight("none") - Weight("spawned")
    BY <1>2
  <2> QED
    BY <2>1, <2>2, <1>3, <1>4
<1>8. CASE OpenSession(o) \/ OpenFails(o)
  BY <1>8, SessionRecovers
<1>9. CASE Poll(o) /\ Admits
  <2>1. /\ session[o] = "loop" /\ session' = [session EXCEPT ![o] = "leasing"]
        /\ UNCHANGED work /\ Count(0, 1)
    BY <1>9 DEF Poll
  <2>2. 1 = Weight("leasing") - Weight("loop")
    BY <1>2
  <2> QED
    BY <2>1, <2>2, <1>3, <1>4
<1>10. CASE (Poll(o) /\ ~Admits) \/ Reconnect(o)
  <2>1. /\ session[o] = "loop" /\ session' = [session EXCEPT ![o] = "closing"]
        /\ UNCHANGED work /\ UNCHANGED counters
    BY <1>10 DEF Poll, Reconnect
  <2>2. 0 = Weight("closing") - Weight("loop")
    BY <1>2
  <2> QED
    BY <2>1, <2>2, <1>3, <1>4
<1>11. CASE Lease(o)
  <2>1. session[o] = "leasing"
    BY <1>11 DEF Lease
  <2>2. CASE \E j \in Jobs : /\ work[j] = "new" /\ work' = [work EXCEPT ![j] = "worker"]
                             /\ session' = [session EXCEPT ![o] = "loop"] /\ Count(1, 0)
    BY <2>1, <2>2, <1>1, SessionLeases
  <2>3. CASE \E pc \in {"loop", "closing"} :
               session' = [session EXCEPT ![o] = pc] /\ Count(0, -1) /\ UNCHANGED work
    <3>1. PICK pc \in {"loop", "closing"} :
            session' = [session EXCEPT ![o] = pc] /\ Count(0, -1) /\ UNCHANGED work
      BY <2>3
    <3>2. -1 = Weight(pc) - Weight("leasing") /\ pc \in SessionPCs /\ "leasing" \in SessionPCs
      BY <1>2, <1>3
    <3>3. PICK m \in Int : m = -1
      OBVIOUS
    <3>4. Count(0, m) /\ m = Weight(pc) - Weight("leasing")
      BY <3>1, <3>2, <3>3
    <3> QED
      BY <2>1, <3>1, <3>2, <3>4, <1>4
  <2> QED
    BY <2>2, <2>3, <1>11 DEF Lease
<1>12. CASE CloseSession(o)
  <2>1. /\ session[o] = "closing" /\ session' = [session EXCEPT ![o] = "none"]
        /\ UNCHANGED work /\ Count(0, -2)
    BY <1>12 DEF CloseSession
  <2>2. -2 = Weight("none") - Weight("closing")
    BY <1>2
  <2> QED
    BY <2>1, <2>2, <1>3, <1>4
<1> QED
  BY <1>5, <1>6, <1>7, <1>8, <1>9, <1>10, <1>11, <1>12 DEF SessionStep

\* A worker or a recovery task ends, whatever the session does.
LEMMA WorkKeeps ==
    ASSUME IdleInv, NEW j \in Jobs, WorkerEnds(j) \/ RecoveryEnds(j)
    PROVE  IdleInv'
<1>1. /\ TypeOK /\ CountersMatchOwners /\ DrainInv /\ work \in [Jobs -> WorkStates]
  BY DEF IdleInv, TypeOK
<1>2. /\ UNCHANGED <<flags, drainFile, daemon, session, call, account, idleSeen, left>>
      /\ work[j] \in {"worker", "recovery"} /\ work' = [work EXCEPT ![j] = "done"]
  BY DEF WorkerEnds, RecoveryEnds
<1>3. DrainInv' /\ Writing' = Writing /\ SessionCount' = SessionCount
  BY <1>1, <1>2, DrainElsewhere DEF flags, Writing, Writers, SessionCount, SessionsIn
<1>4. Tasks \in Nat /\ SessionCount \in Nat /\ Working \in Nat /\ Writing \in Nat
  BY CountsTyped
<1>5. /\ work' \in [Jobs -> WorkStates] /\ Tasks' \in Nat /\ Working' \in Nat
      /\ Tasks' = Tasks - 1 /\ Working' = Working - (IF work[j] = "worker" THEN 1 ELSE 0)
  <2>1. "done" \in WorkStates
    BY DEF WorkStates
  <2>2. /\ work' \in [Jobs -> WorkStates] /\ Tasks' \in Nat /\ Working' \in Nat
        /\ Tasks' = Tasks + (IF "done" \in {"worker", "recovery"} THEN 1 ELSE 0)
                          - (IF work[j] \in {"worker", "recovery"} THEN 1 ELSE 0)
        /\ Working' = Working + (IF "done" = "worker" THEN 1 ELSE 0)
                              - (IF work[j] = "worker" THEN 1 ELSE 0)
    BY <2>1, <1>1, <1>2, WorkCounted
  <2> QED
    BY <2>2, <1>2, <1>4
<1>6. PICK m \in Int : Count(-1, m) /\ Working' = Working + m
  <2>1. CASE WorkerEnds(j)
    BY <2>1, <1>4, <1>5 DEF WorkerEnds
  <2>2. CASE RecoveryEnds(j)
    BY <2>2, <1>4, <1>5 DEF RecoveryEnds
  <2> QED
    BY <2>1, <2>2
<1>7. /\ CountersMatchOwners' /\ active' \in Nat /\ quiescence' \in Nat /\ managed' \in Nat
  <2>1. Tasks' = Tasks + (-1) /\ SessionCount' + Working' = SessionCount + Working + m
    BY <1>3, <1>4, <1>5, <1>6
  <2> QED
    BY <2>1, <1>1, <1>3, <1>4, <1>5, <1>6, Reckoned
<1>8. TypeOK'
  BY <1>1, <1>2, <1>5, <1>7 DEF TypeOK, flags, gate, daemon, account
<1>9. active # 0 \/ quiescence # 0
  BY <1>1, <1>2, NothingCounted
<1> QED
  BY <1>1, <1>2, <1>3, <1>7, <1>8, <1>9, ElsewhereKeeps DEF flags

\* The types of what the calls and the daemon change besides the counters.
RestOK ==
    /\ draining \in BOOLEAN /\ logoutRequested \in BOOLEAN
    /\ stopping \in BOOLEAN /\ lifecycle \in BOOLEAN /\ drainFile \in BOOLEAN
    /\ serve \in {"serving", "closing", "waiting", "exited"}
    /\ runner \in {"loop", "joining", "done"}
    /\ auth \in {"in", "pending", "out"} /\ enrolled \in SUBSET Orgs
    /\ left \in [crash : Nat, conflict : Nat] /\ exposed \subseteq Calls

\* A call opens no gate, or those behind it are known to be exposed.
GateKept(c) ==
    /\ exposed \subseteq exposed'
    /\ \/ logoutRequested => logoutRequested'
       \/ \A d \in Calls \ {c} : call[d] \in {"gated", "quiet"} => d \in exposed'

\* A turn of a call: n says whether it is counted in or out.  Under an observed idle state it
\* is neither.
LEMMA CallTurns ==
    ASSUME IdleInv, NEW c \in Calls, NEW pc \in CallPCs, NEW n \in Int,
           At(c, pc), Manage(n), UNCHANGED <<tasks, idleSeen>>, RestOK', DrainInv',
           n = (IF pc \in {"new", "done"} THEN 0 ELSE 1)
               - (IF call[c] \in {"new", "done"} THEN 0 ELSE 1),
           idleSeen => n = 0 /\ drainFile',
           pc \in {"gated", "quiet", "revoking"} => Method[c] = "logout",
           pc \in {"gated", "quiet"} => logoutRequested' \/ c \in exposed',
           pc = "quiet" => (active = 0 /\ quiescence = 0) \/ c \in exposed',
           GateKept(c)
    PROVE  IdleInv'
<1>1. /\ TypeOK /\ CountersMatchOwners /\ LogoutKnown /\ call \in [Calls -> CallPCs]
      /\ active \in Nat /\ quiescence \in Nat /\ managed \in Nat
  BY DEF IdleInv, TypeOK
<1>2. /\ call' \in [Calls -> CallPCs] /\ Writing \in Nat /\ Writing' \in Nat
      /\ Writing' = Writing + (IF pc \in {"new", "done"} THEN 0 ELSE 1)
                            - (IF call[c] \in {"new", "done"} THEN 0 ELSE 1)
  BY <1>1, WriterCounted
<1>3. Writing' = Writing + n
  BY <1>2
<1>4. active' = active /\ quiescence' = quiescence /\ managed' = managed + n
  BY DEF Manage
<1>5. Tasks' = Tasks /\ SessionCount' = SessionCount /\ Working' = Working
  BY DEF tasks, Tasks, SessionCount, Working, SessionsIn, WorkIn
<1>6. managed' = active' + quiescence' + Writing' /\ managed' \in Nat
  <2>1. managed = active + quiescence + Writing
    BY <1>1, Counted
  <2>2. managed' = active + quiescence + Writing + n
    BY <2>1, <1>4
  <2>3. managed' = active' + quiescence' + Writing'
    BY <2>2, <1>1, <1>2, <1>3, <1>4
  <2>4. PICK a \in Nat, q \in Nat, w \in Nat : a = active' /\ q = quiescence' /\ w = Writing'
    BY <1>1, <1>2, <1>4
  <2>5. a + q + w \in Nat
    OBVIOUS
  <2> QED
    BY <2>3, <2>4, <2>5
<1>7. CountersMatchOwners'
  <2>1. active = Tasks /\ quiescence = SessionCount + Working
    BY <1>1, Counted
  <2>2. active' = Tasks' /\ quiescence' = SessionCount' + Working'
    BY <2>1, <1>4, <1>5
  <2> QED
    BY <2>2, <1>6 DEF CountersMatchOwners, SessionCount, Tasks, Working, Writing
<1>8. TypeOK'
  BY <1>1, <1>2, <1>4, <1>6 DEF TypeOK, RestOK, tasks
<1>9. LogoutKnown'
  <2> SUFFICES ASSUME NEW d \in Calls
               PROVE  /\ call'[d] \in {"gated", "quiet", "revoking"} => Method[d] = "logout"
                      /\ call'[d] \in {"gated", "quiet"} => logoutRequested' \/ d \in exposed'
                      /\ call'[d] = "quiet"
                           => (active' = 0 /\ quiescence' = 0) \/ d \in exposed'
    BY DEF LogoutKnown
  <2>1. CASE d = c
    BY <2>1, <1>1, <1>4 DEF At
  <2>2. CASE d # c
    <3>1. call'[d] = call[d]
      BY <2>2, <1>1 DEF At
    <3>2. /\ call[d] \in {"gated", "quiet", "revoking"} => Method[d] = "logout"
          /\ call[d] \in {"gated", "quiet"} => logoutRequested \/ d \in exposed
          /\ call[d] = "quiet" => (active = 0 /\ quiescence = 0) \/ d \in exposed
      BY <1>1 DEF LogoutKnown
    <3> QED
      BY <2>2, <3>1, <3>2, <1>4 DEF GateKept
  <2> QED
    BY <2>1, <2>2
<1>10. idleSeen' => drainFile' /\ managed' = 0
  BY <1>4 DEF IdleInv
<1> QED
  BY <1>7, <1>8, <1>9, <1>10 DEF IdleInv

\* A call that goes on, counted as it was.
LEMMA CallGoesOn ==
    ASSUME IdleInv, NEW c \in Calls, NEW pc \in CallPCs,
           At(c, pc), UNCHANGED <<counters, tasks, idleSeen>>, RestOK', DrainInv',
           pc \in {"new", "done"} <=> call[c] \in {"new", "done"},
           drainFile => drainFile',
           pc \in {"gated", "quiet", "revoking"} => Method[c] = "logout",
           pc \in {"gated", "quiet"} => logoutRequested' \/ c \in exposed',
           pc = "quiet" => (active = 0 /\ quiescence = 0) \/ c \in exposed',
           GateKept(c)
    PROVE  IdleInv'
<1>1. PICK n \in Int : n = 0
  OBVIOUS
<1>2. Manage(n)
  BY <1>1 DEF Manage, counters, IdleInv, TypeOK
<1>3. n = (IF pc \in {"new", "done"} THEN 0 ELSE 1)
          - (IF call[c] \in {"new", "done"} THEN 0 ELSE 1)
  BY <1>1
<1>4. idleSeen => n = 0 /\ drainFile'
  BY <1>1 DEF IdleInv
<1> QED
  BY <1>2, <1>3, <1>4, CallTurns

\* A call that leaves the gate alone, and one that ends its logout.
LEMMA Unopened == ASSUME NEW c \in Calls, UNCHANGED gate PROVE GateKept(c)
BY DEF GateKept, gate

LEMMA Opened == ASSUME NEW c \in Calls, EndLogout(c) PROVE GateKept(c)
BY DEF GateKept, EndLogout

\* The admission of a call: after an observed idle state it is refused.
LEMMA EnterKeeps ==
    ASSUME IdleInv, NEW c \in Calls, Enter(c)
    PROVE  IdleInv'
<1>1. /\ DrainInv /\ TypeOK /\ call[c] = "new" /\ managed \in Nat
      /\ UNCHANGED <<drainFile, daemon, tasks, account, idleSeen, left>>
  BY DEF IdleInv, TypeOK, Enter
<1>2. DrainInv'
  BY <1>1, DrainEnter
<1>3. RestOK' /\ UNCHANGED gate /\ GateKept(c)
  <2>1. /\ UNCHANGED gate /\ draining' \in BOOLEAN /\ lifecycle' \in BOOLEAN
        /\ stopping' \in BOOLEAN
    BY <1>1 DEF Enter, Refuse, Join, TypeOK, flags
  <2>2. RestOK'
    BY <1>1, <2>1 DEF TypeOK, RestOK, gate, daemon, account
  <2> QED
    BY <2>1, <2>2, Unopened
<1>4. "admitted" \in CallPCs /\ "done" \in CallPCs
  BY DEF CallPCs
<1>5. CASE Refuse(c)
  <2>1. At(c, "done") /\ UNCHANGED counters
    BY <1>5 DEF Refuse
  <2> QED
    BY <2>1, <1>1, <1>2, <1>3, <1>4, CallGoesOn
<1>6. CASE At(c, "admitted") /\ Manage(1) /\ ~idleSeen
  <2>1. PICK n \in Int : n = 1
    OBVIOUS
  <2>2. Manage(n) /\ n = (IF "admitted" \in {"new", "done"} THEN 0 ELSE 1)
                         - (IF call[c] \in {"new", "done"} THEN 0 ELSE 1)
    BY <1>1, <1>6, <2>1
  <2> QED
    BY <2>2, <1>1, <1>2, <1>3, <1>4, <1>6, CallTurns
<1>7. idleSeen => lifecycle /\ drainFile /\ managed = 0
  BY DEF IdleInv, DrainInv
<1> QED
  BY <1>1, <1>5, <1>6, <1>7 DEF Enter, Join

\* The later steps of a call.
LEMMA CallKeeps ==
    ASSUME IdleInv, NEW c \in Calls, CallStep(c)
    PROVE  IdleInv'
<1>1. DrainInv /\ TypeOK /\ LogoutKnown /\ active \in Nat /\ quiescence \in Nat
  BY DEF IdleInv, TypeOK
<1>2. DrainInv'
  BY <1>1, DrainCall
<1>3. RestOK'
  <2> USE <1>1 DEF RestOK, TypeOK, EndLogout, flags, gate, daemon, account
  <2>1. CASE Serve(c) \/ RecordLogout(c) \/ EndCall(c)
    BY <2>1 DEF Serve, RecordLogout, EndCall
  <2>2. CASE MarkDrain(c) \/ Reopen(c)
    BY <2>2 DEF MarkDrain, Reopen
  <2>3. CASE GateLogout(c)
    BY <2>3 DEF GateLogout
  <2>4. CASE AwaitQuiet(c)
    BY <2>4 DEF AwaitQuiet
  <2>5. CASE LogoutConflict(c)
    <3>1. left \in [crash : Nat, conflict : Nat] /\ left.conflict > 0
      BY <2>5 DEF LogoutConflict
    <3>2. left' = [left EXCEPT !.conflict = left.conflict - 1]
      BY <2>5 DEF LogoutConflict
    <3>3. left' \in [crash : Nat, conflict : Nat]
      BY <3>1, <3>2
    <3> QED
      BY <2>5, <3>3 DEF LogoutConflict
  <2>6. CASE Revoke(c)
    BY <2>6 DEF Revoke
  <2>7. CASE Select(c)
    BY <2>7 DEF Select
  <2> QED
    BY <2>1, <2>2, <2>3, <2>4, <2>5, <2>6, <2>7 DEF CallStep
<1>4. CallPCs = {"new", "admitted", "gated", "quiet", "revoking", "selected", "ending", "done"}
  BY DEF CallPCs
<1>5. /\ call[c] \in {"gated", "quiet", "revoking"} => Method[c] = "logout"
      /\ call[c] \in {"gated", "quiet"} => logoutRequested \/ c \in exposed
  BY <1>1 DEF LogoutKnown
<1>6. ASSUME NEW pc \in CallPCs, At(c, pc), UNCHANGED <<counters, tasks, idleSeen>>,
             pc \notin {"new", "done"}, call[c] \notin {"new", "done"},
             drainFile => drainFile',
             pc \in {"gated", "quiet", "revoking"} => Method[c] = "logout",
             pc \in {"gated", "quiet"} => logoutRequested' \/ c \in exposed',
             pc = "quiet" => active = 0 /\ quiescence = 0,
             GateKept(c)
      PROVE  IdleInv'
  BY <1>2, <1>3, <1>6, CallGoesOn
<1>7. CASE Serve(c) \/ MarkDrain(c) \/ Reopen(c)
  <2>1. /\ At(c, "ending") /\ UNCHANGED <<counters, tasks, idleSeen, gate>>
        /\ call[c] \notin {"new", "done"} /\ (drainFile => drainFile')
    BY <1>7, <1>1 DEF Serve, MarkDrain, Reopen, flags, TypeOK
  <2> QED
    BY <2>1, <1>4, <1>6, Unopened
<1>8. CASE GateLogout(c)
  <2>1. PICK pc \in {"ending", "gated"} :
          /\ At(c, pc) /\ (pc = "gated" => logoutRequested')
          /\ GateKept(c)
    BY <1>8 DEF GateLogout, GateKept
  <2>2. /\ UNCHANGED <<counters, tasks, idleSeen, drainFile>> /\ Method[c] = "logout"
        /\ call[c] = "admitted"
    BY <1>8 DEF GateLogout
  <2> QED
    BY <2>1, <2>2, <1>4, <1>6
<1>9. CASE AwaitQuiet(c)
  <2>1. /\ UNCHANGED <<counters, tasks, idleSeen, drainFile>> /\ call[c] = "gated"
        /\ Method[c] = "logout" /\ (logoutRequested \/ c \in exposed)
    BY <1>9, <1>5 DEF AwaitQuiet
  <2>2. CASE active + quiescence = 0 /\ At(c, "quiet") /\ UNCHANGED gate
    <3>1. active = 0 /\ quiescence = 0
      <4>1. PICK a \in Nat, q \in Nat : a = active /\ q = quiescence
        BY <1>1
      <4>2. a + q = 0
        BY <4>1, <2>2
      <4>3. a = 0 /\ q = 0
        BY <4>2
      <4> QED
        BY <4>1, <4>3
    <3> QED
      BY <3>1, <2>1, <2>2, <1>4, <1>6, Unopened DEF gate
  <2>3. CASE EndLogout(c)
    BY <2>3, <2>1, <1>4, <1>6, Opened DEF EndLogout
  <2> QED
    BY <2>2, <2>3, <1>9 DEF AwaitQuiet
<1>10. CASE RecordLogout(c)
  <2>1. /\ UNCHANGED <<counters, tasks, idleSeen, drainFile, gate>>
        /\ call[c] = "quiet" /\ Method[c] = "logout" /\ At(c, "revoking")
    BY <1>10, <1>5 DEF RecordLogout, flags
  <2> QED
    BY <2>1, <1>4, <1>6, Unopened
<1>11. CASE LogoutConflict(c) \/ Revoke(c)
  <2>1. /\ UNCHANGED <<counters, tasks, idleSeen, drainFile>> /\ At(c, "ending")
        /\ call[c] \in {"quiet", "revoking"} /\ EndLogout(c)
    BY <1>11, <1>5 DEF LogoutConflict, Revoke, EndLogout
  <2> QED
    BY <2>1, <1>4, <1>6, Opened
<1>12. CASE Select(c)
  <2>1. PICK pc \in {"selected", "ending"} : At(c, pc)
    BY <1>12 DEF Select
  <2>2. /\ UNCHANGED <<counters, tasks, idleSeen, drainFile, gate>>
        /\ call[c] = "admitted"
    BY <1>12 DEF Select, flags
  <2> QED
    BY <2>1, <2>2, <1>4, <1>6, Unopened
<1>13. CASE EndCall(c)
  <2>1. /\ UNCHANGED <<tasks, idleSeen, drainFile, gate>> /\ call[c] = "ending"
        /\ At(c, "done") /\ Manage(-1)
    BY <1>13 DEF EndCall, flags
  <2>2. ~idleSeen
    <3>1. idleSeen => NothingRuns
      BY TotalIsZero DEF IdleInv
    <3> QED
      BY <3>1, <2>1 DEF NothingRuns, Writers
  <2>3. PICK n \in Int : n = -1
    OBVIOUS
  <2>4. Manage(n) /\ n = (IF "done" \in {"new", "done"} THEN 0 ELSE 1)
                         - (IF call[c] \in {"new", "done"} THEN 0 ELSE 1)
    BY <2>1, <2>3
  <2> QED
    BY <2>1, <2>2, <2>4, <1>2, <1>3, <1>4, CallTurns, Unopened
<1> QED
  BY <1>7, <1>8, <1>9, <1>10, <1>11, <1>12, <1>13 DEF CallStep

\* Shutdown, exit, and what an installer sees.
LEMMA DaemonKeeps ==
    ASSUME IdleInv, Shutdown \/ StopRunner \/ JoinRunner \/ Exit \/ SeeIdle \/ UNCHANGED vars
    PROVE  IdleInv'
<1>1. /\ UNCHANGED <<counters, tasks, call, gate, drainFile, lifecycle>>
      /\ TypeOK /\ CountersMatchOwners /\ LogoutKnown /\ DrainInv
  BY DEF IdleInv, Shutdown, StopRunner, JoinRunner, Exit, SeeIdle, vars, flags
<1>2. DrainInv'
  BY <1>1, DrainElsewhere DEF Shutdown, StopRunner, JoinRunner, Exit, SeeIdle, vars, flags
<1>3. TypeOK'
  <2>1. CASE Shutdown
    BY <1>1, <2>1 DEF TypeOK, gate, Shutdown, counters, tasks, account
  <2>2. CASE StopRunner
    BY <1>1, <2>2 DEF TypeOK, gate, StopRunner, flags, counters, tasks, account
  <2>3. CASE JoinRunner
    BY <1>1, <2>3 DEF TypeOK, gate, JoinRunner, flags, counters, tasks, account
  <2>4. CASE Exit
    BY <1>1, <2>4 DEF TypeOK, gate, Exit, flags, counters, tasks, account
  <2>5. CASE SeeIdle
    BY <1>1, <2>5 DEF TypeOK, gate, SeeIdle, flags, counters, tasks, daemon, account
  <2>6. CASE UNCHANGED vars
    BY <1>1, <2>6 DEF TypeOK, gate, vars, flags, counters, tasks, daemon, account
  <2> QED
    BY <2>1, <2>2, <2>3, <2>4, <2>5, <2>6
<1>4. CountersMatchOwners'
  BY <1>1 DEF CountersMatchOwners, counters, tasks, SessionsIn, WorkIn, Writers
<1>5. LogoutKnown'
  BY <1>1 DEF LogoutKnown, counters, gate
<1>6. idleSeen' => drainFile' /\ managed' = 0
  BY DEF IdleInv, Shutdown, StopRunner, JoinRunner, Exit, SeeIdle, vars, counters
<1> QED
  BY <1>2, <1>3, <1>4, <1>5, <1>6 DEF IdleInv

\* Where no set has a member nothing is counted.
Fresh == /\ active = 0 /\ quiescence = 0 /\ managed = 0 /\ Writers = {}
         /\ \A o \in Orgs : session[o] = "none"
         /\ \A j \in Jobs : work[j] \notin {"worker", "recovery"}

LEMMA CountsNothing == Fresh => CountersMatchOwners
<1> SUFFICES ASSUME Fresh PROVE CountersMatchOwners
  OBVIOUS
<1> USE DEF Fresh
<1>1. Cardinality({}) = 0
  BY FS_EmptySet
<1>2. WorkIn({"worker", "recovery"}) = 0 /\ WorkIn({"worker"}) = 0
  <2>1. /\ {j \in Jobs : work[j] \in {"worker", "recovery"}} = {}
        /\ {j \in Jobs : work[j] \in {"worker"}} = {}
    OBVIOUS
  <2> QED
    BY <1>1, <2>1 DEF WorkIn
<1>3. ASSUME NEW pcs, "none" \notin pcs PROVE SessionsIn(pcs) = 0
  <2>1. {o \in Orgs : session[o] \in pcs} = {}
    BY <1>3
  <2> QED
    BY <1>1, <2>1 DEF SessionsIn
<1>4. /\ SessionsIn({"opening", "loop", "leasing", "closing"}) = 0
      /\ SessionsIn({"loop", "leasing", "closing"}) = 0 /\ SessionsIn({"leasing"}) = 0
  BY <1>3
<1>5. Cardinality(Writers) = 0
  BY <1>1
<1> QED
  BY <1>2, <1>4, <1>5 DEF CountersMatchOwners

\* A daemon that is started counts from nothing.
LEMMA Restarted ==
    ASSUME IdleInv, Crash
    PROVE  /\ Fresh' /\ TypeOK' /\ DrainInv' /\ LogoutKnown' /\ (idleSeen' => drainFile')
<1>1. TypeOK'
  <2>1. TypeOK
    BY DEF IdleInv
  <2>2. session' \in [Orgs -> SessionPCs]
    BY DEF Crash, SessionPCs
  <2>3. work' \in [Jobs -> WorkStates]
    BY <2>1 DEF Crash, TypeOK, WorkStates
  <2>4. call' \in [Calls -> CallPCs]
    BY DEF Crash, CallPCs
  <2>5. left' \in [crash : Nat, conflict : Nat]
    BY <2>1 DEF Crash, TypeOK
  <2>6. /\ auth' \in {"in", "pending", "out"} /\ enrolled' \in SUBSET Orgs
        /\ idleSeen' \in BOOLEAN /\ drainFile' \in BOOLEAN
    BY <2>1 DEF Crash, TypeOK, account
  <2> QED
    BY <2>1, <2>2, <2>3, <2>4, <2>5, <2>6 DEF Crash, TypeOK
<1>2. DrainInv'
  BY DrainNext DEF IdleInv, Next
<1>3. Writers' = {} /\ LogoutKnown'
  BY DEF Crash, Writers, LogoutKnown
<1>4. Fresh'
  BY <1>3 DEF Crash, Fresh
<1> QED
  BY <1>1, <1>2, <1>3, <1>4 DEF Crash, IdleInv

\* The first state.
LEMMA IdleInit == Init => IdleInv
<1> SUFFICES ASSUME Init PROVE IdleInv
  OBVIOUS
<1>1. TypeOK
  BY BoundAssumption DEF Init, TypeOK, SessionPCs, WorkStates, CallPCs
<1>2. DrainInv
  BY DrainInit
<1>3. CountersMatchOwners
  <2>1. Writers = {}
    BY DEF Init, Writers
  <2> QED
    BY <2>1, CountsNothing DEF Init, Fresh
<1>4. LogoutKnown /\ ~idleSeen
  BY DEF Init, LogoutKnown
<1> QED
  BY <1>1, <1>2, <1>3, <1>4 DEF IdleInv

\* A daemon that is started keeps it.
LEMMA CrashKeeps == IdleInv /\ Crash => IdleInv'
<1>1. Fresh' => CountersMatchOwners'
  BY CountsNothing, PTL
<1> QED
  BY <1>1, Restarted DEF IdleInv, Fresh

\* Every step keeps it.
LEMMA IdleNext == IdleInv /\ [Next]_vars => IdleInv'
<1> SUFFICES ASSUME IdleInv, [Next]_vars PROVE IdleInv'
  OBVIOUS
<1>1. CASE \E o \in Orgs : SpawnSession(o) \/ SessionStep(o) \/ Reconnect(o)
  BY <1>1, SessionKeeps
<1>2. CASE \E j \in Jobs : WorkerEnds(j) \/ RecoveryEnds(j)
  BY <1>2, WorkKeeps
<1>3. CASE \E c \in Calls : Enter(c) \/ CallStep(c)
  BY <1>3, EnterKeeps, CallKeeps
<1>4. CASE Shutdown \/ StopRunner \/ JoinRunner \/ Exit \/ SeeIdle \/ UNCHANGED vars
  BY <1>4, DaemonKeeps
<1>5. CASE Crash
  BY <1>5, CrashKeeps
<1> QED
  BY <1>1, <1>2, <1>3, <1>4, <1>5 DEF Next

\* What an installer was told is true, and an intent is recorded over no work.
IdleTrue == IdleInv /\ (idleSeen => NothingRuns)

LEMMA IdleSteps ==
    IdleTrue /\ IdleTrue' /\ [Next]_vars =>
      [/\ CountersMatchOwners' /\ (idleSeen' => NothingRuns')
       /\ \A c \in Calls \ exposed : Records(c) => active = 0 /\ quiescence = 0]_vars
<1> SUFFICES ASSUME IdleTrue, NEW c \in Calls \ exposed, Records(c)
             PROVE  active = 0 /\ quiescence = 0
  BY DEF IdleTrue, IdleInv
<1> QED
  BY DEF Records, IdleTrue, IdleInv, LogoutKnown

(***************************************************************************)
(* The accounting of admission: the state is typed, every counter is the   *)
(* number of its owners, and while a logout waits for quiet its gate is    *)
(* shut or another logout has opened it - for any sets of organizations,   *)
(* jobs and calls (begin_*, end_*, control_writer, LogoutAdmission).       *)
(***************************************************************************)
THEOREM IdleCorrect == Spec => []IdleInv
<1>1. IdleInv /\ [Next]_vars => IdleInv'
  BY IdleNext
<1> QED
  BY <1>1, IdleInit, PTL DEF Spec

(***************************************************************************)
(* No owner is leaked or counted twice; what an installer read as drained  *)
(* and idle stays so, in this daemon and in those started after it; and no *)
(* logout intent is recorded over a session or a job, unless a second      *)
(* logout opened the gate (control.rs:666, 137).                           *)
(***************************************************************************)
THEOREM IdleFinal == Spec => IdleIsFinal
<1>1. IdleInv => IdleTrue
  BY TotalIsZero DEF IdleTrue, IdleInv
<1> QED
  BY <1>1, IdleCorrect, IdleSteps, PTL DEF Spec, IdleIsFinal

-----------------------------------------------------------------------------
(***************************************************************************)
(* The invariant of the output has two halves.  The sender lock, with the  *)
(* share of the journal write, makes one party at a time speak for the job: *)
(* whoever is busy knows the record.  And whatever was ever sent is either *)
(* the chunk the record says is pending, or one that lies before the       *)
(* acknowledged bytes and that the backend already holds.                  *)
(***************************************************************************)

Busy(w) == task[w].pc \notin {"idle", "stopped"}

\* The lock: one busy sender at most, which waits for the write while one runs.
OneSender ==
    /\ \A w \in Senders : Busy(w) <=> w \in senderLock
    /\ \A v, w \in Senders : Busy(v) /\ Busy(w) => v = w
    /\ "io" \in senderLock <=> io.op # "none"
    /\ io.op # "none" => \A w \in Senders : Busy(w) => w \in Waiting

\* The event the record says is pending.
NextEvent(s) == [stream |-> s, off |-> offset[s], size |-> pending[s],
                 lines |-> IF s = "stdout" THEN progress ELSE {}]

\* What a busy sender and the write remember agrees with the record.
SenderKnows(w) ==
    LET t == task[w] IN
    /\ t.pc = "preparing" => io = Submitted("prepare", t.stream, t.off, t.size)
    /\ t.pc = "acking" => io = Submitted("ack", t.stream, t.off, t.size)
    /\ t.pc \in {"send", "waiting", "acking"} =>
         t.off = offset[t.stream] /\ t.size = pending[t.stream] /\ t.size > 0
WriteKnows ==
    LET s == io.stream IN
    /\ io.op # "none" => io.off = offset[s] /\ io.size > 0
    /\ io.op = "prepare" => pending[s] = 0 /\ offset[s] + io.size <= made[s]
    /\ io.op = "ack" => io.size = pending[s] /\ NextEvent(s) \in got

\* The decoder has consumed the pending chunk, and its lines are those of the chunk.
DecoderKnows ==
    /\ decoded = offset["stdout"] + pending["stdout"]
    /\ progress = IF pending["stdout"] > 0
                  THEN Lines(offset["stdout"], offset["stdout"] + pending["stdout"]) ELSE {}

\* The record does not run ahead of the spool, and what it acknowledges has arrived.
StreamKnown(s) ==
    /\ offset[s] + pending[s] <= made[s]
    /\ offset[s] = 0 \/ \E r \in got : r.stream = s /\ r.off + r.size = offset[s]

\* Everything sent is the pending chunk, or older and received.
EventKnown(r) ==
    /\ r.lines = IF r.stream = "stdout" THEN Lines(r.off, r.off + r.size) ELSE {}
    /\ r = NextEvent(r.stream) \/ (r.off + r.size <= offset[r.stream] /\ r \in got)

Apart(q, r) == q = r \/ q.off + q.size <= r.off \/ r.off + r.size <= q.off

WireKnown ==
    /\ DecoderKnows
    /\ \A s \in Streams : StreamKnown(s)
    /\ \A r \in inTransit \cup got : EventKnown(r)
    /\ \A q, r \in inTransit \cup got : q.stream = r.stream => Apart(q, r)

\* A drain works after the exit, and ends only when both streams are at their end.
DrainKnows ==
    /\ Busy("drain") => phase = "exited"
    /\ Busy("drain") /\ task["drain"].stream = "stderr" /\ ~task["drain"].sent =>
         offset["stdout"] = made["stdout"]
    /\ phase = "drained" => \A s \in Streams : offset[s] = made[s]

OutputInv ==
    /\ OutputTypeOK /\ OneSender /\ (\A w \in Senders : SenderKnows(w)) /\ WriteKnows
    /\ WireKnown /\ DrainKnows
-----------------------------------------------------------------------------
(***************************************************************************)
(* What was sent, when the record, the wire or the spool changes.          *)
(***************************************************************************)
\* The record and the backend stay; the wire may lose and the spool may grow.
LEMMA WireQuiet ==
    ASSUME OutputTypeOK, OutputTypeOK', WireKnown, UNCHANGED chunkJournal, got' = got,
           inTransit' \subseteq inTransit, \A s \in Streams : made[s] <= made'[s]
    PROVE  WireKnown'
<1>1. DecoderKnows'
  BY DEF WireKnown, DecoderKnows, chunkJournal
<1>2. ASSUME NEW s \in Streams PROVE StreamKnown(s)'
  <2>1. /\ offset[s] \in Nat /\ pending[s] \in Nat /\ made[s] \in Nat /\ made'[s] \in Nat
        /\ offset[s] + pending[s] <= made[s]
    BY DEF OutputTypeOK, WireKnown, StreamKnown
  <2>2. offset[s] + pending[s] <= made'[s]
    BY <2>1
  <2> QED
    BY <2>2 DEF WireKnown, StreamKnown, chunkJournal
<1>3. \A r \in inTransit' \cup got' : r \in inTransit \cup got
  OBVIOUS
<1>4. \A r \in inTransit' \cup got' : EventKnown(r)'
  BY <1>3 DEF WireKnown, EventKnown, NextEvent, chunkJournal
<1>5. \A q, r \in inTransit' \cup got' : q.stream = r.stream => Apart(q, r)
  BY <1>3 DEF WireKnown
<1> QED
  BY <1>1, <1>2, <1>4, <1>5 DEF WireKnown

\* The pending chunk and any other event lie apart.
LEMMA PendingApart ==
    ASSUME OutputTypeOK, WireKnown, NEW s \in Streams, pending[s] > 0,
           NEW r \in inTransit \cup got, r.stream = s
    PROVE  r = NextEvent(s) \/ (r.off + r.size <= offset[s] /\ r \in got)
BY DEF WireKnown, EventKnown

\* The pending chunk is sent, once more perhaps.
LEMMA WireSent ==
    ASSUME OutputTypeOK, OutputTypeOK', WireKnown, NEW s \in Streams, pending[s] > 0,
           inTransit' = inTransit \cup {NextEvent(s)},
           UNCHANGED <<chunkJournal, made, got>>
    PROVE  WireKnown'
<1> DEFINE e == NextEvent(s)
<1>1. /\ e.stream = s /\ e.off = offset[s] /\ e.size = pending[s]
      /\ e.lines = IF s = "stdout" THEN progress ELSE {}
  BY DEF NextEvent
<1>2. offset[s] \in Nat /\ pending[s] \in Nat
  BY DEF OutputTypeOK
<1> HIDE DEF e
<1>3. EventKnown(e)'
  BY <1>1 DEF WireKnown, DecoderKnows, EventKnown, NextEvent, chunkJournal, e
<1>4. ASSUME NEW r \in inTransit \cup got PROVE EventKnown(r)'
  <2>1. NextEvent(r.stream)' = NextEvent(r.stream) /\ offset' = offset /\ got' = got
    BY DEF NextEvent, chunkJournal
  <2> QED
    BY <2>1 DEF WireKnown, EventKnown
<1>5. \A r \in inTransit \cup got : r.stream = s => r = e \/ r.off + r.size <= e.off
  BY <1>1, PendingApart DEF e
<1>6. \A q, r \in inTransit' \cup got' : q.stream = r.stream => Apart(q, r)
  BY <1>1, <1>5 DEF WireKnown, Apart, e
<1>7. DecoderKnows' /\ \A t \in Streams : StreamKnown(t)'
  BY DEF WireKnown, DecoderKnows, StreamKnown, chunkJournal
<1>8. e' = e
  BY DEF NextEvent, chunkJournal, e
<1>9. \A r \in inTransit' \cup got' : EventKnown(r)'
  BY <1>3, <1>4, <1>8 DEF e
<1> QED
  BY <1>6, <1>7, <1>9 DEF WireKnown

\* A request arrives.
LEMMA WireArrives ==
    ASSUME OutputTypeOK, WireKnown, NEW r \in inTransit, Arrives(r)
    PROVE  WireKnown'
<1>1. inTransit' = inTransit \ {r} /\ got' = got \cup {r} /\ UNCHANGED <<chunkJournal, made>>
  BY DEF Arrives
<1>2. DecoderKnows' /\ \A s \in Streams : StreamKnown(s)'
  BY <1>1 DEF WireKnown, DecoderKnows, StreamKnown, chunkJournal
<1>3. \A q \in inTransit' \cup got' : q \in inTransit \cup got
  BY <1>1
<1>4. \A q \in inTransit' \cup got' : EventKnown(q)'
  BY <1>1, <1>3 DEF WireKnown, EventKnown, NextEvent, chunkJournal
<1> QED
  BY <1>2, <1>3, <1>4 DEF WireKnown

\* A chunk is prepared.
LEMMA WirePrepared ==
    ASSUME OutputTypeOK, OutputTypeOK', WireKnown, WriteKnows, io.op = "prepare", Apply(io),
           UNCHANGED <<made, sink>>
    PROVE  WireKnown'
<1> DEFINE s == io.stream
<1>1. /\ s \in Streams /\ pending[s] = 0 /\ io.size > 0 /\ io.size \in Nat
      /\ offset[s] + io.size <= made[s]
  BY DEF WriteKnows, OutputTypeOK, Write
<1>2. /\ pending' = [pending EXCEPT ![s] = io.size] /\ offset' = offset
      /\ s = "stdout" => /\ decoded' = decoded + io.size
                         /\ progress' = Lines(decoded, decoded + io.size)
      /\ s # "stdout" => decoded' = decoded /\ progress' = progress
  BY DEF Apply
<1> HIDE DEF s
<1>3. /\ offset["stdout"] \in Nat /\ pending["stdout"] \in Nat
      /\ pending'[s] = io.size /\ \A t \in Streams \ {s} : pending'[t] = pending[t]
  BY <1>1, <1>2 DEF OutputTypeOK, Streams
<1>4. DecoderKnows'
  <2>1. CASE s = "stdout"
    <3>1. decoded = offset["stdout"]
      BY <1>1, <1>3, <2>1 DEF WireKnown, DecoderKnows
    <3> QED
      BY <1>1, <1>2, <1>3, <2>1, <3>1 DEF DecoderKnows
  <2>2. CASE s # "stdout"
    BY <1>1, <1>2, <1>3, <2>2 DEF WireKnown, DecoderKnows, Streams
  <2> QED
    BY <2>1, <2>2
<1>5. ASSUME NEW t \in Streams PROVE StreamKnown(t)'
  BY <1>1, <1>2, <1>3 DEF WireKnown, StreamKnown, sink
<1>6. ASSUME NEW r \in inTransit \cup got PROVE EventKnown(r)'
  <2>1. r.size > 0 /\ r.size \in Nat /\ r.stream \in Streams /\ EventKnown(r)
    BY DEF OutputTypeOK, EventRequest, WireKnown
  <2>2. CASE r.stream = s
    <3>1. r # NextEvent(s)
      BY <1>1, <2>1 DEF NextEvent
    <3> QED
      BY <1>2, <2>1, <2>2, <3>1 DEF EventKnown, sink
  <2>3. CASE r.stream # s
    <3>1. NextEvent(r.stream)' = NextEvent(r.stream)
      BY <1>2, <1>3, <2>1, <2>3 DEF NextEvent
    <3> QED
      BY <1>2, <2>1, <3>1 DEF EventKnown, sink
  <2> QED
    BY <2>2, <2>3
<1> QED
  BY <1>4, <1>5, <1>6 DEF WireKnown, sink

\* A chunk is acknowledged.
LEMMA WireAcknowledged ==
    ASSUME OutputTypeOK, OutputTypeOK', WireKnown, WriteKnows, io.op = "ack", Apply(io),
           UNCHANGED <<made, sink>>
    PROVE  WireKnown'
<1> DEFINE s == io.stream
<1>1. /\ s \in Streams /\ pending[s] = io.size /\ io.size > 0 /\ io.size \in Nat
      /\ io.off = offset[s] /\ NextEvent(s) \in got /\ io.op # "prepare"
      /\ offset[s] \in Nat
  BY DEF WriteKnows, OutputTypeOK, Write
<1>2. /\ pending' = [pending EXCEPT ![s] = 0]
      /\ offset' = [offset EXCEPT ![s] = offset[s] + pending[s]] /\ decoded' = decoded
      /\ progress' = IF s = "stdout" THEN {} ELSE progress
  BY <1>1 DEF Apply
<1> HIDE DEF s
<1>3. /\ pending'[s] = 0 /\ offset'[s] = offset[s] + pending[s]
      /\ \A t \in Streams \ {s} : pending'[t] = pending[t] /\ offset'[t] = offset[t]
      /\ \A t \in Streams : offset[t] \in Nat /\ pending[t] \in Nat
  BY <1>1, <1>2 DEF OutputTypeOK
<1>4. DecoderKnows'
  BY <1>1, <1>2, <1>3 DEF WireKnown, DecoderKnows, Streams
<1>5. ASSUME NEW t \in Streams PROVE StreamKnown(t)'
  <2>1. CASE t = s
    <3>1. NextEvent(s).stream = s /\ NextEvent(s).off + NextEvent(s).size = offset'[s]
      BY <1>3 DEF NextEvent
    <3>2. offset[s] + pending[s] <= made[s]
      BY <1>1 DEF WireKnown, StreamKnown
    <3> QED
      BY <1>1, <1>3, <2>1, <3>1, <3>2 DEF StreamKnown, sink
  <2>2. CASE t # s
    BY <1>3, <2>2 DEF WireKnown, StreamKnown, sink
  <2> QED
    BY <2>1, <2>2
<1>6. ASSUME NEW r \in inTransit \cup got PROVE EventKnown(r)'
  <2>1. r.size \in Nat /\ r.off \in Nat /\ r.stream \in Streams /\ EventKnown(r)
    BY DEF OutputTypeOK, EventRequest, WireKnown
  <2>2. CASE r.stream = s
    <3>1. r.off + r.size <= offset'[s] /\ r \in got
      <4>1. CASE r = NextEvent(s)
        BY <1>1, <1>3, <4>1 DEF NextEvent
      <4>2. CASE r # NextEvent(s)
        BY <1>1, <1>3, <2>1, <2>2, <4>2 DEF EventKnown
      <4> QED
        BY <4>1, <4>2
    <3> QED
      BY <2>1, <2>2, <3>1 DEF EventKnown, sink
  <2>3. CASE r.stream # s
    <3>1. NextEvent(r.stream)' = NextEvent(r.stream) /\ offset'[r.stream] = offset[r.stream]
      BY <1>2, <1>3, <2>1, <2>3 DEF NextEvent
    <3> QED
      BY <2>1, <3>1 DEF EventKnown, sink
  <2> QED
    BY <2>2, <2>3
<1> QED
  BY <1>4, <1>5, <1>6 DEF WireKnown, sink
-----------------------------------------------------------------------------
\* The process writes a byte.
LEMMA WriteOutputKeeps ==
    ASSUME OutputInv, NEW s \in Streams, WriteOutput(s)
    PROVE  OutputInv'
<1> USE DEF OutputInv
<1>1. OutputTypeOK'
  BY OutputBoundsAssumption DEF WriteOutput, OutputTypeOK, chunkJournal, sink
<1>2. OneSender'
  BY DEF WriteOutput, OneSender, Busy, Waiting, Senders, Resting, OutputTypeOK, Task
<1>3. \A v \in Senders : SenderKnows(v)'
  BY DEF WriteOutput, SenderKnows, OneSender, Busy, Senders, Resting, OutputTypeOK, Task,
       chunkJournal
<1>4. WriteKnows'
  <2>1. \A t \in Streams : made'[t] \in Nat /\ made[t] \in Nat /\ made[t] <= made'[t]
    BY <1>1 DEF WriteOutput, OutputTypeOK
  <2>2. io.stream \in Streams /\ io.size \in Nat /\ \A t \in Streams : offset[t] \in Nat
    BY DEF OutputTypeOK, Write
  <2> QED
    BY <2>1, <2>2 DEF WriteOutput, WriteKnows, NextEvent, chunkJournal, sink
<1>5. WireKnown'
  BY <1>1, WireQuiet DEF WriteOutput, sink, OutputTypeOK
<1>6. DrainKnows'
  BY DEF WriteOutput, DrainKnows, Busy, OneSender, Resting, OutputTypeOK, Task, chunkJournal
<1> QED
  BY <1>1, <1>2, <1>3, <1>4, <1>5, <1>6

\* The process ends.
LEMMA ProcessExitsKeeps ==
    ASSUME OutputInv, ProcessExits
    PROVE  OutputInv'
<1> USE DEF OutputInv
<1>1. OutputTypeOK'
  BY DEF ProcessExits, OutputTypeOK, chunkJournal, sink, Task, Resting
<1>2. OneSender'
  BY DEF ProcessExits, OneSender, Busy, Waiting, Senders, Resting, OutputTypeOK, Task
<1>3. \A v \in Senders : SenderKnows(v)'
  BY DEF ProcessExits, SenderKnows, OneSender, Busy, Senders, Resting, OutputTypeOK, Task,
       chunkJournal
<1>4. WriteKnows'
  BY DEF ProcessExits, WriteKnows, NextEvent, chunkJournal, sink, OutputTypeOK
<1>5. WireKnown'
  BY <1>1, WireQuiet DEF ProcessExits, sink, OutputTypeOK
<1>6. DrainKnows'
  BY DEF ProcessExits, DrainKnows, Busy, OneSender, Resting, OutputTypeOK, Task,
       chunkJournal
<1> QED
  BY <1>1, <1>2, <1>3, <1>4, <1>5, <1>6

\* A sender takes the lock.
LEMMA LockSenderKeeps ==
    ASSUME OutputInv, NEW w \in Senders, LockSender(w)
    PROVE  OutputInv'
<1> USE DEF OutputInv
<1>1. OutputTypeOK'
  BY DEF LockSender, OutputTypeOK, chunkJournal, sink, Task, Resting, PCs, Streams, Senders
<1>2. OneSender'
  BY DEF LockSender, OneSender, Busy, Waiting, Senders, Resting, OutputTypeOK, Task
<1>3. \A v \in Senders : SenderKnows(v)'
  BY DEF LockSender, SenderKnows, OneSender, Busy, Senders, Resting, OutputTypeOK, Task,
       chunkJournal
<1>4. WriteKnows'
  BY DEF LockSender, WriteKnows, NextEvent, chunkJournal, sink, OutputTypeOK
<1>5. WireKnown'
  BY <1>1, WireQuiet DEF LockSender, sink, OutputTypeOK
<1>6. DrainKnows'
  BY DEF LockSender, DrainKnows, Busy, OneSender, Resting, OutputTypeOK, Task, chunkJournal
<1> QED
  BY <1>1, <1>2, <1>3, <1>4, <1>5, <1>6

\* A chunk is sent.
LEMMA SendChunkKeeps ==
    ASSUME OutputInv, NEW w \in Senders, SendChunk(w)
    PROVE  OutputInv'
<1> USE DEF OutputInv
<1>1. OutputTypeOK'
  <2>1. Body(w) \in EventRequest
    BY DEF SendChunk, Body, SenderKnows, OutputTypeOK, EventRequest, Task
  <2> QED
    BY <2>1 DEF SendChunk, OutputTypeOK, chunkJournal, Task, PCs
<1>2. OneSender'
  BY DEF SendChunk, OneSender, Busy, Waiting, Senders, Resting, OutputTypeOK, Task
<1>3. \A v \in Senders : SenderKnows(v)'
  BY DEF SendChunk, SenderKnows, OneSender, Busy, Senders, Resting, OutputTypeOK, Task,
       chunkJournal
<1>4. WriteKnows'
  BY DEF SendChunk, WriteKnows, NextEvent, chunkJournal, sink, OutputTypeOK
<1>5. WireKnown'
  <2>1. pending[task[w].stream] > 0 /\ task[w].stream \in Streams
    BY <1>1 DEF SendChunk, SenderKnows, OutputTypeOK, Task
  <2>2. /\ inTransit' = inTransit \cup {NextEvent(task[w].stream)}
        /\ UNCHANGED <<chunkJournal, made, got>>
    BY DEF SendChunk, Body, NextEvent, SenderKnows
  <2> QED
    BY <1>1, <2>1, <2>2, WireSent
<1>6. DrainKnows'
  BY DEF SendChunk, DrainKnows, Busy, OneSender, Resting, OutputTypeOK, Task, chunkJournal
<1> QED
  BY <1>1, <1>2, <1>3, <1>4, <1>5, <1>6

\* The backend has it.
LEMMA AcknowledgeChunkKeeps ==
    ASSUME OutputInv, NEW w \in Senders, AcknowledgeChunk(w)
    PROVE  OutputInv'
<1> USE DEF OutputInv
<1>1. OutputTypeOK'
  BY DEF AcknowledgeChunk, OutputTypeOK, chunkJournal, sink, Task, PCs, Write, Submitted,
       Senders
<1>2. OneSender'
  BY DEF AcknowledgeChunk, OneSender, Busy, Waiting, Senders, Resting, OutputTypeOK, Task,
       Submitted
<1>3. \A v \in Senders : SenderKnows(v)'
  BY DEF AcknowledgeChunk, SenderKnows, OneSender, Busy, Senders, Resting, OutputTypeOK,
       Task, chunkJournal, Submitted
<1>4. WriteKnows'
  BY DEF AcknowledgeChunk, WriteKnows, NextEvent, chunkJournal, sink, OutputTypeOK,
       Submitted, Body, SenderKnows, Task
<1>5. WireKnown'
  BY <1>1, WireQuiet DEF AcknowledgeChunk, sink, OutputTypeOK
<1>6. DrainKnows'
  BY DEF AcknowledgeChunk, DrainKnows, Busy, OneSender, Resting, OutputTypeOK, Task,
       chunkJournal
<1> QED
  BY <1>1, <1>2, <1>3, <1>4, <1>5, <1>6

\* The send fails.
LEMMA SendFailsKeeps ==
    ASSUME OutputInv, NEW w \in Senders, SendFails(w)
    PROVE  OutputInv'
<1> USE DEF OutputInv
<1>1. OutputTypeOK'
  BY DEF SendFails, OutputTypeOK, chunkJournal, sink, FreeSender, OutputStrike, FaultKinds,
       Task, Resting, PCs, Streams, Senders
<1>2. OneSender'
  BY DEF SendFails, OneSender, Busy, Waiting, Senders, Resting, OutputTypeOK, Task,
       FreeSender
<1>3. \A v \in Senders : SenderKnows(v)'
  BY DEF SendFails, SenderKnows, OneSender, Busy, Senders, Resting, OutputTypeOK, Task,
       chunkJournal
<1>4. WriteKnows'
  BY DEF SendFails, WriteKnows, NextEvent, chunkJournal, sink, OutputTypeOK
<1>5. WireKnown'
  BY <1>1, WireQuiet DEF SendFails, sink, OutputTypeOK
<1>6. DrainKnows'
  BY DEF SendFails, DrainKnows, Busy, OneSender, Resting, OutputTypeOK, Task, chunkJournal
<1> QED
  BY <1>1, <1>2, <1>3, <1>4, <1>5, <1>6

\* The output task is aborted.
LEMMA AbortLiveKeeps ==
    ASSUME OutputInv, AbortLive
    PROVE  OutputInv'
<1> USE DEF OutputInv
<1>1. OutputTypeOK'
  BY DEF AbortLive, OutputTypeOK, chunkJournal, sink, FreeSender, Task, Resting, PCs,
       Streams, Senders
<1>2. OneSender'
  BY DEF AbortLive, OneSender, Busy, Waiting, Senders, Resting, OutputTypeOK, Task,
       FreeSender
<1>3. \A v \in Senders : SenderKnows(v)'
  BY DEF AbortLive, SenderKnows, OneSender, Busy, Senders, Resting, OutputTypeOK, Task,
       chunkJournal
<1>4. WriteKnows'
  BY DEF AbortLive, WriteKnows, NextEvent, chunkJournal, sink, OutputTypeOK
<1>5. WireKnown'
  BY <1>1, WireQuiet DEF AbortLive, sink, OutputTypeOK
<1>6. DrainKnows'
  BY DEF AbortLive, DrainKnows, Busy, OneSender, Resting, OutputTypeOK, Task, chunkJournal
<1> QED
  BY <1>1, <1>2, <1>3, <1>4, <1>5, <1>6

\* A write fails.
LEMMA WriteFailsKeeps ==
    ASSUME OutputInv, WriteFails
    PROVE  OutputInv'
<1> USE DEF OutputInv
<1>1. OutputTypeOK'
  <2>1. Resting \in Task /\ NoWrite \in Write
    BY DEF Resting, Task, PCs, NoWrite, Write, Streams
  <2> QED
    BY <2>1 DEF WriteFails, OutputTypeOK, chunkJournal, sink, OutputStrike, FaultKinds
<1>2. OneSender'
  BY DEF WriteFails, OneSender, Busy, Waiting, Senders, Resting, OutputTypeOK, Task, NoWrite
<1>3. \A v \in Senders : SenderKnows(v)'
  BY DEF WriteFails, SenderKnows, OneSender, Busy, Senders, Resting, OutputTypeOK, Task,
       chunkJournal, NoWrite, Waiting
<1>4. WriteKnows'
  BY DEF WriteFails, WriteKnows, NextEvent, chunkJournal, sink, OutputTypeOK, NoWrite
<1>5. WireKnown'
  BY <1>1, WireQuiet DEF WriteFails, sink, OutputTypeOK
<1>6. DrainKnows'
  BY DEF WriteFails, DrainKnows, Busy, OneSender, Resting, OutputTypeOK, Task, chunkJournal,
       Waiting, Senders
<1> QED
  BY <1>1, <1>2, <1>3, <1>4, <1>5, <1>6

\* A pass goes on with the other stream, or ends.
LEMMA Passed ==
    ASSUME OutputTypeOK, NEW w \in Senders, NEW sent \in BOOLEAN, PassOn(w, sent)
    PROVE  /\ task' \in [Senders -> Task] /\ phase' \in {phase, "drained"}
           /\ \A v \in Senders \ {w} : task'[v] = task[v]
           /\ \/ /\ task[w].stream = "stdout" /\ task'[w].stream = "stderr"
                 /\ task'[w].sent = sent /\ task'[w].pc = "look"
                 /\ senderLock' = senderLock \ {"io"} /\ phase' = phase
              \/ /\ task[w].stream = "stderr" /\ task'[w].pc = "idle"
                 /\ senderLock' = senderLock \ {w, "io"}
                 /\ phase' # phase => w = "drain" /\ ~sent
<1>1. Resting \in Task
  BY DEF Resting, Task, PCs, Streams
<1>2. task[w].stream \in {"stdout", "stderr"}
  BY DEF OutputTypeOK, Task, Streams
<1>3. CASE task[w].stream = "stdout"
  <2> DEFINE n == [Resting EXCEPT !.pc = "look", !.stream = "stderr", !.sent = sent]
  <2>1. n \in Task /\ n.stream = "stderr" /\ n.sent = sent /\ n.pc = "look"
    BY <1>1 DEF Task, PCs, Streams
  <2>2. task' = [task EXCEPT ![w] = n] /\ senderLock' = senderLock \ {"io"} /\ phase' = phase
    BY <1>3 DEF PassOn
  <2> QED
    BY <1>3, <2>1, <2>2 DEF OutputTypeOK
<1>4. CASE task[w].stream # "stdout"
  <2>1. Resting.pc = "idle"
    BY DEF Resting
  <2> QED
    BY <1>1, <1>2, <1>4, <2>1 DEF PassOn, OutputTypeOK
<1> QED
  BY <1>3, <1>4

\* The record after a write: one stream moves on, and none that is at its end.
LEMMA Applied ==
    ASSUME OutputTypeOK, WireKnown, WriteKnows, io.op # "none", Apply(io)
    PROVE  /\ offset' \in [Streams -> Nat] /\ pending' \in [Streams -> Nat]
           /\ decoded' \in Nat /\ progress' \in SUBSET Nat
           /\ \A s \in Streams : offset[s] = made[s] => offset'[s] = offset[s]
           /\ io.op = "prepare" => offset' = offset /\ pending'[io.stream] = io.size
<1> DEFINE s == io.stream
<1>1. /\ s \in Streams /\ io.size \in Nat /\ io.off \in Nat /\ io.size > 0
      /\ decoded \in Nat /\ offset[s] \in Nat /\ made[s] \in Nat
      /\ offset[s] + pending[s] <= made[s]
  BY DEF OutputTypeOK, Write, WriteKnows, WireKnown, StreamKnown
<1>2. CASE io.op = "prepare"
  <2>1. Lines(decoded, decoded + io.size) \subseteq Nat
    BY <1>1 DEF Lines
  <2>2. /\ pending' = [pending EXCEPT ![s] = io.size] /\ offset' = offset
        /\ decoded' = decoded + io.size \/ decoded' = decoded
        /\ progress' = Lines(decoded, decoded + io.size) \/ progress' = progress
    BY <1>2 DEF Apply
  <2>3. pending' \in [Streams -> Nat] /\ pending'[s] = io.size
    BY <1>1, <2>2 DEF OutputTypeOK
  <2>4. decoded' \in Nat
    BY <1>1, <2>2
  <2> QED
    BY <2>1, <2>2, <2>3, <2>4 DEF OutputTypeOK
<1>3. CASE io.op # "prepare"
  <2>1. io.op = "ack" /\ io.size = pending[s] /\ offset[s] # made[s]
    BY <1>1, <1>3 DEF OutputTypeOK, Write, WriteKnows
  <2>2. /\ pending' = [pending EXCEPT ![s] = 0] /\ decoded' = decoded
        /\ offset' = [offset EXCEPT ![s] = io.off + io.size]
        /\ progress' = {} \/ progress' = progress
    BY <1>3 DEF Apply
  <2>3. offset' \in [Streams -> Nat] /\ \A t \in Streams \ {s} : offset'[t] = offset[t]
    BY <1>1, <2>2 DEF OutputTypeOK
  <2>4. pending' \in [Streams -> Nat] /\ decoded' \in Nat /\ progress' \in SUBSET Nat
    BY <1>1, <2>2 DEF OutputTypeOK
  <2> QED
    BY <1>3, <2>1, <2>3, <2>4
<1> QED
  BY <1>2, <1>3

\* A pending chunk is repeated as it was.
LEMMA LookRepeats ==
    ASSUME OutputInv, NEW w \in Senders, Look(w), pending[task[w].stream] > 0
    PROVE  OutputInv'
<1> USE DEF OutputInv
<1>1. OutputTypeOK'
  BY DEF Look, OutputTypeOK, chunkJournal, sink, Task, Resting, PCs, Streams, Senders
<1>2. OneSender'
  BY DEF Look, OneSender, Busy, Waiting, Senders, Resting, OutputTypeOK, Task
<1>3. \A v \in Senders : SenderKnows(v)'
  BY DEF Look, SenderKnows, OneSender, Busy, Senders, Resting, OutputTypeOK, Task,
       chunkJournal
<1>4. WriteKnows'
  <2>1. UNCHANGED <<io, chunkJournal, sink, made>>
    BY DEF Look, OutputTypeOK, Task, Streams
  <2> QED
    BY <2>1 DEF WriteKnows, NextEvent, chunkJournal, sink
<1>5. WireKnown'
  BY <1>1, WireQuiet DEF Look, sink, OutputTypeOK
<1>6. DrainKnows'
  BY DEF Look, DrainKnows, Busy, OneSender, Resting, OutputTypeOK, Task, chunkJournal,
       Streams, Senders
<1> QED
  BY <1>1, <1>2, <1>3, <1>4, <1>5, <1>6

\* A new chunk is read.
LEMMA LookReads ==
    ASSUME OutputInv, NEW w \in Senders, Look(w), pending[task[w].stream] = 0,
           made[task[w].stream] # offset[task[w].stream]
    PROVE  OutputInv'
<1> USE DEF OutputInv
<1>1. OutputTypeOK'
  BY DEF Look, OutputTypeOK, chunkJournal, sink, Task, Resting, PCs, Streams, Senders,
       Submitted, Write
<1>2. OneSender'
  BY DEF Look, OneSender, Busy, Waiting, Senders, Resting, OutputTypeOK, Task, Submitted
<1>3. \A v \in Senders : SenderKnows(v)'
  BY DEF Look, SenderKnows, OneSender, Busy, Senders, Resting, OutputTypeOK, Task,
       chunkJournal, Submitted
<1>4. WriteKnows'
  BY DEF Look, WriteKnows, NextEvent, chunkJournal, sink, OutputTypeOK, Submitted, Streams,
       OneSender, Busy, Waiting, Task
<1>5. WireKnown'
  BY <1>1, WireQuiet DEF Look, sink, OutputTypeOK
<1>6. DrainKnows'
  BY DEF Look, DrainKnows, Busy, OneSender, Resting, OutputTypeOK, Task, chunkJournal,
       Streams, Senders
<1> QED
  BY <1>1, <1>2, <1>3, <1>4, <1>5, <1>6

\* There is nothing more to send on the stream.
LEMMA LookPasses ==
    ASSUME OutputInv, NEW w \in Senders, Look(w), pending[task[w].stream] = 0,
           made[task[w].stream] = offset[task[w].stream]
    PROVE  OutputInv'
<1> USE DEF OutputInv
<1>1. /\ task[w].pc = "look" /\ PassOn(w, task[w].sent) /\ task[w].sent \in BOOLEAN
      /\ UNCHANGED <<made, chunkJournal, io, sink, outputLeft>>
  BY DEF Look, OutputTypeOK, Task
<1>2. /\ task' \in [Senders -> Task] /\ phase' \in {phase, "drained"}
      /\ \A v \in Senders \ {w} : task'[v] = task[v]
      /\ \/ /\ task[w].stream = "stdout" /\ task'[w].stream = "stderr"
            /\ task'[w].sent = task[w].sent /\ task'[w].pc = "look"
            /\ senderLock' = senderLock \ {"io"} /\ phase' = phase
         \/ /\ task[w].stream = "stderr" /\ task'[w].pc = "idle"
            /\ senderLock' = senderLock \ {w, "io"}
            /\ phase' # phase => w = "drain" /\ ~task[w].sent
  BY <1>1, Passed
<1>3. OutputTypeOK'
  BY <1>1, <1>2 DEF OutputTypeOK, chunkJournal, sink
<1>4. OneSender'
  BY <1>1, <1>2 DEF OneSender, Busy, Waiting, Senders
<1>5. \A v \in Senders : SenderKnows(v)'
  BY <1>1, <1>2 DEF SenderKnows, chunkJournal
<1>6. WriteKnows'
  BY <1>1, <1>2 DEF WriteKnows, NextEvent, chunkJournal, sink
<1>7. WireKnown'
  BY <1>1, <1>2, <1>3, WireQuiet DEF OutputTypeOK, sink
<1>8. DrainKnows'
  BY <1>1, <1>2 DEF DrainKnows, Busy, OneSender, Streams, Senders, chunkJournal
<1> QED
  BY <1>3, <1>4, <1>5, <1>6, <1>7, <1>8

\* A write ends whose task is gone.
LEMMA OrphanWriteEnds ==
    ASSUME OutputInv, WriteEnds, Waiting = {}
    PROVE  OutputInv'
<1> USE DEF OutputInv
<1>1. /\ offset' \in [Streams -> Nat] /\ pending' \in [Streams -> Nat]
      /\ decoded' \in Nat /\ progress' \in SUBSET Nat
      /\ \A s \in Streams : offset[s] = made[s] => offset'[s] = offset[s]
      /\ io.op = "prepare" => offset' = offset /\ pending'[io.stream] = io.size
  BY Applied DEF WriteEnds
<1>2. NoWrite \in Write /\ NoWrite.op = "none"
  BY DEF NoWrite, Write, Streams
<1>3. OutputTypeOK'
  BY <1>2, <1>1 DEF WriteEnds, OutputTypeOK, sink
<1>4. OneSender'
  BY <1>2, <1>1 DEF WriteEnds, OneSender, Busy, Waiting, Senders
<1>5. \A v \in Senders : SenderKnows(v)'
  BY <1>2, <1>1 DEF WriteEnds, SenderKnows, OneSender, Busy, Waiting, OutputTypeOK, Task
<1>6. WriteKnows'
  BY <1>2, <1>1 DEF WriteEnds, WriteKnows
<1>7. WireKnown'
  BY <1>3, WirePrepared, WireAcknowledged DEF WriteEnds, OutputTypeOK, Write
<1>8. DrainKnows'
  BY <1>2, <1>1 DEF WriteEnds, DrainKnows, Busy, Senders, Waiting, OneSender, Streams
<1> QED
  BY <1>3, <1>4, <1>5, <1>6, <1>7, <1>8

\* A prepared chunk is durable: its task may send it.
LEMMA PrepareEnds ==
    ASSUME OutputInv, WriteEnds, Waiting # {}, io.op = "prepare"
    PROVE  OutputInv'
<1> USE DEF OutputInv
<1>1. /\ offset' \in [Streams -> Nat] /\ pending' \in [Streams -> Nat]
      /\ decoded' \in Nat /\ progress' \in SUBSET Nat
      /\ \A s \in Streams : offset[s] = made[s] => offset'[s] = offset[s]
      /\ io.op = "prepare" => offset' = offset /\ pending'[io.stream] = io.size
  BY Applied DEF WriteEnds
<1>2. NoWrite \in Write /\ NoWrite.op = "none"
  BY DEF NoWrite, Write, Streams
<1>3. OutputTypeOK'
  BY <1>2, <1>1 DEF WriteEnds, OutputTypeOK, sink, Task, Resting, PCs, Streams, Senders
<1>4. OneSender'
  BY <1>2, <1>1 DEF WriteEnds, OneSender, Busy, Waiting, Senders, OutputTypeOK, Task
<1>5. \A v \in Senders : SenderKnows(v)'
  BY <1>2, <1>1 DEF WriteEnds, SenderKnows, OneSender, Busy, Waiting, Submitted,
       OutputTypeOK, Task, WriteKnows
<1>6. WriteKnows'
  BY <1>2, <1>1 DEF WriteEnds, WriteKnows
<1>7. WireKnown'
  BY <1>3, WirePrepared, WireAcknowledged DEF WriteEnds, OutputTypeOK, Write
<1>8. DrainKnows'
  BY <1>2, <1>1 DEF WriteEnds, DrainKnows, Busy, Senders, OneSender, Waiting, OutputTypeOK,
       Task
<1> QED
  BY <1>3, <1>4, <1>5, <1>6, <1>7, <1>8

\* An acknowledgement is durable: its task goes on.
LEMMA AcknowledgeEnds ==
    ASSUME OutputInv, WriteEnds, Waiting # {}, io.op = "ack"
    PROVE  OutputInv'
<1> USE DEF OutputInv
<1>1. PICK w \in Waiting : PassOn(w, TRUE) /\ w \in Senders
  BY DEF WriteEnds, Waiting
<1>2. /\ offset' \in [Streams -> Nat] /\ pending' \in [Streams -> Nat]
      /\ decoded' \in Nat /\ progress' \in SUBSET Nat
      /\ \A s \in Streams : offset[s] = made[s] => offset'[s] = offset[s]
      /\ io.op = "prepare" => offset' = offset /\ pending'[io.stream] = io.size
  BY Applied DEF WriteEnds
<1>3. NoWrite \in Write /\ NoWrite.op = "none"
  BY DEF NoWrite, Write, Streams
<1>4. /\ task' \in [Senders -> Task] /\ phase' \in {phase, "drained"}
      /\ \A v \in Senders \ {w} : task'[v] = task[v]
      /\ \/ /\ task[w].stream = "stdout" /\ task'[w].stream = "stderr"
            /\ task'[w].sent = TRUE /\ task'[w].pc = "look"
            /\ senderLock' = senderLock \ {"io"} /\ phase' = phase
         \/ /\ task[w].stream = "stderr" /\ task'[w].pc = "idle"
            /\ senderLock' = senderLock \ {w, "io"}
            /\ phase' # phase => w = "drain" /\ FALSE
  BY <1>1, Passed
<1>5. OutputTypeOK'
  BY <1>3, <1>1, <1>4, <1>2 DEF WriteEnds, OutputTypeOK, sink
<1>6. OneSender'
  BY <1>3, <1>1, <1>4, <1>2 DEF WriteEnds, OneSender, Busy, Waiting, Senders
<1>7. \A v \in Senders : SenderKnows(v)'
  <2>1. \A v \in Senders : task'[v].pc \notin {"preparing", "acking", "send", "waiting"}
    BY <1>1, <1>4 DEF OneSender, Busy, Waiting, WriteEnds
  <2> QED
    BY <2>1 DEF SenderKnows
<1>8. WriteKnows'
  BY <1>3, <1>1, <1>4, <1>2 DEF WriteEnds, WriteKnows
<1>9. WireKnown'
  BY <1>5, WirePrepared, WireAcknowledged DEF WriteEnds, OutputTypeOK, Write
<1>10. DrainKnows'
  BY <1>3, <1>1, <1>4, <1>2 DEF WriteEnds, DrainKnows, Busy, Senders, OneSender, Waiting
<1> QED
  BY <1>5, <1>6, <1>7, <1>8, <1>9, <1>10

\* The daemon dies, and the write with it.
LEMMA CrashBefore ==
    ASSUME OutputInv, OutputCrash, UNCHANGED chunkJournal
    PROVE  OutputInv'
<1> USE DEF OutputInv
<1>1. OutputTypeOK'
  <2>1. Resting \in Task /\ [Resting EXCEPT !.pc = "stopped"] \in Task
    BY DEF Resting, Task, PCs, Streams
  <2>2. task' \in [Senders -> Task]
    BY <2>1 DEF OutputCrash
  <2>3. NoWrite \in Write
    BY DEF NoWrite, Write, Streams
  <2>4. outputLeft' \in [FaultKinds -> Nat]
    BY DEF OutputCrash, OutputStrike, OutputTypeOK, FaultKinds
  <2> QED
    BY <2>2, <2>3, <2>4 DEF OutputCrash, OutputTypeOK, chunkJournal, sink
<1>2. OneSender'
  BY DEF OutputCrash, OneSender, Busy, Waiting, Senders, Resting, OutputTypeOK, Task,
       NoWrite
<1>3. \A v \in Senders : SenderKnows(v)'
  BY DEF OutputCrash, SenderKnows, OneSender, Busy, Senders, Resting, OutputTypeOK, Task,
       chunkJournal, NoWrite
<1>4. WriteKnows'
  BY DEF OutputCrash, WriteKnows, NextEvent, chunkJournal, sink, OutputTypeOK, NoWrite
<1>5. WireKnown'
  BY <1>1, WireQuiet DEF OutputCrash, sink, OutputTypeOK
<1>6. DrainKnows'
  BY DEF OutputCrash, DrainKnows, Busy, OneSender, Resting, OutputTypeOK, Task,
       chunkJournal, Streams, Senders
<1> QED
  BY <1>1, <1>2, <1>3, <1>4, <1>5, <1>6

\* The daemon dies, and the write is durable.
LEMMA CrashAfter ==
    ASSUME OutputInv, OutputCrash, io.op # "none", Apply(io)
    PROVE  OutputInv'
<1> USE DEF OutputInv
<1>1. /\ offset' \in [Streams -> Nat] /\ pending' \in [Streams -> Nat]
      /\ decoded' \in Nat /\ progress' \in SUBSET Nat
      /\ \A s \in Streams : offset[s] = made[s] => offset'[s] = offset[s]
      /\ io.op = "prepare" => offset' = offset /\ pending'[io.stream] = io.size
  BY Applied
<1>2. NoWrite \in Write /\ NoWrite.op = "none"
  BY DEF NoWrite, Write, Streams
<1>3. OutputTypeOK'
  <2>1. Resting \in Task /\ [Resting EXCEPT !.pc = "stopped"] \in Task
    BY DEF Resting, Task, PCs, Streams
  <2>2. task' \in [Senders -> Task]
    BY <2>1 DEF OutputCrash
  <2>3. NoWrite \in Write
    BY DEF NoWrite, Write, Streams
  <2>4. outputLeft' \in [FaultKinds -> Nat]
    BY DEF OutputCrash, OutputStrike, OutputTypeOK, FaultKinds
  <2> QED
    BY <2>2, <2>3, <2>4, <1>1 DEF OutputCrash, OutputTypeOK, chunkJournal, sink
<1>4. OneSender'
  BY <1>2, <1>1 DEF OutputCrash, OneSender, Busy, Waiting, Senders, Resting
<1>5. \A v \in Senders : SenderKnows(v)'
  BY <1>2, <1>1 DEF OutputCrash, SenderKnows, Resting
<1>6. WriteKnows'
  BY <1>2, <1>1 DEF OutputCrash, WriteKnows
<1>7. WireKnown'
  BY <1>3, WirePrepared, WireAcknowledged DEF OutputCrash, OutputTypeOK, Write
<1>8. DrainKnows'
  BY <1>2, <1>1 DEF OutputCrash, DrainKnows, Busy, Senders, Resting
<1> QED
  BY <1>3, <1>4, <1>5, <1>6, <1>7, <1>8

\* A request arrives.
LEMMA ArrivesKeeps ==
    ASSUME OutputInv, NEW r \in inTransit, Arrives(r)
    PROVE  OutputInv'
<1> USE DEF OutputInv
<1>1. OutputTypeOK'
  BY DEF Arrives, OutputTypeOK, chunkJournal, sink, Task, Resting
<1>2. OneSender'
  BY DEF Arrives, OneSender, Busy, Waiting, Senders, Resting, OutputTypeOK, Task
<1>3. \A v \in Senders : SenderKnows(v)'
  BY DEF Arrives, SenderKnows, OneSender, Busy, Senders, Resting, OutputTypeOK, Task,
       chunkJournal
<1>4. WriteKnows'
  BY DEF Arrives, WriteKnows, NextEvent, chunkJournal, sink, OutputTypeOK
<1>5. WireKnown'
  BY WireArrives
<1>6. DrainKnows'
  BY DEF Arrives, DrainKnows, Busy, OneSender, Resting, OutputTypeOK, Task, chunkJournal
<1> QED
  BY <1>1, <1>2, <1>3, <1>4, <1>5, <1>6

-----------------------------------------------------------------------------
\* Nothing is in flight at first.
LEMMA InitOutput == OutputInit => OutputInv
<1> SUFFICES ASSUME OutputInit PROVE OutputInv
  OBVIOUS
<1>1. Resting \in Task /\ [Resting EXCEPT !.pc = "stopped"] \in Task /\ NoWrite \in Write
  BY DEF Resting, Task, PCs, NoWrite, Write, Streams
<1>2. OutputTypeOK
  BY <1>1, OutputBoundsAssumption, OutputFaultsAssumption DEF OutputInit, OutputTypeOK
<1>3. \A w \in Senders : ~Busy(w) /\ SenderKnows(w)
  BY DEF OutputInit, Busy, SenderKnows, Resting
<1>4. OneSender /\ WriteKnows /\ DrainKnows
  BY <1>3 DEF OutputInit, OneSender, WriteKnows, DrainKnows, NoWrite, Senders
<1>5. WireKnown
  BY DEF OutputInit, WireKnown, DecoderKnows, StreamKnown, Streams
<1> QED
  BY <1>2, <1>3, <1>4, <1>5 DEF OutputInv

\* Every step keeps what is known.
LEMMA NextOutput == OutputInv /\ [OutputNext]_outputVars => OutputInv'
<1> SUFFICES ASSUME OutputInv, [OutputNext]_outputVars PROVE OutputInv'
  OBVIOUS
<1>1. CASE WriteEnds
  BY <1>1, OrphanWriteEnds, PrepareEnds, AcknowledgeEnds DEF WriteEnds, OutputInv,
     OutputTypeOK, Write
<1>2. CASE OutputCrash
  BY <1>2, CrashBefore, CrashAfter DEF OutputCrash
<1>3. ASSUME NEW w \in Senders, Look(w) PROVE OutputInv'
  <2>1. pending[task[w].stream] > 0 \/ pending[task[w].stream] = 0
    BY DEF OutputInv, OutputTypeOK, Task
  <2> QED
    BY <1>3, <2>1, LookRepeats, LookReads, LookPasses
<1>4. ASSUME NEW w \in Senders, SenderStep(w) \/ SendFails(w) PROVE OutputInv'
  BY <1>3, <1>4, LockSenderKeeps, SendChunkKeeps, AcknowledgeChunkKeeps, SendFailsKeeps
     DEF SenderStep
<1>5. CASE UNCHANGED outputVars
  BY <1>5 DEF outputVars, chunkJournal, sink, OutputInv, OutputTypeOK, OneSender, Busy,
       Waiting,
     SenderKnows, WriteKnows, NextEvent, WireKnown, DecoderKnows, StreamKnown, EventKnown,
     DrainKnows
<1> QED
  BY <1>1, <1>2, <1>4, <1>5, WriteOutputKeeps, ProcessExitsKeeps, WriteFailsKeeps,
     AbortLiveKeeps, ArrivesKeeps DEF OutputNext

(***************************************************************************)
(* In every reachable state the busy sender knows the record, and what was *)
(* sent is the pending chunk or one the backend has acknowledged.          *)
(***************************************************************************)
THEOREM OutputCorrect == OutputSpec => []OutputInv
<1> QED
  BY InitOutput, NextOutput, PTL DEF OutputSpec

(***************************************************************************)
(* A chunk id names the same bytes for ever, progress lines are those of   *)
(* the output the backend holds, and when the drain is over nothing of the *)
(* output is missing there.                                                *)
(***************************************************************************)
THEOREM OutputExact == OutputSpec => []OutputArrivesExact
<1>1. ASSUME OutputInv PROVE OutputArrivesExact
  <2> USE <1>1 DEF OutputInv
  <2>1. ASSUME NEW q \in inTransit \cup got, NEW r \in inTransit \cup got,
               q.stream = r.stream, q.off = r.off
        PROVE  q = r
    <3>1. q.off \in Nat /\ q.size \in Nat /\ q.size > 0 /\ r.size \in Nat /\ r.size > 0
      BY DEF OutputTypeOK, EventRequest
    <3> QED
      BY <2>1, <3>1 DEF WireKnown, Apart
  <2>2. UNION {r.lines : r \in got} =
          UNION {Lines(c.off, c.off + c.size) : c \in Chunks("stdout")}
    <3>1. \A r \in got : r.lines = IF r.stream = "stdout" THEN Lines(r.off, r.off + r.size) ELSE {}
      BY DEF WireKnown, EventKnown
    <3>2. ASSUME NEW l, NEW r \in got, l \in r.lines
          PROVE  \E c \in Chunks("stdout") : l \in Lines(c.off, c.off + c.size)
      <4>1. r.stream = "stdout" /\ l \in Lines(r.off, r.off + r.size)
        BY <3>1, <3>2
      <4>2. [off |-> r.off, size |-> r.size] \in Chunks("stdout")
        BY <4>1 DEF Chunks
      <4> QED
        BY <4>1, <4>2
    <3>3. ASSUME NEW l, NEW c \in Chunks("stdout"), l \in Lines(c.off, c.off + c.size)
          PROVE  \E r \in got : l \in r.lines
      <4>1. PICK r \in got : r.stream = "stdout" /\ c = [off |-> r.off, size |-> r.size]
        BY DEF Chunks
      <4> QED
        BY <3>1, <3>3, <4>1
    <3> QED
      BY <3>2, <3>3
  <2>3. ASSUME phase = "drained", NEW s \in Streams
        PROVE  offset[s] = made[s] /\ Reliable!EndsAt(s, made[s])
    <3>1. offset[s] = made[s] /\ offset[s] \in Nat /\ pending[s] \in Nat
      BY <2>3 DEF DrainKnows, OutputTypeOK
    <3>2. \A r \in got : r.stream = s => r.off + r.size <= offset[s]
      <4> SUFFICES ASSUME NEW r \in got, r.stream = s PROVE r.off + r.size <= offset[s]
        OBVIOUS
      <4>1. pending[s] = 0 /\ r.size # 0
        BY <3>1 DEF WireKnown, StreamKnown, OutputTypeOK, EventRequest
      <4>2. r # NextEvent(s)
        BY <4>1 DEF NextEvent
      <4> QED
        BY <4>2 DEF WireKnown, EventKnown
    <3>3. \A c \in Chunks(s) : c.off + c.size <= offset[s]
      BY <3>2 DEF Chunks
    <3>4. offset[s] = 0 \/ \E c \in Chunks(s) : c.off + c.size = offset[s]
      <4>1. CASE offset[s] # 0
        <5>1. PICK r \in got : r.stream = s /\ r.off + r.size = offset[s]
          BY <4>1 DEF WireKnown, StreamKnown
        <5>2. [off |-> r.off, size |-> r.size] \in Chunks(s)
          BY <5>1 DEF Chunks
        <5> QED
          BY <5>1, <5>2
      <4> QED
        BY <4>1
    <3> QED
      BY <3>1, <3>3, <3>4 DEF Reliable!EndsAt
  <2> QED
    BY <2>1, <2>2, <2>3 DEF OutputArrivesExact
<1> QED
  BY <1>1, OutputCorrect, PTL

\* What a request that arrives is to the stream: nothing new, or its next chunk.
LEMMA ArrivesDelivers ==
    ASSUME OutputInv, NEW r \in inTransit, Arrives(r)
    PROVE  \/ UNCHANGED <<made, [s \in Streams |-> Chunks(s)]>>
           \/ \E s \in Streams : Reliable!Deliver(s)
<1>1. /\ got' = got \cup {r} /\ UNCHANGED <<made, chunkJournal>>
      /\ r \in EventRequest /\ OutputTypeOK /\ WireKnown
  BY DEF Arrives, OutputInv, OutputTypeOK
<1>2. CASE r \in got
  <2>1. got' = got
    BY <1>1, <1>2
  <2> QED
    BY <1>1, <2>1 DEF Chunks
<1>3. CASE r \notin got
  <2> DEFINE s == r.stream
             c == [off |-> r.off, size |-> r.size]
  <2>1. r = NextEvent(s) /\ s \in Streams
    BY <1>1, <1>3 DEF WireKnown, EventKnown, EventRequest
  <2>2. r.off = offset[s] /\ r.size = pending[s] /\ r.size > 0 /\ r.size \in Nat
    BY <1>1, <2>1 DEF NextEvent, EventRequest
  <2>3. offset[s] \in Nat /\ made[s] \in Nat /\ offset[s] + r.size <= made[s]
    BY <1>1, <2>1, <2>2 DEF WireKnown, StreamKnown, OutputTypeOK
  <2>4. Chunks(s)' = Chunks(s) \cup {c}
    BY <1>1 DEF Chunks
  <2>5. \A t \in Streams \ {s} : Chunks(t)' = Chunks(t)
    BY <1>1 DEF Chunks
  <2>6. \A q \in got : q.stream = s => q.off + q.size <= offset[s]
    BY <1>1, <1>3, <2>1 DEF WireKnown, EventKnown
  <2>7. Reliable!EndsAt(s, offset[s])
    <3>1. \A d \in Chunks(s) : d.off + d.size <= offset[s]
      BY <2>6 DEF Chunks
    <3>2. ASSUME offset[s] # 0 PROVE \E d \in Chunks(s) : d.off + d.size = offset[s]
      <4>1. PICK q \in got : q.stream = s /\ q.off + q.size = offset[s]
        BY <1>1, <2>1, <3>2 DEF WireKnown, StreamKnown
      <4>2. [off |-> q.off, size |-> q.size] \in Chunks(s)
        BY <4>1 DEF Chunks
      <4> QED
        BY <4>1, <4>2
    <3> QED
      BY <2>1, <3>1, <3>2 DEF Reliable!EndsAt
  <2>8. [t \in Streams |-> Chunks(t)]' =
          [[t \in Streams |-> Chunks(t)] EXCEPT ![s] = @ \cup {c}]
    BY <2>1, <2>4, <2>5
  <2>9. \E e, n \in 0..made[s] :
          /\ n > 0 /\ e + n <= made[s] /\ Reliable!EndsAt(s, e)
          /\ [t \in Streams |-> Chunks(t)]' =
               [[t \in Streams |-> Chunks(t)] EXCEPT ![s] = @ \cup {[off |-> e, size |-> n]}]
    <3>1. offset[s] \in 0..made[s] /\ r.size \in 0..made[s]
      BY <2>2, <2>3
    <3> QED
      BY <2>2, <2>3, <2>7, <2>8, <3>1
  <2>10. Reliable!Deliver(s)
    BY <1>1, <2>9 DEF Reliable!Deliver
  <2> QED
    BY <2>1, <2>10
<1> QED
  BY <1>2, <1>3

(***************************************************************************)
(* The event sender implements a reliable stream: through crashes, lost    *)
(* replies, aborted senders and failed writes the backend sees chunks laid *)
(* end to end, none of which ever changes.                                 *)
(***************************************************************************)
THEOREM OutputReliable == OutputSpec => ReliableSpec
<1> DEFINE held == [s \in Streams |-> Chunks(s)]
<1>1. OutputInit => Reliable!Init
  <2>1. OutputInit => \A s \in Streams : Chunks(s) = {}
    BY DEF OutputInit, Chunks
  <2> QED
    BY <2>1 DEF OutputInit, Reliable!Init
<1>2. OutputInv /\ [OutputNext]_outputVars => [Reliable!Next]_<<made, held>>
  <2> SUFFICES ASSUME OutputInv, [OutputNext]_outputVars
               PROVE  [Reliable!Next]_<<made, held>>
    OBVIOUS
  <2>1. got' = got => held' = held
    BY DEF Chunks
  <2>2. ASSUME NEW s \in Streams, WriteOutput(s) PROVE Reliable!Next
    <3>1. /\ made' \in [Streams -> Nat] /\ \A t \in Streams : made'[t] >= made[t]
          /\ got' = got
      BY <2>2, OutputBoundsAssumption DEF WriteOutput, OutputInv, OutputTypeOK, sink
    <3> QED
      BY <2>1, <3>1 DEF Reliable!Next, Reliable!Write
  <2>3. ASSUME NEW r \in inTransit, Arrives(r) PROVE [Reliable!Next]_<<made, held>>
    BY <2>3, ArrivesDelivers DEF Reliable!Next
  <2>4. CASE UNCHANGED <<made, got>>
    BY <2>1, <2>4
  <2>5. ASSUME NEW w \in Senders, SenderStep(w) \/ SendFails(w) PROVE UNCHANGED <<made, got>>
    BY <2>5 DEF SenderStep, LockSender, Look, SendChunk, AcknowledgeChunk, SendFails, sink
  <2> QED
    BY <2>2, <2>3, <2>4, <2>5 DEF OutputNext, outputVars, sink, ProcessExits, WriteEnds,
       WriteFails, AbortLive, OutputCrash
<1> QED
  BY <1>1, <1>2, OutputCorrect, PTL DEF OutputSpec, ReliableSpec, Reliable!Spec

=============================================================================
