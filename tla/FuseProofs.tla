----------------------------- MODULE FuseProofs -----------------------------
(***************************************************************************)
(* Theorems about the getattrs of clr_debug_fuse, for every number of FUSE *)
(* threads, all lengths of the timeouts and any daemon.                    *)
(***************************************************************************)
EXTENDS FuseClient, TLAPS

USE TimesAssumption

-----------------------------------------------------------------------------
(* Types and sockets.                                                      *)

\* Only the clock, a choice and a return change what a worker has waited.
LEMMA StepType ==
  ASSUME TypeOK, NEW w \in Worker, Step(w) PROVE TypeOK'
  <1> USE DEF TypeOK, Goto, local, clock
  <1>1. CASE OpenSocket(w) \/ ConnectDaemon(w) \/ SendRequest(w)
    BY <1>1 DEF OpenSocket, ConnectDaemon, SendRequest
  <1>2. CASE ChooseWait(w)
    BY <1>2 DEF ChooseWait, InDeadPeriod, MaxWaited
  <1>3. CASE Readable(w) \/ TimesOut(w)
    BY <1>3 DEF Readable, TimesOut, AfterTimeout
  <1>4. CASE MarkDead(w)
    BY <1>4 DEF MarkDead, DeadUntil
  <1>5. CASE CloseSocket(w)
    BY <1>5 DEF CloseSocket
  <1>6. CASE LookAgain(w)
    BY <1>6 DEF LookAgain, MaxWaited
  <1> QED BY <1>1, <1>2, <1>3, <1>4, <1>5, <1>6 DEF Step

LEMMA TickType == ASSUME TypeOK, Tick PROVE TypeOK'
  <1>1. subsec' \in 0 .. TicksPerSecond - 1
    BY DEF Tick, TypeOK
  <1>2. dead' \in 0 .. DeadSeconds
    BY DEF Tick, TypeOK
  <1>3. waited' \in [Worker -> 0 .. MaxWaited]
    BY DEF Tick, TypeOK, MaxWaited
  <1>4. late' \subseteq Worker
    BY DEF Tick, TypeOK
  <1> QED BY <1>1, <1>2, <1>3, <1>4 DEF Tick, TypeOK

LEMMA InitType == Init => TypeOK
  <1> SUFFICES ASSUME Init PROVE TypeOK
    OBVIOUS
  <1>1. name \in [Worker -> File]
    BY DEF Init
  <1>2. waited \in [Worker -> 0 .. MaxWaited]
    BY DEF Init, MaxWaited
  <1> QED BY <1>1, <1>2 DEF Init, TypeOK

LEMMA NextType == TypeOK /\ [Next]_vars => TypeOK'
  <1> SUFFICES ASSUME TypeOK, [Next]_vars PROVE TypeOK'
    OBVIOUS
  <1>1. CASE UNCHANGED vars
    BY <1>1 DEF vars, TypeOK
  <1>2. ASSUME NEW w \in Worker, Filtered(w) \/ Answer(w) PROVE TypeOK'
    BY <1>2 DEF Filtered, Answer, TypeOK, local, clock
  <1>3. ASSUME NEW w \in Worker, NEW f \in File, Lookup(w, f) PROVE TypeOK'
    BY <1>3 DEF Lookup, Goto, TypeOK, clock
  <1>4. ASSUME NEW f \in File, CacheChanges(f) PROVE TypeOK'
    BY <1>4 DEF CacheChanges, TypeOK, local, clock
  <1> QED BY <1>1, <1>2, <1>3, <1>4, StepType, TickType DEF Next

\* Every variable keeps its type; deadtime is at most DeadSeconds ahead, and no
\* worker waits longer than the long timeout.
THEOREM TypeCorrect == Spec => []TypeOK
  BY InitType, NextType, PTL DEF Spec

\* A worker opens a socket when it enters the part of try_to_get that has one,
\* and closes it when it leaves that part.
LEMMA NextSockets == TypeOK /\ SocketsInUse /\ [Next]_vars => SocketsInUse'
  <1> SUFFICES ASSUME TypeOK, SocketsInUse, [Next]_vars PROVE SocketsInUse'
    OBVIOUS
  <1> USE DEF TypeOK, SocketsInUse
  <1>1. CASE UNCHANGED <<pc, sockets>>
    BY <1>1
  <1>2. ASSUME NEW w \in Worker, NEW f \in File, Lookup(w, f) PROVE SocketsInUse'
    BY <1>2 DEF Lookup, Goto
  <1>3. ASSUME NEW w \in Worker, Step(w) PROVE SocketsInUse'
    <2>1. CASE OpenSocket(w)
      BY <2>1 DEF OpenSocket, Goto
    <2>2. CASE CloseSocket(w)
      BY <2>2 DEF CloseSocket, Goto
    <2>3. CASE LookAgain(w)
      BY <2>3 DEF LookAgain, Goto
    <2>4. CASE ConnectDaemon(w) \/ SendRequest(w)
      BY <2>4 DEF ConnectDaemon, SendRequest, Goto
    <2>5. CASE ChooseWait(w) \/ Readable(w) \/ TimesOut(w) \/ MarkDead(w)
      BY <2>5 DEF ChooseWait, Readable, TimesOut, AfterTimeout, MarkDead, Goto
    <2> QED BY <1>3, <2>1, <2>2, <2>3, <2>4, <2>5 DEF Step
  <1> QED BY <1>1, <1>2, <1>3
          DEF Next, vars, Filtered, Answer, CacheChanges, Tick

\* No path of try_to_get leaks its socket or closes it twice.
THEOREM SocketsHold == Spec => []SocketsInUse
  <1>1. Init => SocketsInUse
    BY DEF Init, SocketsInUse
  <1> QED BY <1>1, NextSockets, TypeCorrect, PTL DEF Spec

-----------------------------------------------------------------------------
(* The dead period.                                                        *)

\* While somebody is late the period lasts, and whoever is late waits shortly
\* now, if at all: it has read deadtime after it set it.
Hurried ==
  \A w \in late : /\ dead > 0
                  /\ pc[w] # "mark"
                  /\ pc[w] = "wait" => short[w]

LEMMA NextHurried == TypeOK /\ Hurried /\ [Next]_vars => Hurried'
  <1> SUFFICES ASSUME TypeOK, Hurried, [Next]_vars PROVE Hurried'
    OBVIOUS
  <1> USE DEF TypeOK, Hurried
  <1>1. CASE UNCHANGED <<dead, late, pc, short>>
    BY <1>1
  <1>2. CASE Tick
    BY <1>2 DEF Tick
  <1>3. ASSUME NEW w \in Worker, NEW f \in File, Lookup(w, f) PROVE Hurried'
    BY <1>3 DEF Lookup, Goto, clock
  <1>4. ASSUME NEW w \in Worker, Step(w) PROVE Hurried'
    <2>1. CASE ChooseWait(w)
      BY <2>1 DEF ChooseWait, InDeadPeriod, Goto, clock
    <2>2. CASE TimesOut(w)
      BY <2>2 DEF TimesOut, AfterTimeout, Goto, clock, local
    <2>3. CASE MarkDead(w)
      BY <2>3 DEF MarkDead, DeadUntil, Goto, local
    <2>4. CASE LookAgain(w)
      BY <2>4 DEF LookAgain, Goto, clock
    <2>5. CASE \/ OpenSocket(w) \/ ConnectDaemon(w) \/ SendRequest(w)
               \/ Readable(w) \/ CloseSocket(w)
      BY <2>5 DEF OpenSocket, ConnectDaemon, SendRequest, Readable, CloseSocket,
                  Goto, clock, local
    <2> QED BY <1>4, <2>1, <2>2, <2>3, <2>4, <2>5 DEF Step
  <1> QED BY <1>1, <1>2, <1>3, <1>4
          DEF Next, vars, Filtered, Answer, CacheChanges, clock, local

\* However FUSE threads interleave on deadtime, none runs into a second long
\* timeout before the daemon has had its DeadSeconds.
THEOREM NoDelays == Spec => NoSequentialDelays
  <1>1. Init => Hurried
    BY DEF Init, Hurried
  <1>2. TypeOK /\ Hurried /\ [Next]_vars
          => [\A w \in Worker : MarkDead(w) => w \notin late]_vars
    BY DEF Hurried, MarkDead
  <1> QED BY <1>1, <1>2, NextHurried, TypeCorrect, PTL DEF Spec, NoSequentialDelays
=============================================================================
