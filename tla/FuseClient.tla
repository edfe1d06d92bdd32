----------------------------- MODULE FuseClient -----------------------------
(***************************************************************************)
(* clr_debug_fuse: a getattr on the debuginfo tree (xmp_getattr in         *)
(* src/fuse.c) asks the daemon for the file (try_to_get in src/client.c)   *)
(* and looks again.  FUSE runs many getattrs at a time; they share         *)
(* deadtime, which says until when the daemon counts as slow, without a    *)
(* lock.  The daemon is part of the environment here: it may answer at any *)
(* time, or never.                                                         *)
(***************************************************************************)
EXTENDS Integers, FiniteSets

CONSTANTS
  Worker,          \* FUSE threads
  File,
  LongWait,        \* TIMEOUT, in ticks
  ShortWait,       \* TIMEOUT2, in ticks
  DeadSeconds,     \* the 4 of "deadtime = time(NULL) + 4"
  TicksPerSecond

ASSUME TimesAssumption ==
  /\ LongWait \in Nat \ {0}
  /\ ShortWait \in 1 .. LongWait
  /\ DeadSeconds \in Nat \ {0}
  /\ TicksPerSecond \in Nat \ {0}

VARIABLES
  cached,   \* files present in the cache
  dead,     \* deadtime - time(NULL), or 0 if that is negative
  subsec,   \* ticks into the current second
  pc,       \* where each worker is
  name,     \* the file its getattr is about
  stamped,  \* the first lstat found it: timestamp # 0
  short,    \* shorttime
  waited,   \* ticks its select has waited
  ready,    \* its socket is readable: an answer, or closed by the daemon
  sockets,  \* workers with an open socket
  found,    \* workers whose last getattr returned 0 rather than an error
  late      \* history: who ran into the long timeout while dead has not been 0

vars == <<cached, dead, subsec, pc, name, stamped, short, waited, ready,
          sockets, found, late>>

local == <<name, stamped, short, waited>>
clock == <<dead, subsec, late>>

MaxWaited == LongWait

TypeOK ==
  /\ cached \subseteq File
  /\ dead \in 0 .. DeadSeconds
  /\ subsec \in 0 .. TicksPerSecond - 1
  /\ pc \in [Worker -> {"idle", "socket", "connect", "peer", "choose", "wait",
                        "mark", "close", "stat"}]
  /\ name \in [Worker -> File]
  /\ stamped \in [Worker -> BOOLEAN]
  /\ short \in [Worker -> BOOLEAN]
  /\ waited \in [Worker -> 0 .. MaxWaited]
  /\ ready \subseteq Worker
  /\ sockets \subseteq Worker
  /\ found \subseteq Worker
  /\ late \subseteq Worker

Init ==
  /\ cached \in SUBSET File
  /\ dead = 0
  /\ subsec = 0
  /\ pc = [w \in Worker |-> "idle"]
  /\ name \in {[w \in Worker |-> f] : f \in File}
  /\ stamped = [w \in Worker |-> FALSE]
  /\ short = [w \in Worker |-> FALSE]
  /\ waited = [w \in Worker |-> 0]
  /\ ready = {}
  /\ sockets = {}
  /\ found = {}
  /\ late = {}

-----------------------------------------------------------------------------
(* The daemon, the cleaning of the cache, and the clock.                   *)

\* The daemon answers, or closes the connection without an answer; files
\* arrive with an answer, late, or because of somebody else's request.
Answer(w) ==
  /\ w \in sockets \ ready
  /\ pc[w] \in {"choose", "wait", "mark", "close"}
  /\ ready' = ready \cup {w}
  /\ UNCHANGED <<cached, clock, pc, local, sockets, found>>

CacheChanges(f) ==
  /\ cached' = IF f \in cached THEN cached \ {f} ELSE cached \cup {f}
  /\ UNCHANGED <<clock, pc, local, ready, sockets, found>>

NextSecond == subsec = TicksPerSecond - 1

Tick ==
  /\ subsec' = (subsec + 1) % TicksPerSecond
  /\ dead' = IF NextSecond /\ dead > 0 THEN dead - 1 ELSE dead
  /\ late' = IF dead' = 0 THEN {} ELSE late
  /\ waited' = [w \in Worker |-> IF pc[w] = "wait" /\ waited[w] < MaxWaited
                                 THEN waited[w] + 1 ELSE waited[w]]
  /\ UNCHANGED <<cached, pc, name, stamped, short, ready, sockets, found>>

-----------------------------------------------------------------------------
(* xmp_getattr and try_to_get.                                             *)

Goto(w, label) == pc' = [pc EXCEPT ![w] = label]

\* "/" and names below /.Trash are never asked for; nor is anything if there
\* is no memory for the path.
Filtered(w) ==
  /\ pc[w] = "idle"
  /\ found' \in {found \cup {w}, found \ {w}}
  /\ UNCHANGED <<cached, clock, pc, local, ready, sockets>>

\* The first lstat; a file that is not there leaves st_mtime zero.
Lookup(w, f) ==
  /\ pc[w] = "idle"
  /\ name' = [name EXCEPT ![w] = f]
  /\ stamped' = [stamped EXCEPT ![w] = f \in cached]
  /\ Goto(w, "socket")
  /\ UNCHANGED <<cached, clock, short, waited, ready, sockets, found>>

OpenSocket(w) ==
  /\ pc[w] = "socket"
  /\ \/ sockets' = sockets \cup {w} /\ Goto(w, "connect")
     \/ sockets' = sockets /\ Goto(w, "stat")
  /\ UNCHANGED <<cached, clock, local, ready, found>>

\* Mutant: giving up without closing the socket.
ConnectLeaking(w) ==
  /\ pc[w] = "connect"
  /\ Goto(w, "peer") \/ Goto(w, "stat")
  /\ UNCHANGED <<cached, clock, local, ready, sockets, found>>

\* Connecting fails if systemd does not listen.
ConnectDaemon(w) ==
  /\ pc[w] = "connect"
  /\ Goto(w, "peer") \/ Goto(w, "close")
  /\ UNCHANGED <<cached, clock, local, ready, sockets, found>>

\* The caller is the daemon itself, or there is no memory for the request;
\* else the request is written.
SendRequest(w) ==
  /\ pc[w] = "peer"
  /\ Goto(w, "choose") \/ Goto(w, "close")
  /\ UNCHANGED <<cached, clock, local, ready, sockets, found>>

\* Mutant: no memory of earlier timeouts.
NeverDead == FALSE

InDeadPeriod == dead > 0

\* deadtime is read here, and may change before select starts or ends.  A
\* file that is there is only refreshed: nobody waits for it.
ChooseWait(w) ==
  /\ pc[w] = "choose"
  /\ short' = [short EXCEPT ![w] = InDeadPeriod]
  /\ waited' = [waited EXCEPT ![w] = 0]
  /\ Goto(w, IF stamped[w] THEN "close" ELSE "wait")
  /\ UNCHANGED <<cached, clock, name, stamped, ready, sockets, found>>

Readable(w) ==
  /\ pc[w] = "wait"
  /\ w \in ready
  /\ Goto(w, "close")
  /\ UNCHANGED <<cached, clock, local, ready, sockets, found>>

\* Mutants: a long wait without a limit; a short timeout that counts as well.
LimitOnShort(w) == IF short[w] THEN ShortWait ELSE MaxWaited + 1
MarkAlways(w)   == "mark"

Limit(w) == IF short[w] THEN ShortWait ELSE LongWait

AfterTimeout(w) == IF short[w] THEN "close" ELSE "mark"

TimesOut(w) ==
  /\ pc[w] = "wait"
  /\ w \notin ready
  /\ waited[w] >= Limit(w)
  /\ Goto(w, AfterTimeout(w))
  /\ UNCHANGED <<cached, clock, local, ready, sockets, found>>

DeadSecondsPlusOne == DeadSeconds + 1  \* mutant of DeadUntil
DeadUntil == DeadSeconds               \* deadtime = time(NULL) + 4

MarkDead(w) ==
  /\ pc[w] = "mark"
  /\ dead' = DeadUntil
  /\ late' = late \cup {w}
  /\ Goto(w, "close")
  /\ UNCHANGED <<cached, subsec, local, ready, sockets, found>>

CloseSocket(w) ==
  /\ pc[w] = "close"
  /\ sockets' = sockets \ {w}
  /\ ready' = ready \ {w}
  /\ Goto(w, "stat")
  /\ UNCHANGED <<cached, clock, local, found>>

\* The second lstat decides what the caller is told.
LookAgain(w) ==
  /\ pc[w] = "stat"
  /\ found' = IF name[w] \in cached THEN found \cup {w} ELSE found \ {w}
  /\ stamped' = [stamped EXCEPT ![w] = FALSE]
  /\ waited' = [waited EXCEPT ![w] = 0]
  /\ short' = [short EXCEPT ![w] = FALSE]
  /\ Goto(w, "idle")
  /\ UNCHANGED <<cached, clock, name, ready, sockets>>

Step(w) ==
  \/ OpenSocket(w) \/ ConnectDaemon(w) \/ SendRequest(w) \/ ChooseWait(w)
  \/ Readable(w) \/ TimesOut(w) \/ MarkDead(w) \/ CloseSocket(w) \/ LookAgain(w)

Next ==
  \/ \E w \in Worker : \/ Filtered(w) \/ Answer(w) \/ Step(w)
                       \/ \E f \in File : Lookup(w, f)
  \/ \E f \in File : CacheChanges(f)
  \/ Tick

Spec == Init /\ [][Next]_vars

-----------------------------------------------------------------------------
\* Every path of try_to_get closes the socket it opened, and none is closed
\* twice (client.c:65-122): a process that lives as long as the mount would
\* run out of descriptors.
SocketsInUse ==
  sockets = {w \in Worker :
               pc[w] \in {"connect", "peer", "choose", "wait", "mark", "close"}}

\* "if we had a timeout recently, must go quicker to avoid sequential delays"
\* (client.c:106): until the daemon has had its four seconds no caller runs
\* into a second long timeout, although deadtime is read and written without
\* a lock and others may extend it.
NoSequentialDelays == [][\A w \in Worker : MarkDead(w) => w \notin late]_vars

\* The kernel runs every FUSE thread, calls other than select return, and the
\* clock ticks; nothing is assumed of the daemon.
Fairness == WF_vars(Tick) /\ \A w \in Worker : WF_vars(Step(w))

FairSpec == Spec /\ Fairness

\* A getattr returns even if the daemon never answers (client.c:102-116).
GetattrReturns == \A w \in Worker : pc[w] # "idle" ~> pc[w] = "idle"

\* The quick mode ends: however many callers keep timing out in it, the daemon
\* gets the long wait again (client.c:107-120).
DeadPeriodEnds == dead > 0 ~> dead = 0
=============================================================================
