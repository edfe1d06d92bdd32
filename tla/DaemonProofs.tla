---------------------------- MODULE DaemonProofs ----------------------------
(***************************************************************************)
(* Theorems about clr_debug_daemon, for every number of threads, clients,  *)
(* files and mirrors and every length of the windows: types and the count, *)
(* what its threads extract, and who may close a socket of the daemon.  No *)
(* path of server_thread closes a descriptor that is another's, or leaves  *)
(* one behind, and no transfer that broke off reaches the cache.           *)
(***************************************************************************)
EXTENDS DaemonProperties, FiniteSetTheorems, TLAPS

USE SizesAssumption, SentinelsAssumption

-----------------------------------------------------------------------------
(* Lemmas about the helpers the actions are built from.                    *)

\* Closing one end of a socket leaves a well-formed socket.
LEMMA SettleType ==
  ASSUME NEW k \in ConnRecord PROVE Settle(k) \in ConnRecord
  BY DEF Settle, ConnRecord, Unused

\* NoLocals is a value of the locals.
LEMMA NoLocalsType == NoLocals \in LocalRecord
  <1>1. 0 \in 0 .. NumUrls - 1
    OBVIOUS
  <1> QED BY <1>1 DEF NoLocals, LocalRecord

\* ProcessGone leaves every variable with its type.
LEMMA GoneType == ASSUME TypeOK, ProcessGone PROVE TypeOK'
  <1>1. conn' \in [Conn -> ConnRecord]
    <2>1. ASSUME NEW c \in Conn
          PROVE Settle([conn[c] EXCEPT !.srv = "closed"]) \in ConnRecord
      <3>1. [conn[c] EXCEPT !.srv = "closed"] \in ConnRecord
        BY DEF TypeOK, ConnRecord
      <3> QED BY <3>1, SettleType
    <2> QED BY <2>1 DEF TypeOK, ProcessGone
  <1>2. hash' \in [Url -> Absent .. DupWindow]
    BY DEF ProcessGone, Absent
  <1>3. /\ pc' \in [Thread -> Label]
        /\ th' \in [Thread -> LocalRecord]
    BY NoLocalsType DEF ProcessGone, Label
  <1> QED BY <1>1, <1>2, <1>3 DEF ProcessGone, TypeOK

\* What the server closing a socket makes of the sockets.
LEMMA ClosedType ==
  ASSUME TypeOK, NEW c
  PROVE  ClosedByServer(c) \in [Conn -> ConnRecord]
  <1>0. CASE c \notin Conn
    BY <1>0 DEF ClosedByServer, TypeOK
  <1> SUFFICES ASSUME c \in Conn PROVE ClosedByServer(c) \in [Conn -> ConnRecord]
    BY <1>0
  <1>1. [conn[c] EXCEPT !.srv = "closed"] \in ConnRecord
    BY DEF TypeOK, ConnRecord
  <1>2. Settle([conn[c] EXCEPT !.srv = "closed"]) \in ConnRecord
    BY <1>1, SettleType
  <1> QED BY <1>2 DEF ClosedByServer, TypeOK

\* Live is finite, so its size is a number.
LEMMA LiveFinite == IsFiniteSet(Live) /\ Cardinality(Live) \in Nat
  BY FiniteThreads, FS_Subset, FS_CardinalityType DEF Live

\* A thread that moves on and does not return stays live.
LEMMA LiveKept ==
  ASSUME TypeOK, NEW t \in Thread, pc[t] # "idle", NEW l, l # "idle", Goto(t, l)
  PROVE  Live' = Live
  BY DEF TypeOK, Goto, Live

-----------------------------------------------------------------------------
(* Types and the connection count.                                         *)

\* Neither is inductive alone: the count stays at zero or above because it
\* includes the live threads.
CountInv == TypeOK /\ CountExact

LEMMA InitCount == Init => CountInv
  <1> SUFFICES ASSUME Init PROVE CountInv
    OBVIOUS
  <1>1. TypeOK
    <2>1. Unused \in ConnRecord
      BY DEF Unused, ConnRecord
    <2> QED BY <2>1, NoLocalsType DEF Init, TypeOK, Absent, Label
  <1>2. Live = {}
    BY DEF Init, Live
  <1>3. CountExact
    BY <1>2, FS_EmptySet DEF Init, CountExact, Starting
  <1> QED BY <1>1, <1>3 DEF CountInv

\* A client or the clock.
LEMMA OutsideCount ==
  ASSUME CountInv, (\E c \in Conn : Client(c)) \/ Tick
  PROVE  CountInv'
  <1> USE DEF CountInv
  <1>1. ASSUME NEW c \in Conn, Connect(c) PROVE TypeOK'
    <2>0. conn[c] \in ConnRecord
      BY DEF TypeOK
    <2>1. [conn[c] EXCEPT !.cli = TRUE, !.srv = "queued"] \in ConnRecord
      BY <2>0 DEF ConnRecord
    <2>2. conn' = [conn EXCEPT ![c] = [conn[c] EXCEPT !.cli = TRUE, !.srv = "queued"]]
      BY <1>1 DEF Connect, TypeOK
    <2> QED BY <1>1, <2>1, <2>2 DEF Connect, TypeOK, mainVars
  <1>2. ASSUME NEW c \in Conn, NEW r \in Request \cup {BadReq}, Send(c, r)
        PROVE  TypeOK'
    BY <1>2 DEF Send, TypeOK, ConnRecord, mainVars
  <1>3. ASSUME NEW c \in Conn, Hangup(c) PROVE TypeOK'
    <2>0. conn[c] \in ConnRecord
      BY DEF TypeOK
    <2>1. [conn[c] EXCEPT !.cli = FALSE] \in ConnRecord
      BY <2>0 DEF ConnRecord
    <2>2. Settle([conn[c] EXCEPT !.cli = FALSE]) \in ConnRecord
      BY <2>1, SettleType
    <2> QED BY <1>3, <2>2 DEF Hangup, TypeOK, mainVars
  <1>4. ASSUME Tick PROVE TypeOK'
    <2>1. \A a \in Absent .. DupWindow : Older(a) \in Absent .. DupWindow
      BY DEF Older, Absent, Expired
    <2> QED BY <1>4, <2>1 DEF Tick, TypeOK
  <1>5. TypeOK'
    BY <1>1, <1>2, <1>3, <1>4 DEF Client
  <1>6. UNCHANGED <<main, count, unstarted, pc>>
    BY DEF Client, Connect, Send, Hangup, Tick, mainVars
  <1>7. CountExact'
    BY <1>6 DEF CountExact, Starting, Live
  <1> QED BY <1>5, <1>7

\* The main thread.
LEMMA ListenerCount == ASSUME CountInv, Listener \/ Crash PROVE CountInv'
  <1> USE DEF CountInv
  <1> USE LiveFinite
  <1>1. CASE Activate
    BY <1>1 DEF Activate, EnterSelect, TypeOK, CountExact, Starting, Live
  <1>2. CASE \E c \in Conn : Accept(c)
    BY <1>2 DEF Accept, TypeOK, ConnRecord, CountExact, Starting, Live
  <1>3. CASE AcceptFails
    BY <1>3 DEF AcceptFails, TypeOK, CountExact, Starting, Live
  <1>4. CASE Refuse
    BY <1>4, ClosedType DEF Refuse, EnterSelect, TypeOK, CountExact, Starting, Live
  <1>5. CASE Admit
    BY <1>5 DEF Admit, Full, TypeOK, CountExact, Starting, Live
  <1>6. ASSUME NEW t \in Thread, Spawn(t) PROVE CountInv'
    <2>0. sock \in Conn \cup {NoConn}
      BY DEF TypeOK
    <2>1a. [NoLocals EXCEPT !.fd = sock] \in LocalRecord
      BY <2>0, NoLocalsType DEF LocalRecord
    <2>1. TypeOK'
      BY <1>6, <2>1a DEF Spawn, EnterSelect, TypeOK, Label
    <2>2. Live' = Live \cup {t}
      BY <1>6 DEF Spawn, TypeOK, Live
    <2>3. Cardinality(Live') = Cardinality(Live) + 1
      BY <1>6, <2>2, FS_AddElement DEF Spawn, Live
    <2> QED BY <1>6, <2>1, <2>3 DEF Spawn, EnterSelect, TypeOK, CountExact, Starting
  <1>7. CASE SpawnFails
    BY <1>7 DEF SpawnFails, EnterSelect, TypeOK, CountExact, Starting, Live
  <1>8. CASE SelectTimeout
    BY <1>8 DEF SelectTimeout, TypeOK, CountExact, Starting, Live
  <1>9. CASE FreeHash
    BY <1>9 DEF FreeHash, TypeOK, Absent, CountExact, Starting, Live
  <1>10. ASSUME ProcessGone PROVE CountInv'
    <2>1. Live' = {}
      BY <1>10 DEF ProcessGone, Live
    <2> QED BY <1>10, <2>1, GoneType, FS_EmptySet DEF ProcessGone, CountExact, Starting
  <1> QED BY <1>1, <1>2, <1>3, <1>4, <1>5, <1>6, <1>7, <1>8, <1>9, <1>10
          DEF Listener, Exit, Crash

\* A server thread.
LEMMA ThreadType ==
  ASSUME TypeOK, count > 0, NEW t \in Thread, ServerThread(t) PROVE TypeOK'
  <1> USE DEF Goto, mainVars, Label, TypeOK
  <1>1. CASE SkipSocket(t)
    BY <1>1 DEF SkipSocket
  <1>2. CASE DropRequest(t)
    BY <1>2 DEF DropRequest
  <1>3. CASE ReadRequest(t)
    <2>1. conn[th[t].fd].req \in Request /\ th[t].fd \in Conn
      BY <1>3 DEF ReadRequest, LocalRecord
    <2>2. <<urlcounter, conn[th[t].fd].req.file>> \in Url
      BY <2>1 DEF Request, Url
    <2>3. conn[th[t].fd].req.stamped \in BOOLEAN
      BY <2>1 DEF Request
    <2> DEFINE k == [th[t] EXCEPT !.url = <<urlcounter, conn[th[t].fd].req.file>>,
                                  !.stamped = conn[th[t].fd].req.stamped]
    <2>4. th[t] \in LocalRecord
      OBVIOUS
    <2>5. k \in LocalRecord
      BY <2>2, <2>3, <2>4 DEF LocalRecord
    <2>6. th' = [th EXCEPT ![t] = k]
      BY <1>3 DEF ReadRequest
    <2> HIDE DEF k
    <2>7. th' \in [Thread -> LocalRecord]
      BY <2>5, <2>6
    <2> QED BY <1>3, <2>7 DEF ReadRequest
  <1>4. CASE EnterDedupe(t)
    BY <1>4 DEF EnterDedupe, Verdicts, Verdict, LocalRecord
  <1>5. CASE LeaveDedupe(t)
    <2>1. th' \in [Thread -> LocalRecord]
      BY <1>5 DEF LeaveDedupe, LocalRecord
    <2>2. hash' \in [Url -> Absent .. DupWindow]
      <3>1. 0 \in Absent .. DupWindow
        BY DEF Absent
      <3>2. hash' = hash \/ hash' = [hash EXCEPT ![th[t].url] = 0]
        BY <1>5 DEF LeaveDedupe, TableAfter
      <3> QED BY <3>1, <3>2
    <2> QED BY <1>5, <2>1, <2>2 DEF LeaveDedupe
  <1>6. CASE OpenTransfer(t)
    BY <1>6 DEF OpenTransfer, LocalRecord, Bodies
  <1>7. CASE OpenFails(t)
    BY <1>7 DEF OpenFails
  <1>8. CASE Transfer(t)
    BY <1>8 DEF Transfer, KeptBody, AfterStatus, HttpStatus, LocalRecord, Bodies
  <1>9. CASE RotateLoad(t)
    BY <1>9 DEF RotateLoad, LocalRecord
  <1>10. CASE RotateStore(t)
    BY <1>10 DEF RotateStore, LocalRecord
  <1>11. CASE StartExtract(t)
    BY <1>11 DEF StartExtract
  <1>12. CASE RejectArchive(t)
    BY <1>12 DEF RejectArchive
  <1>13. CASE EndExtract(t)
    BY <1>13 DEF EndExtract
  <1>14. CASE Cleanup(t)
    <2>1. th' \in [Thread -> LocalRecord]
      BY <1>14 DEF Cleanup, LocalRecord
    <2> QED BY <1>14, <2>1 DEF Cleanup
  <1>15. CASE Reply(t)
    <2>1. ASSUME NEW c \in Conn PROVE [conn[c] EXCEPT !.ok = TRUE] \in ConnRecord
      <3>1. conn[c] \in ConnRecord
        OBVIOUS
      <3> QED BY <3>1 DEF ConnRecord
    <2> DEFINE f == th[t].fd
               k == [conn[f] EXCEPT !.ok = TRUE]
               d == [conn EXCEPT ![f] = k]
    <2>0. f \in Conn => k \in ConnRecord
      BY <2>1
    <2> HIDE DEF f, k
    <2>1a. d \in [Conn -> ConnRecord]
      BY <2>0
    <2> USE DEF f, k
    <2>2. conn' \in [Conn -> ConnRecord]
      BY <1>15, <2>1a DEF Reply
    <2> QED BY <1>15, <2>2 DEF Reply
  <1>16. CASE CloseSocket(t)
    <2> QED BY <1>16, ClosedType, NoLocalsType DEF CloseSocket
  <1>17. CASE Finish(t)
    BY <1>17 DEF Finish, CountAfterFinish
  <1> QED BY <1>1, <1>2, <1>3, <1>4, <1>5, <1>6, <1>7, <1>8,
             <1>9, <1>10, <1>11, <1>12, <1>13, <1>14, <1>15, <1>16, <1>17
          DEF ServerThread, Fetch

LEMMA ThreadCount ==
  ASSUME CountInv, NEW t \in Thread, ServerThread(t) PROVE CountInv'
  <1> USE DEF CountInv
  <1>1. pc[t] # "idle"
    BY DEF ServerThread, Fetch, SkipSocket, DropRequest, ReadRequest, EnterDedupe,
           LeaveDedupe, OpenTransfer, OpenFails, Transfer, RotateLoad, RotateStore,
           StartExtract, RejectArchive, EndExtract, Cleanup, Reply, CloseSocket, Finish
  <1>2. count > 0
    <2>1. t \in Live
      BY <1>1 DEF Live
    <2>2. Cardinality(Live) # 0
      BY <2>1, LiveFinite, FS_EmptySet
    <2> QED BY <2>2, LiveFinite DEF CountExact, Starting, TypeOK
  <1>3. TypeOK'
    BY <1>2, ThreadType
  <1>4. CASE Finish(t)
    <2>1. Live' = Live \ {t}
      BY <1>4 DEF Finish, Goto, TypeOK, Live
    <2>2. Cardinality(Live') = Cardinality(Live) - 1
      <3>1. t \in Live
        BY <1>1 DEF Live
      <3> QED BY <2>1, <3>1, LiveFinite, FS_RemoveElement
    <2>3. CountExact'
      BY <1>4, <2>2, LiveFinite DEF Finish, CountAfterFinish, CountExact, Starting, TypeOK
    <2> QED BY <1>3, <2>3
  <1>5. CASE ~Finish(t)
    <2>1. /\ UNCHANGED <<main, count, unstarted>>
          /\ \E l \in Label \ {"idle"} : Goto(t, l)
      BY <1>5 DEF ServerThread, Fetch, SkipSocket, DropRequest, ReadRequest, EnterDedupe,
           LeaveDedupe, OpenTransfer, OpenFails, Transfer, AfterStatus, RotateLoad, RotateStore,
           StartExtract, RejectArchive, EndExtract, Cleanup, Reply, CloseSocket,
           mainVars, Label
    <2>2. Live' = Live
      BY <1>1, <2>1, LiveKept
    <2>3. CountExact'
      BY <2>1, <2>2 DEF CountExact, Starting
    <2> QED BY <1>3, <2>3
  <1> QED BY <1>4, <1>5

LEMMA NextCount == CountInv /\ [Next]_vars => CountInv'
  <1> SUFFICES ASSUME CountInv, [Next]_vars PROVE CountInv'
    OBVIOUS
  <1>1. CASE UNCHANGED vars
    BY <1>1 DEF vars, CountInv, TypeOK, CountExact, Starting, Live
  <1>2. CASE Next
    BY <1>2, OutsideCount, ListenerCount, ThreadCount DEF Next
  <1> QED BY <1>1, <1>2

THEOREM CountInvariant == Spec => []CountInv
  BY InitCount, NextCount, PTL DEF Spec

\* Every variable keeps its type.
THEOREM TypeCorrect == Spec => []TypeOK
  <1>1. CountInv => TypeOK
    BY DEF CountInv
  <1> QED BY <1>1, CountInvariant, PTL

\* The count is exact: every path through a connection takes itself off it once.
THEOREM CountHolds == Spec => []CountExact
  <1>1. CountInv => CountExact
    BY DEF CountInv
  <1> QED BY <1>1, CountInvariant, PTL

\* The number of server threads never exceeds MAX_CONNECTIONS, in whatever
\* order the listener tests and counts and threads finish, also when
\* pthread_create or accept fails.
THEOREM LimitHolds == Spec => []ConnectionLimit
  <1>1. CountInv => ConnectionLimit
    BY LiveFinite DEF CountInv, CountExact, Starting, ConnectionLimit, TypeOK
  <1> QED BY <1>1, CountInvariant, PTL

-----------------------------------------------------------------------------
(* What is extracted.                                                      *)

\* The file on its way from the transfer to tar -x.
Bodied ==
  \A t \in Thread :
    /\ pc[t] = "inspect" => th[t].tmp # "torn"
    /\ pc[t] = "extract" => th[t].tmp \in {"short", "whole"}

\* A thread that is not about to inspect or to extract has nothing to keep.
LEMMA BodiedKept ==
  ASSUME Bodied, NEW t \in Thread,
         \A s \in Thread : s # t => pc'[s] = pc[s] /\ th'[s] = th[s],
         pc'[t] \notin {"inspect", "extract"}
  PROVE  Bodied'
  BY DEF Bodied

\* Only the thread that moves changes its place and its locals.
LEMMA OthersStay ==
  ASSUME TypeOK, NEW t \in Thread, ServerThread(t)
  PROVE  \A s \in Thread : s # t => pc'[s] = pc[s] /\ th'[s] = th[s]
  BY DEF ServerThread, Fetch, SkipSocket, DropRequest, ReadRequest, EnterDedupe,
         LeaveDedupe, OpenTransfer, OpenFails, Transfer, RotateLoad, RotateStore,
         StartExtract, RejectArchive, EndExtract, Cleanup, Reply, CloseSocket,
         Finish, Goto, mainVars, TypeOK

LEMMA ThreadBodied ==
  ASSUME TypeOK, Bodied, NEW t \in Thread, ServerThread(t) PROVE Bodied'
  <1>1. \A s \in Thread : s # t => pc'[s] = pc[s] /\ th'[s] = th[s]
    BY OthersStay
  <1>2. CASE Transfer(t)
    <2>1. th'[t].tmp # "torn"
      BY <1>2 DEF Transfer, KeptBody, TypeOK, LocalRecord
    <2>2. pc'[t] # "extract"
      BY <1>2 DEF Transfer, AfterStatus, HttpStatus, Goto, TypeOK
    <2> QED BY <1>1, <2>1, <2>2 DEF Bodied
  <1>3. CASE StartExtract(t)
    <2>1. th'[t] = th[t] /\ pc[t] = "inspect" /\ th[t].tmp \in {"torn", "short", "whole"}
      BY <1>3 DEF StartExtract, PassesTest
    <2> QED BY <1>1, <2>1 DEF Bodied
  <1>4. CASE ~Transfer(t) /\ ~StartExtract(t)
    <2>1. pc'[t] \notin {"inspect", "extract"}
      BY <1>4 DEF ServerThread, Fetch, SkipSocket, DropRequest, ReadRequest,
             EnterDedupe, LeaveDedupe, OpenTransfer, OpenFails, RotateLoad,
             RotateStore, RejectArchive, EndExtract, Cleanup, Reply, CloseSocket,
             Finish, Goto, TypeOK
    <2> QED BY <1>1, <2>1, BodiedKept
  <1> QED BY <1>2, <1>3, <1>4

LEMMA NextBodied == TypeOK /\ Bodied /\ [Next]_vars => Bodied'
  <1> SUFFICES ASSUME TypeOK, Bodied, [Next]_vars PROVE Bodied'
    OBVIOUS
  <1>1. CASE UNCHANGED <<pc, th>>
    BY <1>1 DEF Bodied
  <1>2. ASSUME NEW t \in Thread, Spawn(t) PROVE Bodied'
    <2>1. /\ pc'[t] = "read"
          /\ \A s \in Thread : s # t => pc'[s] = pc[s] /\ th'[s] = th[s]
      BY <1>2 DEF Spawn, TypeOK
    <2> QED BY <2>1, BodiedKept
  <1>3. CASE ProcessGone
    BY <1>3 DEF ProcessGone, Bodied
  <1>4. ASSUME NEW t \in Thread, ServerThread(t) PROVE Bodied'
    BY <1>4, ThreadBodied
  <1> QED BY <1>1, <1>2, <1>3, <1>4
          DEF Next, vars, Listener, Crash, Exit, Client, Connect, Send, Hangup, Tick,
              Activate, AcceptFails, Refuse, Admit, SpawnFails, SelectTimeout,
              FreeHash, Accept, mainVars

\* What a thread extracts is a whole archive, or one that lost its end on a full
\* disk: a transfer that broke off is unlinked, and what is left is not taken.
THEOREM WholeHolds == Spec => []OnlyWholeExtracted
  <1>1. Init => Bodied
    BY DEF Init, Bodied
  <1>2. Bodied => OnlyWholeExtracted
    BY DEF Bodied, OnlyWholeExtracted
  <1> QED BY <1>1, <1>2, NextBodied, TypeCorrect, PTL DEF Spec

-----------------------------------------------------------------------------
(* Who holds a socket.                                                     *)

\* Where a thread has a descriptor, and where main has.
Places ==
  /\ \A t \in Thread : /\ pc[t] \in {"idle", "dec"} => th[t].fd = NoConn
                       /\ pc[t] \notin {"idle", "dec", "read"} => th[t].fd # NoConn
  /\ sock # NoConn => main \in {"check", "spawn"}

\* No two of them have the same, and each is open.
Apart ==
  /\ \A s, t \in Thread : s # t /\ th[s].fd = th[t].fd => th[t].fd = NoConn
  /\ \A t \in Thread : th[t].fd # NoConn => /\ th[t].fd # sock
                                           /\ conn[th[t].fd].srv = "open"
  /\ sock # NoConn => conn[sock].srv = "open"

\* Open, and nobody's.
Adrift == {c \in Conn : conn[c].srv = "open" /\ Owners(c) = {}}

Drifting == IsFiniteSet(Adrift) /\ Cardinality(Adrift) <= unstarted

OwnInv == Places /\ Apart /\ Drifting

LEMMA NoOwner ==
  ASSUME NEW c
  PROVE  Owners(c) = {} <=> sock # c /\ \A t \in Thread : th[t].fd # c
  BY DEF Owners

LEMMA NoOwnerNext ==
  ASSUME NEW c
  PROVE  Owners(c)' = {} <=> sock' # c /\ \A t \in Thread : th'[t].fd # c
  BY DEF Owners

\* A step after which nothing more is adrift, and no start failed.
LEMMA DriftKept ==
  ASSUME TypeOK, Drifting, Adrift' \subseteq Adrift, unstarted' = unstarted
  PROVE  Drifting'
  <1>1. IsFiniteSet(Adrift') /\ Cardinality(Adrift') <= Cardinality(Adrift)
    BY FS_Subset DEF Drifting
  <1>2. Cardinality(Adrift) \in Nat /\ Cardinality(Adrift') \in Nat /\ unstarted \in Nat
    BY <1>1, FS_CardinalityType DEF Drifting, TypeOK
  <1> QED BY <1>1, <1>2 DEF Drifting

\* A step that hands no socket over, opens none and closes none.
LEMMA SocketsStay ==
  ASSUME TypeOK, OwnInv, Places',
         UNCHANGED <<sock, unstarted>>,
         \A t \in Thread : th'[t].fd = th[t].fd,
         \A c \in Conn : conn'[c].srv = "open" <=> conn[c].srv = "open"
  PROVE  OwnInv'
  <1>1. Apart'
    BY DEF OwnInv, Apart, TypeOK, LocalRecord
  <1>2. Adrift' = Adrift
    BY NoOwner, NoOwnerNext DEF Adrift
  <1> QED BY <1>1, <1>2, DriftKept DEF OwnInv

LEMMA InitOwn == Init => OwnInv
  <1> SUFFICES ASSUME Init PROVE OwnInv
    OBVIOUS
  <1>1. Places /\ Apart
    BY DEF Init, Places, Apart, NoLocals
  <1>2. Adrift = {}
    BY DEF Init, Adrift, Unused
  <1>3. Drifting
    BY <1>2, FS_EmptySet DEF Drifting, Init
  <1> QED BY <1>1, <1>3 DEF OwnInv

\* Clients and the clock.
LEMMA OutsideOwn ==
  ASSUME TypeOK, OwnInv, (\E c \in Conn : Client(c)) \/ Tick PROVE OwnInv'
  <1>1. UNCHANGED <<main, sock, unstarted, pc, th>>
    BY DEF Client, Connect, Send, Hangup, Tick, mainVars
  <1>2. Places'
    BY <1>1 DEF OwnInv, Places
  <1>3. ASSUME NEW c \in Conn, Client(c), NEW d \in Conn
        PROVE  conn'[d].srv = "open" <=> conn[d].srv = "open"
    <2>1. conn[c] \in ConnRecord /\ conn[d] \in ConnRecord
      BY DEF TypeOK
    <2>2. CASE Connect(c)
      <3>1. conn' = [conn EXCEPT ![c] = [conn[c] EXCEPT !.cli = TRUE, !.srv = "queued"]]
        BY <2>2 DEF Connect, TypeOK
      <3>2. conn[c].srv = "none" /\ [conn[c] EXCEPT !.cli = TRUE, !.srv = "queued"].srv = "queued"
        BY <2>1, <2>2 DEF Connect, Unused, ConnRecord
      <3> QED BY <3>1, <3>2 DEF TypeOK
    <2>3. CASE Hangup(c)
      <3>1. Settle([conn[c] EXCEPT !.cli = FALSE]).srv = "open" <=> conn[c].srv = "open"
        BY <2>1 DEF Settle, Unused, ConnRecord
      <3> QED BY <2>3, <3>1 DEF Hangup, TypeOK
    <2>4. ASSUME NEW r, Send(c, r) PROVE conn'[d].srv = "open" <=> conn[d].srv = "open"
      BY <2>1, <2>4 DEF Send, TypeOK, ConnRecord
    <2> QED BY <1>3, <2>2, <2>3, <2>4 DEF Client
  <1>4. CASE Tick
    BY <1>1, <1>2, <1>4, SocketsStay DEF Tick
  <1>5. ASSUME NEW c \in Conn, Client(c) PROVE OwnInv'
    BY <1>1, <1>2, <1>3, <1>5, SocketsStay
  <1> QED BY <1>4, <1>5

\* What becomes of the sockets when the process closes c, or ends.
LEMMA ClosedSrv ==
  ASSUME TypeOK, NEW c \in Conn
  PROVE  \A d \in Conn : ClosedByServer(c)[d].srv = "open" <=> d # c /\ conn[d].srv = "open"
  <1>1. conn[c] \in ConnRecord
    BY DEF TypeOK
  <1>2. Settle([conn[c] EXCEPT !.srv = "closed"]).srv # "open"
    BY <1>1 DEF Settle, Unused, ConnRecord
  <1> QED BY <1>2 DEF ClosedByServer, TypeOK

LEMMA GoneOwn == ASSUME TypeOK, ProcessGone PROVE OwnInv'
  <1>1. ASSUME NEW c \in Conn PROVE conn'[c].srv # "open"
    <2>1. conn[c] \in ConnRecord
      BY DEF TypeOK
    <2>2. Settle([conn[c] EXCEPT !.srv = "closed"]).srv # "open"
      BY <2>1 DEF Settle, Unused, ConnRecord
    <2> QED BY <2>2 DEF ProcessGone
  <1>2. Places' /\ Apart'
    BY DEF ProcessGone, Places, Apart, NoLocals
  <1>3. Adrift' = {}
    BY <1>1 DEF Adrift
  <1> QED BY <1>2, <1>3, FS_EmptySet DEF OwnInv, Drifting, ProcessGone

\* The listener accepts, hands over, closes or forgets a socket.
LEMMA ListenerOwn ==
  ASSUME TypeOK, OwnInv, Listener \/ Crash PROVE OwnInv'
  <1> USE DEF OwnInv
  <1>1. ASSUME NEW c \in Conn, Accept(c) PROVE OwnInv'
    <2>1. /\ sock = NoConn /\ sock' = c /\ main' = "check"
          /\ conn[c].srv = "queued" /\ conn'[c].srv = "open"
          /\ \A d \in Conn : d # c => conn'[d] = conn[d]
          /\ UNCHANGED <<unstarted, pc, th>>
      BY <1>1 DEF Accept, Places, TypeOK, ConnRecord
    <2>2. Places'
      BY <2>1 DEF Places
    <2>3. Apart'
      BY <2>1 DEF Apart, TypeOK, LocalRecord
    <2>4. Adrift' \subseteq Adrift
      BY <2>1, NoOwner, NoOwnerNext DEF Adrift
    <2> QED BY <2>1, <2>2, <2>3, <2>4, DriftKept
  <1>2. CASE Refuse
    <2>1. /\ sock' = NoConn /\ main' = "select"
          /\ UNCHANGED <<unstarted, pc, th>>
      BY <1>2 DEF Refuse, EnterSelect
    <2>2. Places'
      BY <2>1 DEF Places
    <2>3. \A d \in Conn : conn'[d].srv = "open" <=> d # sock /\ conn[d].srv = "open"
      <3>1. CASE sock = NoConn
        BY <1>2, <3>1 DEF Refuse
      <3>2. CASE sock # NoConn
        BY <1>2, <3>2, ClosedSrv DEF Refuse, TypeOK
      <3> QED BY <3>1, <3>2
    <2>4. Apart'
      BY <2>1, <2>3 DEF Apart, TypeOK, LocalRecord
    <2>5. Adrift' \subseteq Adrift
      BY <2>1, <2>3, NoOwner, NoOwnerNext DEF Adrift
    <2> QED BY <2>1, <2>2, <2>4, <2>5, DriftKept
  <1>3. ASSUME NEW t \in Thread, Spawn(t) PROVE OwnInv'
    <2>1. /\ sock' = NoConn /\ main' = "select" /\ pc[t] = "idle" /\ pc'[t] = "read"
          /\ th'[t].fd = sock
          /\ \A s \in Thread : s # t => pc'[s] = pc[s] /\ th'[s] = th[s]
          /\ UNCHANGED <<unstarted, conn>>
      BY <1>3 DEF Spawn, EnterSelect, TypeOK, NoLocals
    <2>2. Places'
      BY <2>1 DEF Places
    <2>3. Apart'
      BY <2>1 DEF Apart, TypeOK, LocalRecord
    <2>4. Adrift' \subseteq Adrift
      BY <2>1, NoOwner, NoOwnerNext DEF Adrift, Places
    <2> QED BY <2>1, <2>2, <2>3, <2>4, DriftKept
  <1>4. CASE SpawnFails
    <2>1. /\ sock' = NoConn /\ main' = "select" /\ unstarted' = unstarted + 1
          /\ UNCHANGED <<conn, pc, th>>
      BY <1>4 DEF SpawnFails, EnterSelect
    <2>2. Places' /\ Apart'
      BY <2>1 DEF Places, Apart
    <2>3. Adrift' \subseteq Adrift \cup {sock}
      BY <2>1, NoOwner, NoOwnerNext DEF Adrift
    <2>4. /\ IsFiniteSet(Adrift \cup {sock})
          /\ Cardinality(Adrift \cup {sock}) <= Cardinality(Adrift) + 1
      <3>1. IsFiniteSet(Adrift) /\ Cardinality(Adrift) \in Nat
        BY FS_CardinalityType DEF Drifting
      <3>2. /\ IsFiniteSet(Adrift \cup {sock})
            /\ Cardinality(Adrift \cup {sock})
                 = IF sock \in Adrift THEN Cardinality(Adrift) ELSE Cardinality(Adrift) + 1
        BY <3>1, FS_AddElement
      <3> QED BY <3>1, <3>2
    <2>5. /\ IsFiniteSet(Adrift')
          /\ Cardinality(Adrift') <= Cardinality(Adrift \cup {sock})
      BY <2>3, <2>4, FS_Subset
    <2>6. /\ Cardinality(Adrift) \in Nat /\ Cardinality(Adrift') \in Nat
          /\ Cardinality(Adrift \cup {sock}) \in Nat /\ unstarted \in Nat
      BY <2>4, <2>5, FS_CardinalityType DEF Drifting, TypeOK
    <2>7. Drifting'
      BY <2>1, <2>4, <2>5, <2>6 DEF Drifting
    <2> QED BY <2>2, <2>7
  <1>5. CASE Activate \/ AcceptFails
    <2>1. UNCHANGED <<sock, unstarted, conn, pc, th>> /\ main' # main /\ sock = NoConn
      BY <1>5 DEF Activate, AcceptFails, EnterSelect, Places
    <2>2. Places'
      BY <2>1 DEF Places
    <2> QED BY <2>1, <2>2, SocketsStay
  <1>6. CASE Admit \/ SelectTimeout \/ FreeHash
    <2>1. UNCHANGED <<sock, unstarted, conn, pc, th>>
          /\ (main \in {"check", "spawn"} => main' \in {"check", "spawn"})
      BY <1>6 DEF Admit, SelectTimeout, FreeHash
    <2>2. Places'
      BY <2>1 DEF Places
    <2> QED BY <2>1, <2>2, SocketsStay
  <1>7. CASE ProcessGone
    BY <1>7, GoneOwn
  <1> QED BY <1>1, <1>2, <1>3, <1>4, <1>5, <1>6, <1>7 DEF Listener, Exit, Crash

\* Every path of server_thread that has a descriptor comes to CloseSocket.
LEMMA ThreadOwn ==
  ASSUME TypeOK, OwnInv, NEW t \in Thread, ServerThread(t) PROVE OwnInv'
  <1> USE DEF OwnInv
  <1>1. /\ UNCHANGED <<main, sock, unstarted>>
        /\ \A s \in Thread : s # t => pc'[s] = pc[s] /\ th'[s] = th[s]
    <2>1. UNCHANGED <<main, sock, unstarted>>
      BY DEF ServerThread, Fetch, SkipSocket, DropRequest, ReadRequest, EnterDedupe,
             LeaveDedupe, OpenTransfer, OpenFails, Transfer, RotateLoad, RotateStore,
             StartExtract, RejectArchive, EndExtract, Cleanup, Reply, CloseSocket,
             Finish, mainVars
    <2> QED BY <2>1, OthersStay
  <1>2. CASE CloseSocket(t)
    <2>1. /\ pc[t] = "close" /\ pc'[t] = "dec" /\ th'[t].fd = NoConn
          /\ th[t].fd \in Conn
      BY <1>2 DEF CloseSocket, Goto, TypeOK, NoLocals, Places, LocalRecord
    <2>2. \A d \in Conn : conn'[d].srv = "open" <=> d # th[t].fd /\ conn[d].srv = "open"
      BY <1>2, <2>1, ClosedSrv DEF CloseSocket
    <2>3. Places'
      BY <1>1, <2>1 DEF Places
    <2>4. Apart'
      BY <1>1, <2>1, <2>2 DEF Apart, TypeOK, LocalRecord
    <2>5. Adrift' \subseteq Adrift
      BY <1>1, <2>1, <2>2, NoOwner, NoOwnerNext DEF Adrift
    <2> QED BY <1>1, <2>3, <2>4, <2>5, DriftKept
  <1>3. CASE ~CloseSocket(t)
    <2>1. th'[t].fd = th[t].fd
      <3>1. CASE ReadRequest(t)
        BY <3>1 DEF ReadRequest, TypeOK, LocalRecord
      <3>2. CASE EnterDedupe(t) \/ LeaveDedupe(t)
        BY <3>2 DEF EnterDedupe, LeaveDedupe, TypeOK, LocalRecord
      <3>3. CASE Fetch(t)
        BY <3>3 DEF Fetch, OpenTransfer, OpenFails, Transfer, RotateLoad, RotateStore,
             StartExtract, RejectArchive, EndExtract, Cleanup, TypeOK, LocalRecord
      <3>4. CASE SkipSocket(t) \/ DropRequest(t) \/ Reply(t) \/ Finish(t)
        BY <3>4 DEF SkipSocket, DropRequest, Reply, Finish
      <3> QED BY <1>3, <3>1, <3>2, <3>3, <3>4 DEF ServerThread
    <2>2. \A c \in Conn : conn'[c].srv = "open" <=> conn[c].srv = "open"
      <3>1. CASE Reply(t)
        BY <3>1 DEF Reply, TypeOK, ConnRecord
      <3>2. CASE ~Reply(t)
        BY <1>3, <3>2 DEF ServerThread, Fetch, SkipSocket, DropRequest, ReadRequest,
             EnterDedupe, LeaveDedupe, OpenTransfer, OpenFails, Transfer, RotateLoad,
             RotateStore, StartExtract, RejectArchive, EndExtract, Cleanup, Finish
      <3> QED BY <3>1, <3>2
    <2>3. /\ pc'[t] \in {"idle", "dec"} => th[t].fd = NoConn
          /\ pc'[t] \notin {"idle", "dec", "read"} => th[t].fd # NoConn
      BY <1>3 DEF ServerThread, Fetch, SkipSocket, DropRequest, ReadRequest,
             EnterDedupe, LeaveDedupe, OpenTransfer, OpenFails, Transfer, AfterStatus,
             HttpStatus, RotateLoad, RotateStore, StartExtract, RejectArchive,
             EndExtract, Cleanup, Reply, Finish, Goto, TypeOK, Places
    <2>4. Places'
      BY <1>1, <2>1, <2>3 DEF Places
    <2>5. \A s \in Thread : th'[s].fd = th[s].fd
      BY <1>1, <2>1
    <2> QED BY <1>1, <2>2, <2>4, <2>5, SocketsStay
  <1> QED BY <1>2, <1>3

LEMMA NextOwn == TypeOK /\ OwnInv /\ [Next]_vars => OwnInv'
  <1> SUFFICES ASSUME TypeOK, OwnInv, [Next]_vars PROVE OwnInv'
    OBVIOUS
  <1>1. CASE UNCHANGED vars
    <2>1. Places'
      BY <1>1 DEF vars, OwnInv, Places
    <2> QED BY <1>1, <2>1, SocketsStay DEF vars
  <1>2. CASE Next
    BY <1>2, OutsideOwn, ListenerOwn, ThreadOwn DEF Next
  <1> QED BY <1>1, <1>2

\* The inductive invariant: where descriptors are, that no two are the same, and
\* that at most the failed starts have left one behind.
THEOREM OwnInvariant == Spec => []OwnInv
  BY InitOwn, NextOwn, TypeCorrect, PTL DEF Spec

\* An open socket of the process has one owner, or is one of those whose thread
\* could not be started; who has one has it open, so that none is closed twice.
THEOREM OwnerHolds == Spec => []SoleOwner
  <1>1. ASSUME TypeOK, OwnInv PROVE SoleOwner
    <2> USE <1>1 DEF OwnInv
    <2>1. ASSUME NEW c \in Conn PROVE Cardinality(Owners(c)) <= 1
      <3>1. CASE Owners(c) = {}
        BY <3>1, FS_EmptySet
      <3>2. CASE sock = c
        <4>1. Owners(c) = {NoThread}
          BY <3>2 DEF Owners, Apart
        <4>2. Cardinality({NoThread}) = 1
          BY FS_Singleton
        <4> QED BY <4>1, <4>2
      <3>3. ASSUME NEW t \in Thread, th[t].fd = c, sock # c
            PROVE  Cardinality(Owners(c)) <= 1
        <4>1. Owners(c) = {t}
          BY <3>3 DEF Owners, Apart
        <4>2. Cardinality({t}) = 1
          BY FS_Singleton
        <4> QED BY <4>1, <4>2
      <3> QED BY <3>1, <3>2, <3>3, NoOwner
    <2>2. ASSUME NEW c \in Conn, Owners(c) # {} PROVE conn[c].srv = "open"
      BY <2>2, NoOwner DEF Apart
    <2>3. Cardinality({c \in Conn : conn[c].srv = "open" /\ Owners(c) = {}}) <= unstarted
      BY DEF Drifting, Adrift
    <2> QED BY <2>1, <2>2, <2>3 DEF SoleOwner
  <1> QED BY <1>1, OwnInvariant, TypeCorrect, PTL
=============================================================================
