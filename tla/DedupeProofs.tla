---------------------------- MODULE DedupeProofs ----------------------------
(***************************************************************************)
(* The duplicate check of the daemon (avoid_dupes): no URL is fetched by   *)
(* two threads within the window, and lookup and insertion under the lock  *)
(* amount to one step of the ledger.                                       *)
(***************************************************************************)
EXTENDS DaemonProofs

USE SizesAssumption, SentinelsAssumption

\* The inductive invariant, with the types it needs.
IInv == TypeOK /\ DedupeInv

-----------------------------------------------------------------------------
(* Steps that do not touch the table, the lock or a verdict.               *)

\* The main thread and clients at work.
LEMMA QuietStep ==
  ASSUME DedupeInv, UNCHANGED <<hash, mutex, pc, th>>,
         main' # "freed" => main # "freed"
  PROVE  DedupeInv'
  BY DEF DedupeInv, UrlKnown, LockHeld, VerdictStands, Verdict, Fresh,
         FetchRecorded, Fetching, OneFetchPerWindow

\* A thread outside avoid_dupes moves on; if it fetches after the step it did
\* before, and the same URL.
LEMMA OtherStep ==
  ASSUME TypeOK, DedupeInv, NEW t \in Thread, NEW l,
         Goto(t, l), l \notin {"lock", "unlock"}, pc[t] # "unlock",
         UNCHANGED <<main, hash, mutex>>,
         \A s \in Thread : s # t => th'[s] = th[s],
         Fetching(t)' => Fetching(t) /\ th'[t].url = th[t].url
  PROVE  DedupeInv'
  <1>1. \A s \in Thread : s # t => pc'[s] = pc[s]
    BY DEF Goto, TypeOK
  <1>2. pc'[t] = l
    BY DEF Goto, TypeOK
  <1>3. \A s \in Thread : Fetching(s)' => Fetching(s) /\ th'[s].url = th[s].url
    BY <1>1 DEF Fetching
  <1>4. UrlKnown'
    BY <1>1, <1>2, <1>3 DEF DedupeInv, UrlKnown
  <1>5. LockHeld'
    BY <1>1, <1>2 DEF DedupeInv, LockHeld
  <1>6. ASSUME main # "freed" PROVE VerdictStands' /\ FetchRecorded'
    BY <1>1, <1>2, <1>3, <1>6 DEF DedupeInv, VerdictStands, Verdict, Fresh, FetchRecorded
  <1>7. OneFetchPerWindow'
    BY <1>3 DEF DedupeInv, OneFetchPerWindow, Fresh
  <1> QED BY <1>4, <1>5, <1>6, <1>7 DEF DedupeInv

-----------------------------------------------------------------------------
LEMMA InitDedupe == Init => IInv
  <1> SUFFICES ASSUME Init PROVE IInv
    OBVIOUS
  <1>1. TypeOK
    BY InitCount DEF CountInv
  <1>2. DedupeInv
    BY DEF Init, DedupeInv, UrlKnown, LockHeld, VerdictStands, FetchRecorded,
           Fetching, OneFetchPerWindow
  <1> QED BY <1>1, <1>2 DEF IInv

\* Time passes: an entry never becomes young, and never appears or goes.
LEMMA TickDedupe == ASSUME IInv, Tick PROVE DedupeInv'
  <1> USE DEF IInv
  <1>1. UNCHANGED <<main, mutex, pc, th>>
    BY DEF Tick
  <1>2. ASSUME NEW u \in Url
        PROVE  /\ hash'[u] = Absent <=> hash[u] = Absent
               /\ hash[u] = Expired => hash'[u] = Expired
               /\ Fresh(u)' => Fresh(u)
    <2>1. hash[u] \in Absent .. DupWindow
      BY DEF TypeOK
    <2>2. hash'[u] = Older(hash[u])
      BY DEF Tick
    <2> QED BY <2>1, <2>2 DEF Older, Fresh, Absent, Expired
  <1>3. UrlKnown' /\ LockHeld'
    BY <1>1 DEF DedupeInv, UrlKnown, LockHeld, Fetching
  <1>4. ASSUME main # "freed" PROVE VerdictStands'
    <2> SUFFICES ASSUME NEW t \in Thread, pc'[t] = "unlock"
                 PROVE  (th[t].verdict \in {Verdict(th[t].url), "recent"})'
      BY DEF VerdictStands
    <2>1. th[t].url \in Url
      BY <1>1 DEF DedupeInv, UrlKnown
    <2>2. th[t].verdict \in {Verdict(th[t].url), "recent"}
      BY <1>1, <1>4 DEF DedupeInv, VerdictStands
    <2> QED BY <1>1, <1>2, <2>1, <2>2 DEF Verdict, Fresh
  <1>5. ASSUME main # "freed" PROVE FetchRecorded'
    BY <1>1, <1>2, <1>5 DEF DedupeInv, UrlKnown, FetchRecorded, Fetching
  <1>6. OneFetchPerWindow'
    BY <1>1, <1>2 DEF DedupeInv, UrlKnown, OneFetchPerWindow, Fetching
  <1> QED BY <1>1, <1>3, <1>4, <1>5, <1>6 DEF DedupeInv

\* The main thread: starting a thread, freeing the table and the end of the
\* process are the steps that matter.
LEMMA ListenerDedupe ==
  ASSUME IInv, Listener \/ Crash \/ \E c \in Conn : Client(c) PROVE DedupeInv'
  <1> USE DEF IInv
  <1>1. ASSUME NEW t \in Thread, Spawn(t) PROVE DedupeInv'
    <2>1. /\ \A s \in Thread : s # t => pc'[s] = pc[s] /\ th'[s] = th[s]
          /\ pc[t] = "idle" /\ pc'[t] = "read"
          /\ UNCHANGED <<hash, mutex>>
          /\ main # "freed" /\ main' # "freed"
      BY <1>1 DEF Spawn, EnterSelect, TypeOK
    <2>2. \A s \in Thread : Fetching(s)' => Fetching(s) /\ s # t
      BY <2>1 DEF Fetching
    <2>3. UrlKnown' /\ LockHeld'
      BY <2>1, <2>2 DEF DedupeInv, UrlKnown, LockHeld
    <2>4. VerdictStands' /\ FetchRecorded'
      BY <2>1, <2>2 DEF DedupeInv, VerdictStands, Verdict, Fresh, FetchRecorded
    <2>5. OneFetchPerWindow'
      BY <2>1, <2>2 DEF DedupeInv, OneFetchPerWindow, Fresh
    <2> QED BY <2>3, <2>4, <2>5 DEF DedupeInv
  <1>2. CASE FreeHash
    BY <1>2 DEF FreeHash, DedupeInv, UrlKnown, LockHeld, OneFetchPerWindow, Fetching
  <1>3. CASE ProcessGone
    BY <1>3 DEF ProcessGone, DedupeInv, UrlKnown, LockHeld, VerdictStands,
                FetchRecorded, Fetching, OneFetchPerWindow
  <1>4. CASE \/ Activate \/ AcceptFails \/ Refuse \/ Admit \/ SpawnFails
             \/ SelectTimeout \/ \E c \in Conn : Accept(c) \/ Client(c)
    BY <1>4, QuietStep
       DEF Activate, AcceptFails, Refuse, Admit, SpawnFails, SelectTimeout, Accept,
           EnterSelect, Client, Connect, Send, Hangup, mainVars
  <1> QED BY <1>1, <1>2, <1>3, <1>4 DEF Listener, Crash, Exit

-----------------------------------------------------------------------------
(* avoid_dupes.                                                            *)

\* The lookup: nobody else holds the lock, so LockHeld gains exactly t.
LEMMA EnterStep ==
  ASSUME IInv, NEW t \in Thread, EnterDedupe(t) PROVE DedupeInv'
  <1> USE DEF IInv
  <1>1. /\ \A s \in Thread : s # t => pc'[s] = pc[s] /\ th'[s] = th[s]
        /\ pc[t] = "lock" /\ pc'[t] = "unlock"
        /\ mutex = NoThread /\ mutex' = t
        /\ UNCHANGED <<main, hash>>
    BY DEF EnterDedupe, MutexFree, Goto, TypeOK, mainVars
  <1>2. /\ th'[t].url = th[t].url
        /\ th'[t].verdict \in Verdicts(th[t].url)
    BY DEF EnterDedupe, TypeOK, LocalRecord
  <1>3. \A s \in Thread : Fetching(s)' => Fetching(s) /\ s # t
    BY <1>1 DEF Fetching
  <1>4. UrlKnown'
    BY <1>1, <1>2, <1>3 DEF DedupeInv, UrlKnown
  <1>5. LockHeld'
    BY <1>1 DEF DedupeInv, LockHeld
  <1>6. ASSUME main # "freed" PROVE VerdictStands'
    BY <1>1, <1>2, <1>6 DEF DedupeInv, VerdictStands, Verdicts, Verdict, Fresh
  <1>7. ASSUME main # "freed" PROVE FetchRecorded'
    BY <1>1, <1>3, <1>7 DEF DedupeInv, FetchRecorded
  <1>8. OneFetchPerWindow'
    BY <1>1, <1>3 DEF DedupeInv, OneFetchPerWindow, Fresh
  <1> QED BY <1>1, <1>4, <1>5, <1>6, <1>7, <1>8 DEF DedupeInv

\* What leaving the lock does to the table while it exists: an absent URL is
\* entered, and so had no fetcher; an expired one stays expired.
LEMMA TableStep ==
  ASSUME IInv, NEW t \in Thread, LeaveDedupe(t), main # "freed"
  PROVE  /\ th[t].url \in Url
         /\ \/ /\ th[t].verdict = "absent"
               /\ hash[th[t].url] = Absent
               /\ hash' = [hash EXCEPT ![th[t].url] = 0]
            \/ /\ th[t].verdict = "expired"
               /\ hash[th[t].url] = Expired
               /\ hash' = hash
            \/ /\ th[t].verdict = "recent"
               /\ hash' = hash
  <1> USE DEF IInv
  <1>1. th[t].url \in Url
    BY DEF LeaveDedupe, DedupeInv, UrlKnown
  <1>2. hash[th[t].url] \in Absent .. DupWindow
    BY <1>1 DEF TypeOK
  <1>3. th[t].verdict \in {Verdict(th[t].url), "recent"}
    BY DEF LeaveDedupe, DedupeInv, VerdictStands
  <1>4. hash' = TableAfter(th[t].url, th[t].verdict)
    BY DEF LeaveDedupe
  <1> QED BY <1>1, <1>2, <1>3, <1>4
          DEF TableAfter, Verdict, Fresh, Absent, Expired

LEMMA LeaveStep ==
  ASSUME IInv, NEW t \in Thread, LeaveDedupe(t) PROVE DedupeInv'
  <1> USE DEF IInv
  <1>0. PICK u : u = th[t].url
    OBVIOUS
  <1>1. /\ \A s \in Thread : s # t => pc'[s] = pc[s] /\ th'[s] = th[s]
        /\ pc[t] = "unlock" /\ pc'[t] \in {"reply", "open"}
        /\ pc'[t] = "open" => th[t].verdict # "recent"
        /\ mutex' = NoThread
        /\ UNCHANGED main
        /\ th[t].url = u /\ th'[t].url = u
    BY <1>0 DEF LeaveDedupe, Goto, TypeOK, LocalRecord, mainVars
  <1>2. u \in Url
    BY <1>1 DEF DedupeInv, UrlKnown
  <1>3. \A s \in Thread : s # t => (Fetching(s)' <=> Fetching(s))
    BY <1>1 DEF Fetching
  <1>4. UrlKnown'
    BY <1>1, <1>2, <1>3 DEF DedupeInv, UrlKnown
  <1>5. LockHeld'
    BY <1>1 DEF DedupeInv, LockHeld
  <1>6. \A s \in Thread : pc'[s] # "unlock"
    BY <1>1 DEF DedupeInv, LockHeld
  <1>7. ASSUME main # "freed" PROVE FetchRecorded' /\ OneFetchPerWindow'
    <2>1. \A v \in Url : hash[v] # Absent => hash'[v] = hash[v]
      BY <1>7, TableStep DEF TypeOK
    <2>2. pc'[t] = "open" => hash'[u] # Absent
      BY <1>1, <1>2, <1>7, TableStep DEF TypeOK, Absent, Expired
    <2>3. FetchRecorded'
      BY <1>1, <1>2, <1>3, <1>7, <2>1, <2>2
         DEF DedupeInv, FetchRecorded, UrlKnown, Fetching
    <2>4. ASSUME NEW s \in Thread, s # t, Fetching(s), th[s].url = u, pc'[t] = "open"
          PROVE  ~Fresh(u)'
      <3>1. hash[u] # Absent
        BY <1>7, <2>4 DEF DedupeInv, FetchRecorded
      <3>2. hash'[u] = Expired
        BY <1>1, <1>7, <2>4, <3>1, TableStep
      <3> QED BY <3>2 DEF Fresh, Expired
    <2>5. ASSUME NEW r \in Thread, NEW s \in Thread, r # s, r # t, s # t,
                 Fetching(r), Fetching(s), th[r].url = th[s].url
          PROVE  ~(hash'[th[s].url] # Absent /\ hash'[th[s].url] < DupWindow)
      <3>1. ~Fresh(th[s].url) /\ hash[th[s].url] # Absent /\ th[s].url \in Url
        BY <1>7, <2>5 DEF DedupeInv, OneFetchPerWindow, FetchRecorded, UrlKnown
      <3> QED BY <2>1, <3>1 DEF Fresh
    <2>6. Fetching(t)' => pc'[t] = "open"
      BY <1>1 DEF Fetching
    <2>7. OneFetchPerWindow'
      <3> SUFFICES ASSUME NEW r \in Thread, NEW s \in Thread, r # s,
                          Fetching(r)', Fetching(s)', th'[r].url = th'[s].url
                   PROVE  ~(hash'[th'[s].url] # Absent /\ hash'[th'[s].url] < DupWindow)
        BY DEF OneFetchPerWindow, Fresh
      <3>1. CASE r = t
        BY <1>1, <1>3, <2>4, <2>6, <3>1 DEF Fresh
      <3>2. CASE s = t
        BY <1>1, <1>3, <2>4, <2>6, <3>2 DEF Fresh
      <3>3. CASE r # t /\ s # t
        BY <1>1, <1>3, <2>5, <3>3 DEF Fresh
      <3> QED BY <3>1, <3>2, <3>3
    <2> QED BY <2>3, <2>7
  <1>8. VerdictStands'
    BY <1>6 DEF VerdictStands
  <1>9. CASE main = "freed"
    BY <1>1, <1>4, <1>5, <1>9 DEF DedupeInv, OneFetchPerWindow
  <1> QED BY <1>1, <1>4, <1>5, <1>7, <1>8, <1>9 DEF DedupeInv

-----------------------------------------------------------------------------
LEMMA ThreadDedupe ==
  ASSUME IInv, NEW t \in Thread, ServerThread(t) PROVE DedupeInv'
  <1> USE DEF IInv
  <1>1. CASE EnterDedupe(t) \/ LeaveDedupe(t)
    BY <1>1, EnterStep, LeaveStep
  <1>2. CASE ReadRequest(t)
    <2>1. /\ \A s \in Thread : s # t => pc'[s] = pc[s] /\ th'[s] = th[s]
          /\ pc[t] = "read" /\ pc'[t] = "lock"
          /\ UNCHANGED <<main, hash, mutex>>
      BY <1>2 DEF ReadRequest, Goto, TypeOK, mainVars
    <2>2. th'[t].url \in Url
      <3>1. conn[th[t].fd].req \in Request /\ urlcounter \in 0 .. NumUrls - 1
        BY <1>2 DEF ReadRequest, TypeOK
      <3>2. <<urlcounter, conn[th[t].fd].req.file>> \in Url
        BY <3>1 DEF Request, Url
      <3>3. th'[t].url = <<urlcounter, conn[th[t].fd].req.file>>
        BY <1>2 DEF ReadRequest, TypeOK, LocalRecord
      <3> QED BY <3>2, <3>3
    <2>3. \A s \in Thread : Fetching(s)' => Fetching(s) /\ s # t
      BY <2>1 DEF Fetching
    <2>4. UrlKnown' /\ LockHeld'
      BY <2>1, <2>2, <2>3 DEF DedupeInv, UrlKnown, LockHeld
    <2>5. ASSUME main # "freed" PROVE VerdictStands' /\ FetchRecorded'
      BY <2>1, <2>3, <2>5 DEF DedupeInv, VerdictStands, Verdict, Fresh, FetchRecorded
    <2>6. OneFetchPerWindow'
      BY <2>1, <2>3 DEF DedupeInv, OneFetchPerWindow, Fresh
    <2> QED BY <2>1, <2>4, <2>5, <2>6 DEF DedupeInv
  <1>3. CASE SkipSocket(t) \/ DropRequest(t)
    BY <1>3, OtherStep DEF SkipSocket, DropRequest, mainVars, Fetching, Goto, TypeOK
  <1>4. CASE Fetch(t)
    <2>1. /\ UNCHANGED <<main, hash, mutex>>
          /\ Fetching(t)
          /\ \E l \in {"transfer", "rotate", "store", "inspect", "extract", "out", "reply"} :
               Goto(t, l)
      BY <1>4 DEF Fetch, OpenTransfer, OpenFails, Transfer, AfterStatus, RotateLoad,
              RotateStore, StartExtract, RejectArchive, EndExtract, Cleanup,
              Fetching, mainVars
    <2>2. \A s \in Thread : s # t => th'[s] = th[s]
      BY <1>4 DEF Fetch, OpenTransfer, OpenFails, Transfer, RotateLoad,
              RotateStore, StartExtract, RejectArchive, EndExtract, Cleanup, TypeOK
    <2>3. th'[t].url = th[t].url
      BY <1>4 DEF Fetch, OpenTransfer, OpenFails, Transfer, RotateLoad,
              RotateStore, StartExtract, RejectArchive, EndExtract, Cleanup,
              TypeOK, LocalRecord
    <2> QED BY <2>1, <2>2, <2>3, OtherStep DEF Fetching
  <1>5. CASE Reply(t) \/ CloseSocket(t) \/ Finish(t)
    <2>1. /\ UNCHANGED <<main, hash, mutex>>
          /\ pc[t] \in {"reply", "close", "dec"}
          /\ \E l \in {"close", "dec", "idle"} : Goto(t, l)
          /\ \A s \in Thread : s # t => th'[s] = th[s]
      BY <1>5 DEF Reply, CloseSocket, Finish, mainVars, TypeOK
    <2>2. ~Fetching(t)'
      BY <2>1 DEF Goto, TypeOK, Fetching
    <2> QED BY <2>1, <2>2, OtherStep
  <1> QED BY <1>1, <1>2, <1>3, <1>4, <1>5 DEF ServerThread

LEMMA NextDedupe == IInv /\ TypeOK' /\ [Next]_vars => IInv'
  <1> SUFFICES ASSUME IInv, TypeOK', [Next]_vars PROVE DedupeInv'
    BY DEF IInv
  <1>1. CASE UNCHANGED vars
    BY <1>1, QuietStep DEF vars, IInv
  <1>2. CASE Next
    BY <1>2, TickDedupe, ListenerDedupe, ThreadDedupe DEF Next
  <1> QED BY <1>1, <1>2

THEOREM DedupeInvariant == Spec => []IInv
  BY InitDedupe, NextDedupe, TypeCorrect, PTL DEF Spec

\* What a thread found under the lock stands until it acts on it, and whoever
\* fetches has left an entry.
THEOREM DedupeInvHolds == Spec => []DedupeInv
  <1>1. IInv => DedupeInv
    BY DEF IInv
  <1> QED BY <1>1, DedupeInvariant, PTL

\* Two threads transfer one URL at the same time only if its entry has
\* outlived the window: whoever holds the lock between lookup and insertion
\* may rely on what it saw.
THEOREM DedupeHolds == Spec => []OneFetchPerWindow
  <1>1. IInv => OneFetchPerWindow
    BY DEF IInv, DedupeInv
  <1> QED BY <1>1, DedupeInvariant, PTL

-----------------------------------------------------------------------------
(* Refinement.                                                             *)

granted == [t \in Thread |-> GrantedUrl(t)]

\* Steps outside avoid_dupes end fetches or leave the ledger alone.
LEMMA KeptGrants ==
  ASSUME IInv, UNCHANGED <<main, hash>>, NEW t \in Thread,
         \A s \in Thread : s # t => pc'[s] = pc[s] /\ th'[s] = th[s],
         Fetching(t)' => Fetching(t) /\ th'[t].url = th[t].url
  PROVE  [Ledger!Next]_(Ledger!ledger)
  <1>1. \A s \in Thread : s # t => GrantedUrl(s)' = GrantedUrl(s)
    BY DEF GrantedUrl, Fetching
  <1>2. GrantedUrl(t)' \in {GrantedUrl(t), NoUrl}
    BY DEF GrantedUrl
  <1>3. CASE GrantedUrl(t)' = GrantedUrl(t)
    BY <1>1, <1>3 DEF Ledger!ledger
  <1>4. CASE GrantedUrl(t)' = NoUrl /\ GrantedUrl(t) # NoUrl
    <2>1. granted' = [granted EXCEPT ![t] = NoUrl] /\ granted[t] # NoUrl
      BY <1>1, <1>4 DEF granted
    <2>2. Ledger!Done(t)
      BY <2>1 DEF Ledger!Done, granted
    <2> QED BY <2>2 DEF Ledger!Next
  <1> QED BY <1>2, <1>3, <1>4

\* Steps that change no grant and no entry are stutters of the ledger.
LEMMA SameGrants ==
  ASSUME UNCHANGED hash, \A s \in Thread : GrantedUrl(s)' = GrantedUrl(s)
  PROVE  UNCHANGED Ledger!ledger
  BY DEF Ledger!ledger

LEMMA InitLedger == Init => Ledger!Init
  BY DEF Init, Ledger!Init, Ledger!Never, Absent, GrantedUrl, Fetching

\* Freeing the table, and the end of the process, empty the ledger.
LEMMA ResetLedger ==
  ASSUME FreeHash \/ ProcessGone PROVE Ledger!Next
  <1>1. hash' = [u \in Url |-> Ledger!Never]
    BY DEF FreeHash, ProcessGone, Absent, Ledger!Never
  <1>2. \A t \in Thread : GrantedUrl(t)' = NoUrl
    BY DEF FreeHash, ProcessGone, GrantedUrl, Fetching
  <1>3. Ledger!Reset
    BY <1>1, <1>2 DEF Ledger!Reset
  <1> QED BY <1>3 DEF Ledger!Next

LEMMA TickLedger ==
  ASSUME Tick PROVE Ledger!Next
  <1>1. hash' = [u \in Url |-> IF hash[u] \in {Ledger!Never, DupWindow} THEN hash[u]
                               ELSE hash[u] + 1]
    BY DEF Tick, Older, Absent, Expired, Ledger!Never
  <1>2. \A t \in Thread : GrantedUrl(t)' = GrantedUrl(t)
    BY DEF Tick, GrantedUrl, Fetching
  <1>3. Ledger!Pass
    BY <1>1, <1>2 DEF Ledger!Pass
  <1> QED BY <1>3 DEF Ledger!Next

LEMMA ListenerLedger ==
  ASSUME IInv, Listener \/ Crash \/ \E c \in Conn : Client(c)
  PROVE  [Ledger!Next]_(Ledger!ledger)
  <1>1. CASE FreeHash \/ ProcessGone
    BY <1>1, ResetLedger
  <1>2. ASSUME NEW t \in Thread, Spawn(t) PROVE UNCHANGED Ledger!ledger
    <2>1. /\ main # "freed" /\ main' # "freed"
          /\ UNCHANGED hash
          /\ pc[t] = "idle" /\ pc'[t] = "read"
          /\ \A s \in Thread : s # t => pc'[s] = pc[s] /\ th'[s] = th[s]
      BY <1>2 DEF Spawn, EnterSelect, IInv, TypeOK
    <2>2. \A s \in Thread : GrantedUrl(s)' = GrantedUrl(s)
      BY <2>1 DEF GrantedUrl, Fetching
    <2> QED BY <2>1, <2>2, SameGrants
  <1>3. CASE \/ Activate \/ AcceptFails \/ Refuse \/ Admit \/ SpawnFails
             \/ SelectTimeout \/ \E c \in Conn : Accept(c) \/ Client(c)
    <2>1. UNCHANGED <<hash, pc, th>> /\ (main' = "freed" <=> main = "freed")
      BY <1>3 DEF Activate, AcceptFails, Refuse, Admit, SpawnFails, SelectTimeout,
              Accept, EnterSelect, Client, Connect, Send, Hangup, mainVars
    <2>2. \A s \in Thread : GrantedUrl(s)' = GrantedUrl(s)
      BY <2>1 DEF GrantedUrl, Fetching
    <2> QED BY <2>1, <2>2, SameGrants
  <1> QED BY <1>1, <1>2, <1>3 DEF Listener, Crash, Exit

\* Leaving the lock is the step at which the ledger grants.
LEMMA LeaveLedger ==
  ASSUME IInv, NEW t \in Thread, LeaveDedupe(t)
  PROVE  [Ledger!Next]_(Ledger!ledger)
  <1> USE DEF IInv
  <1>0. PICK u : u = th[t].url
    OBVIOUS
  <1>1. /\ \A s \in Thread : s # t => pc'[s] = pc[s] /\ th'[s] = th[s]
        /\ pc[t] = "unlock"
        /\ pc'[t] = IF th[t].verdict = "recent" THEN "reply" ELSE "open"
        /\ UNCHANGED main
        /\ th[t].url = u /\ th'[t].url = u
    BY <1>0 DEF LeaveDedupe, Goto, TypeOK, LocalRecord, mainVars
  <1>2. \A s \in Thread : s # t => GrantedUrl(s)' = GrantedUrl(s)
    BY <1>1 DEF GrantedUrl, Fetching
  <1>3. GrantedUrl(t) = NoUrl
    BY <1>1 DEF GrantedUrl, Fetching
  <1>4. CASE main = "freed"
    <2>1. GrantedUrl(t)' = NoUrl /\ UNCHANGED hash
      BY <1>1, <1>4 DEF GrantedUrl, LeaveDedupe, TableAfter
    <2> QED BY <1>2, <1>3, <2>1, SameGrants
  <1>5. CASE main # "freed" /\ th[t].verdict = "recent"
    <2>1. GrantedUrl(t)' = NoUrl
      BY <1>1, <1>5 DEF GrantedUrl, Fetching
    <2>2. UNCHANGED hash
      BY <1>5 DEF LeaveDedupe, TableAfter
    <2> QED BY <1>2, <1>3, <2>1, <2>2, SameGrants
  <1>6. CASE main # "freed" /\ th[t].verdict # "recent"
    <2>1. GrantedUrl(t)' = u
      BY <1>1, <1>6 DEF GrantedUrl, Fetching
    <2>2. granted' = [granted EXCEPT ![t] = u] /\ granted[t] = NoUrl
      BY <1>2, <1>3, <2>1 DEF granted
    <2>3. /\ u \in Url
          /\ Ledger!Open(u)
          /\ hash' = [hash EXCEPT ![u] = IF @ = Ledger!Never THEN 0 ELSE @]
      BY <1>1, <1>6, TableStep
         DEF TypeOK, Ledger!Open, Ledger!Never, Absent, Expired
    <2>4. Ledger!Grant(t, u)
      BY <2>2, <2>3 DEF Ledger!Grant, granted
    <2> QED BY <2>3, <2>4 DEF Ledger!Next
  <1> QED BY <1>4, <1>5, <1>6

LEMMA ThreadLedger ==
  ASSUME IInv, NEW t \in Thread, ServerThread(t)
  PROVE  [Ledger!Next]_(Ledger!ledger)
  <1> USE DEF IInv
  <1>1. CASE LeaveDedupe(t)
    BY <1>1, LeaveLedger
  <1>2. CASE ~LeaveDedupe(t)
    <2>1. /\ UNCHANGED <<main, hash>>
          /\ \A s \in Thread : s # t => pc'[s] = pc[s] /\ th'[s] = th[s]
      BY <1>2 DEF ServerThread, Fetch, SkipSocket, DropRequest, ReadRequest, EnterDedupe,
           OpenTransfer, OpenFails, Transfer, RotateLoad, RotateStore,
           StartExtract, RejectArchive, EndExtract, Cleanup, Reply, CloseSocket,
           Finish, Goto, mainVars, TypeOK
    <2>2. Fetching(t)' => Fetching(t) /\ th'[t].url = th[t].url
      <3>1. CASE Fetch(t)
        BY <3>1 DEF Fetch, OpenTransfer, OpenFails, Transfer, RotateLoad,
              RotateStore, StartExtract, RejectArchive, EndExtract, Cleanup,
              Fetching, TypeOK, LocalRecord
      <3>2. CASE ~Fetch(t)
        BY <1>2, <3>2 DEF ServerThread, SkipSocket, DropRequest, ReadRequest,
              EnterDedupe, Reply, CloseSocket, Finish, Goto, Fetching, TypeOK
      <3> QED BY <3>1, <3>2
    <2> QED BY <2>1, <2>2, KeptGrants
  <1> QED BY <1>1, <1>2

LEMMA NextLedger == IInv /\ [Next]_vars => [Ledger!Next]_(Ledger!ledger)
  <1> SUFFICES ASSUME IInv, [Next]_vars PROVE [Ledger!Next]_(Ledger!ledger)
    OBVIOUS
  <1>1. CASE UNCHANGED vars
    BY <1>1, SameGrants DEF vars, GrantedUrl, Fetching
  <1>2. CASE Next
    BY <1>2, TickLedger, ListenerLedger, ThreadLedger DEF Next
  <1> QED BY <1>1, <1>2

\* avoid_dupes behaves like the ledger that looks up, enters and grants in a
\* single step, whatever else the process does meanwhile.
THEOREM LedgerImplemented == Spec => ImplementsLedger
  BY InitLedger, NextLedger, DedupeInvariant, PTL DEF Spec, ImplementsLedger, Ledger!Spec
=============================================================================
