------------------------------- MODULE Daemon -------------------------------
(***************************************************************************)
(* clr_debug_daemon (src/server.c): one listener and a detached thread per *)
(* connection.  A thread reads one request, asks the shared table of       *)
(* recent fetches whether the URL is a duplicate, transfers the archive,   *)
(* tests and extracts it, answers "ok", closes the socket and takes itself *)
(* off the connection count.                                               *)
(*                                                                         *)
(* A step of this module is what a thread does between two points where    *)
(* another thread, a client or the clock can be told apart: a system call, *)
(* a lock operation or an access to a variable shared without a lock.      *)
(***************************************************************************)
EXTENDS Integers, FiniteSets

CONSTANTS
  Thread,          \* identities for pthreads; a finished one is used again
  Conn,            \* sockets a client may have open at one time
  File,            \* prefix + path of a request: what a client asks for
  Stamps,          \* which requests occur: TRUE with a timestamp, FALSE without
  NumUrls,         \* urls_size
  FirstUrl,        \* initial urlcounter: 1 for the defaults, 0 from the env
  MaxConnections,  \* MAX_CONNECTIONS
  DupWindow,       \* the 600 s of avoid_dupes, in ticks
  IdleTimeout,     \* TIMEOUT of the select in main, in ticks
  SpawnMayFail,    \* TRUE: pthread_create may return EAGAIN
  NoConn, NoThread, NoUrl, NoReq, BadReq

ASSUME SizesAssumption ==
  /\ Stamps \subseteq BOOLEAN
  /\ NumUrls \in Nat \ {0}
  /\ FirstUrl \in 0 .. NumUrls - 1
  /\ MaxConnections \in Nat \ {0}
  /\ DupWindow \in Nat \ {0}
  /\ IdleTimeout \in Nat \ {0}
  /\ SpawnMayFail \in BOOLEAN

ASSUME FiniteThreads == IsFiniteSet(Thread)

Url     == (0 .. NumUrls - 1) \X File        \* mirror and name
Request == [file : File, stamped : Stamps]

ASSUME SentinelsAssumption ==
  /\ NoConn \notin Conn
  /\ NoThread \notin Thread
  /\ NoUrl \notin Url
  /\ NoReq \notin Request
  /\ BadReq \notin Request
  /\ NoReq # BadReq

VARIABLES
  main,        \* where the main thread is; "down" when there is no process
  sock,        \* clientsock, the socket just accepted
  idle,        \* ticks the current select() has waited
  count,       \* current_connection_count
  unstarted,   \* history: how often this process failed to start a thread
  conn,        \* the sockets, as both ends see them
  hash,        \* per URL the age of its entry, or Absent
  mutex,       \* holder of dupes_mutex
  urlcounter,  \* urlcounter, modulo urls_size as every use of it is
  pc,          \* where each server_thread is
  th           \* locals of server_thread and curl_get_file

mainVars == <<main, sock, idle, count, unstarted>>
vars == <<main, sock, idle, count, unstarted, conn, hash, mutex, urlcounter, pc, th>>

Absent  == -1
Expired == DupWindow  \* ages stop here: an older entry is treated the same

Unused == [cli |-> FALSE, srv |-> "none", req |-> NoReq, ok |-> FALSE]

NoLocals == [fd |-> NoConn, url |-> NoUrl, stamped |-> FALSE,
             verdict |-> "none", tmp |-> "none", ctr |-> 0]

\* What a transfer can leave on disk: no archive at all, an archive that is cut
\* because the transfer broke off, one that lost its end on a full disk, a
\* whole one.
Bodies     == {"junk", "torn", "short", "whole"}
HttpStatus == {200, 304, 404, 500}   \* 500: every other one, none at all

\* Threads that pthread_create started and that have not returned.
Live == {t \in Thread : pc[t] # "idle"}

\* The table would answer "duplicate" for u.
Fresh(u) == hash[u] # Absent /\ hash[u] < DupWindow

\* t is past avoid_dupes with permission to fetch, and not yet done.
Fetching(t) ==
  pc[t] \in {"open", "transfer", "rotate", "store", "inspect", "extract", "out"}

\* A socket both ends have closed is forgotten.
Settle(k) == IF ~k.cli /\ k.srv = "closed" THEN Unused ELSE k

ClosedByServer(c) == [conn EXCEPT ![c] = Settle([@ EXCEPT !.srv = "closed"])]

-----------------------------------------------------------------------------
Init ==
  /\ main = "down"
  /\ sock = NoConn
  /\ idle = 0
  /\ count = 0
  /\ unstarted = 0
  /\ conn = [c \in Conn |-> Unused]
  /\ hash = [u \in Url |-> Absent]
  /\ mutex = NoThread
  /\ urlcounter = FirstUrl
  /\ pc = [t \in Thread |-> "idle"]
  /\ th = [t \in Thread |-> NoLocals]

-----------------------------------------------------------------------------
(* Clients and the clock.                                                  *)

\* systemd owns the listening socket, so connecting works even when no
\* daemon runs.
Connect(c) ==
  /\ conn[c] = Unused
  /\ conn' = [conn EXCEPT ![c].cli = TRUE, ![c].srv = "queued"]
  /\ UNCHANGED <<mainVars, hash, mutex, urlcounter, pc, th>>

Send(c, r) ==
  /\ conn[c].cli
  /\ conn[c].srv \in {"queued", "open"}
  /\ conn[c].req = NoReq
  /\ conn' = [conn EXCEPT ![c].req = r]
  /\ UNCHANGED <<mainVars, hash, mutex, urlcounter, pc, th>>

Hangup(c) ==
  /\ conn[c].cli
  /\ conn' = [conn EXCEPT ![c] = Settle([@ EXCEPT !.cli = FALSE])]
  /\ UNCHANGED <<mainVars, hash, mutex, urlcounter, pc, th>>

Older(age) == IF age = Absent \/ age = Expired THEN age ELSE age + 1

\* One tick of time(NULL).  The tick is as long as the windows are divided
\* into; nothing else depends on the time.
Tick ==
  /\ hash' = [u \in Url |-> Older(hash[u])]
  /\ idle' = IF main = "select" /\ idle < IdleTimeout THEN idle + 1 ELSE idle
  /\ <<hash, idle>>' # <<hash, idle>>
  /\ UNCHANGED <<main, sock, count, unstarted, conn, mutex, urlcounter, pc, th>>

-----------------------------------------------------------------------------
(* The main thread.                                                        *)

EnterSelect ==
  /\ main' = "select"
  /\ idle' = 0
  /\ sock' = NoConn

\* Socket activation: systemd starts the daemon for a waiting connection.
Activate ==
  /\ main = "down"
  /\ \E c \in Conn : conn[c].srv = "queued"
  /\ EnterSelect
  /\ UNCHANGED <<count, unstarted, conn, hash, mutex, urlcounter, pc, th>>

Accept(c) ==
  /\ main = "select"
  /\ conn[c].srv = "queued"
  /\ main' = "check"
  /\ sock' = c
  /\ conn' = [conn EXCEPT ![c].srv = "open"]
  /\ UNCHANGED <<idle, count, unstarted, hash, mutex, urlcounter, pc, th>>

\* accept() fails (out of descriptors); main goes on with the -1.
AcceptFails ==
  /\ main = "select"
  /\ \E c \in Conn : conn[c].srv = "queued"
  /\ main' = "check"
  /\ sock' = NoConn
  /\ UNCHANGED <<idle, count, unstarted, conn, hash, mutex, urlcounter, pc, th>>

\* Mutant: one connection too many.
FullOneLate == count > MaxConnections

Full == count >= MaxConnections

\* Mutant: no continue after the refusal, so a thread is started all the same.
RefuseAndGoOn ==
  /\ main = "check"
  /\ Full
  /\ conn' = IF sock = NoConn THEN conn ELSE ClosedByServer(sock)
  /\ count' = count + 1
  /\ main' = "spawn"
  /\ UNCHANGED <<sock, idle, unstarted, hash, mutex, urlcounter, pc, th>>

Refuse ==
  /\ main = "check"
  /\ Full
  /\ conn' = IF sock = NoConn THEN conn ELSE ClosedByServer(sock)
  /\ EnterSelect
  /\ UNCHANGED <<count, unstarted, hash, mutex, urlcounter, pc, th>>

Admit ==
  /\ main = "check"
  /\ ~Full
  /\ count' = count + 1
  /\ main' = "spawn"
  /\ UNCHANGED <<sock, idle, unstarted, conn, hash, mutex, urlcounter, pc, th>>

Spawn(t) ==
  /\ main = "spawn"
  /\ pc[t] = "idle"
  /\ pc' = [pc EXCEPT ![t] = "read"]
  /\ th' = [th EXCEPT ![t] = [NoLocals EXCEPT !.fd = sock]]
  /\ EnterSelect
  /\ UNCHANGED <<count, unstarted, conn, hash, mutex, urlcounter>>

\* The result of pthread_create is not looked at: no thread runs, and the
\* count and the socket stay as they are.
SpawnFails ==
  /\ main = "spawn"
  /\ SpawnMayFail
  /\ unstarted' = unstarted + 1
  /\ EnterSelect
  /\ UNCHANGED <<count, conn, hash, mutex, urlcounter, pc, th>>

SelectTimeout ==
  /\ main = "select"
  /\ idle = IdleTimeout
  /\ \A c \in Conn : conn[c].srv # "queued"
  /\ main' = "leaving"
  /\ UNCHANGED <<sock, idle, count, unstarted, conn, hash, mutex, urlcounter, pc, th>>

\* nc_hashmap_free, without the lock and without resetting the pointer.
FreeHash ==
  /\ main = "leaving"
  /\ main' = "freed"
  /\ hash' = [u \in Url |-> Absent]
  /\ UNCHANGED <<sock, idle, count, unstarted, conn, mutex, urlcounter, pc, th>>

\* The kernel closes what the process had open; what was still queued stays
\* with the listening socket.
ProcessGone ==
  /\ main' = "down"
  /\ sock' = NoConn
  /\ idle' = 0
  /\ count' = 0
  /\ unstarted' = 0
  /\ conn' = [c \in Conn |-> IF conn[c].srv = "open"
                             THEN Settle([conn[c] EXCEPT !.srv = "closed"])
                             ELSE conn[c]]
  /\ hash' = [u \in Url |-> Absent]
  /\ mutex' = NoThread
  /\ urlcounter' = FirstUrl
  /\ pc' = [t \in Thread |-> "idle"]
  /\ th' = [t \in Thread |-> NoLocals]

\* Returning from main ends every detached thread.
Exit  == main = "freed" /\ ProcessGone

\* A signal, a failing select(), or anything else that ends the process.
Crash == main \notin {"down", "freed"} /\ ProcessGone

-----------------------------------------------------------------------------
(* server_thread: receiving the request.                                   *)

Goto(t, label) == pc' = [pc EXCEPT ![t] = label]

\* fd < 0: there is nothing to read and nothing to close.
SkipSocket(t) ==
  /\ pc[t] = "read"
  /\ th[t].fd = NoConn
  /\ Goto(t, "dec")
  /\ UNCHANGED <<mainVars, conn, hash, mutex, urlcounter, th>>

\* Mutants: the error path closes the socket that thread_end closes again, or
\* returns without going through thread_end.
DropClosing(t) ==
  /\ pc[t] = "read"
  /\ th[t].fd # NoConn
  /\ conn[th[t].fd].req = BadReq
  /\ conn' = ClosedByServer(th[t].fd)
  /\ Goto(t, "close")
  /\ UNCHANGED <<mainVars, hash, mutex, urlcounter, th>>

DropReturning(t) ==
  /\ pc[t] = "read"
  /\ th[t].fd # NoConn
  /\ conn[th[t].fd].req = BadReq
  /\ conn' = ClosedByServer(th[t].fd)
  /\ th' = [th EXCEPT ![t] = NoLocals]
  /\ Goto(t, "idle")
  /\ UNCHANGED <<mainVars, hash, mutex, urlcounter>>

\* The client closed first, or sent a request that does not parse, names "/",
\* has a forbidden character or an unknown prefix; or a good one, and there is
\* no memory for its URL.
DropRequest(t) ==
  /\ pc[t] = "read"
  /\ th[t].fd # NoConn
  /\ conn[th[t].fd].req # NoReq \/ ~conn[th[t].fd].cli
  /\ Goto(t, "close")
  /\ UNCHANGED <<mainVars, conn, hash, mutex, urlcounter, th>>

ReadRequest(t) ==
  /\ pc[t] = "read"
  /\ th[t].fd # NoConn
  /\ conn[th[t].fd].req \in Request
  /\ LET r == conn[th[t].fd].req IN
       th' = [th EXCEPT ![t] = [@ EXCEPT !.url = <<urlcounter, r.file>>,
                                         !.stamped = r.stamped]]
  /\ Goto(t, "lock")
  /\ UNCHANGED <<mainVars, conn, hash, mutex, urlcounter>>

-----------------------------------------------------------------------------
(* avoid_dupes.                                                            *)

Verdict(u) == IF hash[u] = Absent THEN "absent"
              ELSE IF Fresh(u) THEN "recent" ELSE "expired"

\* After main freed the table the lookup reads freed memory.
Verdicts(u) ==
  IF main = "freed" THEN {"absent", "recent", "expired"} ELSE {Verdict(u)}

\* Mutant: the table is used without the lock.
MutexIgnored == TRUE

MutexFree == mutex = NoThread

EnterDedupe(t) ==
  /\ pc[t] = "lock"
  /\ MutexFree
  /\ mutex' = t
  /\ \E v \in Verdicts(th[t].url) : th' = [th EXCEPT ![t].verdict = v]
  /\ Goto(t, "unlock")
  /\ UNCHANGED <<mainVars, conn, hash, urlcounter>>

\* Mutant: every lookup makes the entry young again.
TableRenewed(u, v) == IF main # "freed" THEN [hash EXCEPT ![u] = 0] ELSE hash

\* Only a URL the table does not have is entered: the time of an entry that
\* has expired is not brought up to date.
TableAfter(u, v) ==
  IF v = "absent" /\ main # "freed" THEN [hash EXCEPT ![u] = 0] ELSE hash

\* Mutant: a duplicate returns without unlocking.
LeaveLocked(t) ==
  /\ pc[t] = "unlock"
  /\ hash' = TableAfter(th[t].url, th[t].verdict)
  /\ mutex' = IF th[t].verdict = "recent" THEN mutex ELSE NoThread
  /\ th' = [th EXCEPT ![t].verdict = "none"]
  /\ Goto(t, IF th[t].verdict = "recent" THEN "reply" ELSE "open")
  /\ UNCHANGED <<mainVars, conn, urlcounter>>

LeaveDedupe(t) ==
  /\ pc[t] = "unlock"
  /\ hash' = TableAfter(th[t].url, th[t].verdict)
  /\ mutex' = NoThread
  /\ th' = [th EXCEPT ![t].verdict = "none"]
  /\ Goto(t, IF th[t].verdict = "recent" THEN "reply" ELSE "open")
  /\ UNCHANGED <<mainVars, conn, urlcounter>>

-----------------------------------------------------------------------------
(* curl_get_file after the duplicate check.                                *)

OpenTransfer(t) ==
  /\ pc[t] = "open"
  /\ th' = [th EXCEPT ![t].tmp = "junk"]
  /\ Goto(t, "transfer")
  /\ UNCHANGED <<mainVars, conn, hash, mutex, urlcounter>>

\* No curl handle (301) or no temporary file (418).
OpenFails(t) ==
  /\ pc[t] = "open"
  /\ Goto(t, "reply")
  /\ UNCHANGED <<mainVars, conn, hash, mutex, urlcounter, th>>

\* Mutant: the file is kept whatever curl_easy_perform says.
KeptAnyway(failed, body) == body

\* "can't trust the file if we get an error back": it is unlinked.
KeptBody(failed, body) == IF failed THEN "gone" ELSE body

AfterStatus(status) ==
  CASE status = 200          -> "inspect"
    [] status \in {304, 404} -> "out"
    [] OTHER                 -> "rotate"

\* curl_easy_perform: any status with or without a transfer error.  A server
\* says 304 to conditional requests only.  A full disk is an error too, except
\* for the buffered end of a body: that only the unchecked fflush meets.
Transfer(t) ==
  /\ pc[t] = "transfer"
  /\ \E failed \in BOOLEAN, status \in HttpStatus, body \in Bodies :
       /\ status = 304 => th[t].stamped
       /\ status # 200 => body = "junk"
       /\ body = "torn" => failed
       /\ th' = [th EXCEPT ![t].tmp = KeptBody(failed, body)]
       /\ Goto(t, AfterStatus(status))
  /\ UNCHANGED <<mainVars, conn, hash, mutex, urlcounter>>

\* urlcounter++ with no lock: a load and a store.
RotateLoad(t) ==
  /\ pc[t] = "rotate"
  /\ th' = [th EXCEPT ![t].ctr = urlcounter]
  /\ Goto(t, "store")
  /\ UNCHANGED <<mainVars, conn, hash, mutex, urlcounter>>

RotateStore(t) ==
  /\ pc[t] = "store"
  /\ urlcounter' = (th[t].ctr + 1) % NumUrls
  /\ Goto(t, "out")
  /\ UNCHANGED <<mainVars, conn, hash, mutex, th>>

\* A body cut where tar does not notice passes "tar -t" as well.
PassesTest(body) == body \in {"torn", "short", "whole"}

StartExtract(t) ==
  /\ pc[t] = "inspect"
  /\ PassesTest(th[t].tmp)
  /\ Goto(t, "extract")
  /\ UNCHANGED <<mainVars, conn, hash, mutex, urlcounter, th>>

\* An empty or unlinked file, a failing "tar -t", or no command to run.
RejectArchive(t) ==
  /\ pc[t] = "inspect"
  /\ Goto(t, "out")
  /\ UNCHANGED <<mainVars, conn, hash, mutex, urlcounter, th>>

\* "tar -x" ended, well or not: the difference is logged and forgotten.
EndExtract(t) ==
  /\ pc[t] = "extract"
  /\ Goto(t, "out")
  /\ UNCHANGED <<mainVars, conn, hash, mutex, urlcounter, th>>

Cleanup(t) ==
  /\ pc[t] = "out"
  /\ th' = [th EXCEPT ![t].tmp = "none"]
  /\ Goto(t, "reply")
  /\ UNCHANGED <<mainVars, conn, hash, mutex, urlcounter>>

-----------------------------------------------------------------------------
(* server_thread: answering, whatever curl_get_file returned.              *)

\* SIGPIPE is ignored and the result of write is not looked at.
Reply(t) ==
  /\ pc[t] = "reply"
  /\ conn' = IF conn[th[t].fd].cli THEN [conn EXCEPT ![th[t].fd].ok = TRUE]
             ELSE conn
  /\ Goto(t, "close")
  /\ UNCHANGED <<mainVars, hash, mutex, urlcounter, th>>

CloseSocket(t) ==
  /\ pc[t] = "close"
  /\ conn' = ClosedByServer(th[t].fd)
  /\ th' = [th EXCEPT ![t] = NoLocals]
  /\ Goto(t, "dec")
  /\ UNCHANGED <<mainVars, hash, mutex, urlcounter>>

CountAfterFinish == count - 1

Finish(t) ==
  /\ pc[t] = "dec"
  /\ count' = CountAfterFinish
  /\ Goto(t, "idle")
  /\ UNCHANGED <<main, sock, idle, unstarted, conn, hash, mutex, urlcounter, th>>

-----------------------------------------------------------------------------
Client(c) == Connect(c) \/ Hangup(c) \/ \E r \in Request \cup {BadReq} : Send(c, r)

Listener ==
  \/ Activate \/ AcceptFails \/ Refuse \/ Admit \/ SpawnFails
  \/ SelectTimeout \/ FreeHash \/ Exit
  \/ \E c \in Conn : Accept(c)
  \/ \E t \in Thread : Spawn(t)

Fetch(t) ==
  \/ OpenTransfer(t) \/ OpenFails(t) \/ Transfer(t)
  \/ RotateLoad(t) \/ RotateStore(t)
  \/ StartExtract(t) \/ RejectArchive(t) \/ EndExtract(t) \/ Cleanup(t)

ServerThread(t) ==
  \/ SkipSocket(t) \/ DropRequest(t) \/ ReadRequest(t)
  \/ EnterDedupe(t) \/ LeaveDedupe(t)
  \/ Fetch(t)
  \/ Reply(t) \/ CloseSocket(t) \/ Finish(t)

Next ==
  \/ \E c \in Conn : Client(c)
  \/ Tick
  \/ Listener
  \/ Crash
  \/ \E t \in Thread : ServerThread(t)

Spec == Init /\ [][Next]_vars
=============================================================================
