-------------------------- MODULE DaemonProperties --------------------------
(***************************************************************************)
(* What clr_debug_daemon should guarantee: invariants, the ledger its      *)
(* duplicate check implements, and what eventually happens.                *)
(***************************************************************************)
EXTENDS Daemon

-----------------------------------------------------------------------------
(* Type and safety.                                                        *)

ConnRecord == [cli : BOOLEAN, srv : {"none", "queued", "open", "closed"},
               req : Request \cup {NoReq, BadReq}, ok : BOOLEAN]

LocalRecord == [fd : Conn \cup {NoConn}, url : Url \cup {NoUrl},
                stamped : BOOLEAN,
                verdict : {"none", "absent", "recent", "expired"},
                tmp : Bodies \cup {"none", "gone"},
                ctr : 0 .. NumUrls - 1]

Label == {"idle", "read", "lock", "unlock", "open", "transfer", "rotate",
          "store", "inspect", "extract", "out", "reply", "close", "dec"}

\* Every variable has its type; in particular the connection count never goes
\* below zero or above MAX_CONNECTIONS (server.c:156-213), and urlcounter
\* stays an index of urls (server.c:427).
TypeOK ==
  /\ main \in {"down", "select", "check", "spawn", "leaving", "freed"}
  /\ sock \in Conn \cup {NoConn}
  /\ idle \in 0 .. IdleTimeout
  /\ count \in 0 .. MaxConnections
  /\ unstarted \in Nat
  /\ conn \in [Conn -> ConnRecord]
  /\ hash \in [Url -> Absent .. DupWindow]
  /\ mutex \in Thread \cup {NoThread}
  /\ urlcounter \in 0 .. NumUrls - 1
  /\ pc \in [Thread -> Label]
  /\ th \in [Thread -> LocalRecord]

\* Never more threads than MAX_CONNECTIONS: the listener tests the count and
\* increments it in two steps, and threads take themselves off it in between
\* (server.c:600-616, 464).
ConnectionLimit == Cardinality(Live) <= MaxConnections

\* What makes the limit hold: the count is the number of live threads, the one
\* about to be started and those that failed to start, whichever of its exits
\* a thread took (server.c:384-464, 613-616).  But for those that failed to
\* start, nothing is leaked towards the point where every client is refused.
Starting == IF main = "spawn" THEN 1 ELSE 0
CountExact == count = Cardinality(Live) + Starting + unstarted

\* A client is turned away only when MAX_CONNECTIONS threads are at work
\* ("Too many connections, wait for the next loop/retry", server.c:600).
RefusedOnlyWhenFull ==
  main = "check" /\ Full => Cardinality(Live) >= MaxConnections

\* Two threads transfer the same URL at the same time only when its entry has
\* outlived the window, since such entries are never renewed
\* (avoid_dupes, server.c:75-100).  Once main has freed the table (619-621)
\* the answers of avoid_dupes mean nothing.
OneFetchPerWindow ==
  main # "freed" =>
    \A s, t \in Thread :
      s # t /\ Fetching(s) /\ Fetching(t) /\ th[s].url = th[t].url
        => ~Fresh(th[t].url)

\* What OneFetchPerWindow rests on: a thread between lookup and insertion has
\* the lock, so that what it found in the table still holds, and whoever
\* fetches has left an entry.
UrlKnown ==
  \A t \in Thread : pc[t] \in {"lock", "unlock"} \/ Fetching(t) => th[t].url \in Url

LockHeld == \A t \in Thread : pc[t] = "unlock" <=> mutex = t

VerdictStands ==
  \A t \in Thread : pc[t] = "unlock" =>
    th[t].verdict \in {Verdict(th[t].url), "recent"}

FetchRecorded == \A t \in Thread : Fetching(t) => hash[th[t].url] # Absent

DedupeInv ==
  /\ UrlKnown
  /\ LockHeld
  /\ main # "freed" => VerdictStands /\ FetchRecorded
  /\ OneFetchPerWindow

\* A socket the process has open belongs to main or to exactly one thread,
\* and whoever holds one holds it open: no path of server_thread leaks its
\* descriptor or closes one that may already be another's; only a thread that
\* failed to start leaves one behind (server.c:460-463, 603-605, 615).
Owners(c) == {t \in Thread : th[t].fd = c} \cup (IF sock = c THEN {NoThread} ELSE {})

SoleOwner ==
  /\ \A c \in Conn : /\ Cardinality(Owners(c)) <= 1
                     /\ Owners(c) # {} => conn[c].srv = "open"
  /\ Cardinality({c \in Conn : conn[c].srv = "open" /\ Owners(c) = {}}) <= unstarted

\* What tar extracts into the cache is a whole archive, however the transfer
\* ended (server.c:282-285, 316-338), unless the disk filled up between the
\* transfer and the flush.
OnlyWholeExtracted ==
  \A t \in Thread : pc[t] = "extract" => th[t].tmp \in {"short", "whole"}

\* "tell the other side we're done with the download" (server.c:457): when a
\* thread answers, nobody is still fetching the URL its client asked for.
OkMeansDone ==
  \A s, t \in Thread :
    pc[t] = "reply" /\ conn[th[t].fd].cli /\ Fetching(s)
      => th[s].url # th[t].url

\* "use select() to timeout and exit gracefully" (server.c:585): main returns
\* when no thread is at work any more.
GracefulExit == main \in {"leaving", "freed"} => Live = {}

-----------------------------------------------------------------------------
(* Refinement: the mutex, the lookup and the insertion amount to a ledger    *)
(* that grants in one step.  Freeing the table resets the ledger, and what   *)
(* threads learn from freed memory is no grant.                              *)

GrantedUrl(t) == IF Fetching(t) /\ main # "freed" THEN th[t].url ELSE NoUrl

Ledger == INSTANCE FetchLedger WITH
            Worker <- Thread, Window <- DupWindow,
            age <- hash, granted <- [t \in Thread |-> GrantedUrl(t)]

\* avoid_dupes implements the ledger (server.c:75-100), whatever main, the
\* other threads, the clock and crashes do between its lock and its unlock.
ImplementsLedger == Ledger!Spec

-----------------------------------------------------------------------------
(* Liveness.  The clients' sockets are closed by client.c on every path, or *)
(* by the kernel with the client.  A queued connection is accepted even if  *)
(* others keep coming since the backlog is a queue, and pthread mutexes are *)
(* handed on; curl's timeouts end every transfer, tar and the other calls   *)
(* return.  Nothing makes accept, pthread_create or the process fail, and   *)
(* the clock need not run.                                                  *)

Fairness ==
  /\ WF_vars(Activate) /\ WF_vars(Refuse) /\ WF_vars(Admit)
  /\ WF_vars(FreeHash) /\ WF_vars(Exit)
  /\ \A c \in Conn : WF_vars(Hangup(c)) /\ SF_vars(Accept(c))
  /\ WF_vars(\E t \in Thread : Spawn(t))
  /\ \A t \in Thread :
       /\ SF_vars(EnterDedupe(t))
       /\ WF_vars(ServerThread(t))

FairSpec == Spec /\ Fairness /\ WF_vars(Tick)

\* Every connection a client made is closed by the daemon in the end: it is
\* not left in the backlog, behind the lock, or open without a thread.
EveryConnectionEnds ==
  \A c \in Conn : conn[c].srv = "queued" ~> conn[c].srv \in {"none", "closed"}
=============================================================================
