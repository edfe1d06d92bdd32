------------------------------ MODULE MCDaemon ------------------------------
(* Small instances of Daemon for TLC. *)
EXTENDS DaemonProperties, TLC

\* Threads are interchangeable, and so are sockets: Daemon never compares two
\* of them other than for equality.
ThreadsAndSockets == Permutations(Thread) \cup Permutations(Conn)
=============================================================================
