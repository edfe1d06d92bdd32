------------------------------ MODULE CacheFill ------------------------------
(***************************************************************************)
(* One file of the cache, from the mirror to the debugger: the mirror      *)
(* makes archives (Prepare), clients look at the file and send its time,   *)
(* the daemon grants a URL to a thread (FetchLedger, which Daemon          *)
(* implements), the thread transfers the archive if it is newer than that  *)
(* time, and tar puts the file where the next client looks.                *)
(***************************************************************************)
EXTENDS Prepare, FiniteSets

CONSTANTS
  Fetcher,   \* a client with the server_thread that serves it
  Url,       \* the URLs of the file, one per mirror; the mirrors are alike
  NoUrl,
  Window,    \* the 600 s of avoid_dupes, in ticks
  MaxKills,  \* bound: how often the daemon ends with work in progress
  Nobody

ASSUME CacheAssumption ==
  /\ Fetcher # {} /\ Url # {}
  /\ NoUrl \notin Url
  /\ Window \in Nat \ {0}
  /\ MaxKills \in Nat
  /\ Nobody \notin Fetcher

VARIABLES
  cache,    \* the name in CACHE_DIR: what is there, of which version, its time,
            \* and who writes it
  age,      \* per URL the ticks since it was entered in the table of the daemon
  granted,  \* per thread the URL it may fetch
  job,      \* per thread: where it is, URL and time of the request, the archive
            \* it has in /tmp
  kills,    \* ends of the daemon so far
  lost      \* history: tar was ended, or met a full disk, on the way

table == <<age, granted>>
vars  == <<mirror, cache, table, job, kills, lost>>

Ledger == INSTANCE FetchLedger WITH Worker <- Fetcher

NoFile == [body |-> "none", ver |-> 0, time |-> 0, by |-> Nobody]
NoJob  == [pc |-> "idle", url |-> NoUrl, stamp |-> 0, ver |-> 0, whole |-> FALSE]

\* Mutant: the time of the extraction is kept (tar -m).
ExtractionTime(v) == Now

\* tar -x sets the time of the member last, through the descriptor it wrote to.
MemberTime(v) == SourceTime(v)

Extracted(v, body) == [body |-> body, ver |-> v, time |-> MemberTime(v), by |-> Nobody]

\* The times lstat may find: those of the writes until now.
Times == IF cache.body = "growing" THEN cache.time .. Now ELSE {cache.time}

-----------------------------------------------------------------------------
Init ==
  /\ MirrorInit
  /\ cache = NoFile
  /\ Ledger!Init
  /\ job = [t \in Fetcher |-> NoJob]
  /\ kills = 0
  /\ lost = FALSE

Mirror ==
  /\ MirrorNext
  /\ UNCHANGED <<cache, table, job, kills, lost>>

At(t, where) == job[t].pc = where
Goto(t, where) == job' = [job EXCEPT ![t].pc = where]

\* The end of a request: whatever happened, the thread has no URL any more.
Leave(t) ==
  /\ job' = [job EXCEPT ![t] = NoJob]
  /\ Ledger!Done(t)

\* A client looks (xmp_getattr) and sends the time it found, 0 for none; the
\* thread makes the URL from the mirror that is in use.
Look(t) ==
  /\ At(t, "idle")
  /\ \E u \in Url, s \in Times :
       job' = [job EXCEPT ![t] = [@ EXCEPT !.pc = "asked", !.url = u, !.stamp = s]]
  /\ UNCHANGED <<mirror, cache, table, kills, lost>>

\* Mutant: every request is let through.
AlwaysMay(t) == TRUE

May(t) == Ledger!Open(job[t].url)

Duplicate(t) ==
  /\ At(t, "asked")
  /\ ~May(t)
  /\ job' = [job EXCEPT ![t] = NoJob]
  /\ UNCHANGED <<mirror, cache, table, kills, lost>>

Granted(t) ==
  /\ At(t, "asked")
  /\ May(t)
  /\ granted' = [granted EXCEPT ![t] = job[t].url]
  /\ age' = [age EXCEPT ![job[t].url] = IF @ = Ledger!Never THEN 0 ELSE @]
  /\ Goto(t, "get")
  /\ UNCHANGED <<mirror, cache, kills, lost>>

Modified(t) == job[t].stamp = 0 \/ archive.time > job[t].stamp

NotModified(t) ==
  /\ At(t, "get")
  /\ archive # NoArchive /\ ~Modified(t)
  /\ Leave(t)
  /\ UNCHANGED <<mirror, cache, kills, lost>>

\* Mutant: the archive is not tested.
TakenAnyway(whole) == TRUE

\* tar -t reads the archive to its end.
Tests(whole) == whole

\* The archive is in /tmp; it is taken only if it passes the test.
HaveBody(t, whole) ==
  /\ At(t, "get")
  /\ archive # NoArchive /\ Modified(t)
  /\ IF Tests(whole)
     THEN /\ job' = [job EXCEPT ![t] = [@ EXCEPT !.pc = "extract", !.stamp = 0,
                                               !.ver = archive.ver, !.whole = whole]]
          /\ UNCHANGED table
     ELSE Leave(t)
  /\ UNCHANGED <<mirror, cache, kills, lost>>

FetchBody(t) == HaveBody(t, archive.whole)

\* The disk of /tmp is full: the end of the archive is lost when file is flushed.
FetchShort(t) == HaveBody(t, FALSE)

\* No mirror, no archive, a transfer that breaks off.
FetchFails(t) ==
  /\ At(t, "get")
  /\ Leave(t)
  /\ UNCHANGED <<mirror, cache, kills, lost>>

\* tar -x creates the file; a file that is there it unlinks, and tries again.
TarRemoves(t) ==
  /\ At(t, "extract")
  /\ cache # NoFile
  /\ cache' = NoFile
  /\ UNCHANGED <<mirror, table, job, kills, lost>>

TarCreates(t) ==
  /\ At(t, "extract")
  /\ cache = NoFile
  /\ cache' = [body |-> "growing", ver |-> job[t].ver, time |-> Now, by |-> t]
  /\ Goto(t, "fill")
  /\ UNCHANGED <<mirror, table, kills, lost>>

\* The file tar has written may have lost its name by now.
Finish(t, body) ==
  /\ At(t, "fill")
  /\ cache' = IF cache.by = t THEN Extracted(job[t].ver, body) ELSE cache
  /\ Leave(t)
  /\ UNCHANGED <<mirror, kills>>

TarEnds(t) ==
  /\ Finish(t, IF job[t].whole THEN "whole" ELSE "cut")
  /\ UNCHANGED lost

\* The disk of CACHE_DIR is full; tar sets the time all the same.
TarFails(t) ==
  /\ Finish(t, "cut")
  /\ lost' = TRUE

-----------------------------------------------------------------------------
\* The daemon ends, by its idle timeout or a crash, and systemd ends what it
\* started.  What tar has written so far stays, with the time of the last write.
Killed ==
  /\ kills < MaxKills
  /\ kills' = kills + 1
  /\ Ledger!Reset
  /\ job' = [t \in Fetcher |-> NoJob]
  /\ lost' = TRUE
  /\ \E m \in Times :
       cache' = IF cache.body = "growing"
                THEN [cache EXCEPT !.body = "cut", !.time = m, !.by = Nobody]
                ELSE cache
  /\ UNCHANGED mirror

\* systemd-tmpfiles ages it, or somebody removes it through the mount.
Removed ==
  /\ cache # NoFile
  /\ cache' = NoFile
  /\ UNCHANGED <<mirror, table, job, kills, lost>>

\* Mutant: entries grow older without end.
PassAlways == age' = [u \in Url |-> age[u] + 1] /\ UNCHANGED granted

Pass == Ledger!Pass

Tick ==
  /\ Pass
  /\ UNCHANGED <<mirror, cache, job, kills, lost>>

Answer(t) ==
  \/ Duplicate(t) \/ Granted(t)
  \/ NotModified(t) \/ FetchBody(t) \/ FetchShort(t) \/ FetchFails(t)
  \/ TarRemoves(t) \/ TarCreates(t) \/ TarEnds(t) \/ TarFails(t)

Next ==
  \/ Mirror
  \/ \E t \in Fetcher : Look(t) \/ Answer(t)
  \/ Killed
  \/ Removed
  \/ Tick

Spec == Init /\ [][Next]_vars

Takes(t) == FetchBody(t) /\ archive.whole
Lands(t) == TarEnds(t) /\ cache.by = t

\* Clients go on looking, threads go on working, time goes on; a transfer that
\* could succeed again and again does not fail every time, nor is every file
\* removed while tar writes it.
FairSpec ==
  /\ Spec
  /\ WF_vars(Tick)
  /\ \A t \in Fetcher :
       /\ WF_vars(Look(t)) /\ WF_vars(Answer(t))
       /\ SF_vars(Takes(t)) /\ SF_vars(Lands(t))

-----------------------------------------------------------------------------
TypeOK ==
  /\ MirrorTypeOK
  /\ cache \in [body : {"none", "growing", "whole", "cut"}, ver : 0 .. MaxVersion,
                time : 0 .. 4 * MaxVersion, by : Fetcher \cup {Nobody}]
  /\ age \in [Url -> Ledger!Never .. Window]
  /\ granted \in [Fetcher -> Url \cup {NoUrl}]
  /\ job \in [Fetcher -> [pc : {"idle", "asked", "get", "extract", "fill"},
                          url : Url \cup {NoUrl}, stamp : 0 .. 4 * MaxVersion,
                          ver : 0 .. MaxVersion, whole : BOOLEAN]]
  /\ kills \in 0 .. MaxKills
  /\ lost \in BOOLEAN

\* What is in the cache is whole, or being written by a tar that runs, or was
\* cut off by an end of the daemon or a full disk - never by a bad archive, of
\* the script or of a transfer ("test extraction first", server.c:323).
WholeAtRest ==
  /\ cache.body = "growing" => At(cache.by, "fill") /\ job[cache.by].ver = cache.ver
  /\ cache.body = "cut" => lost

\* A thread that is about to put an older version over a newer one has been
\* overtaken: its URL was granted again after the window, or the file was
\* fetched by another mirror's URL (avoid_dupes, server.c:75-100, and the URL
\* that includes the mirror, server.c:428).
NoStepBack ==
  \A t \in Fetcher :
    At(t, "extract") /\ cache.body = "whole" /\ job[t].ver < cache.ver =>
      \/ age[job[t].url] = Window
      \/ \E u \in Url \ {job[t].url} : age[u] # Ledger!Never

\* A whole file in the cache is older than the archive: who looks at it and asks
\* is never answered 304, however new it is, for the file has the time of its
\* source (tar) and the archive that of the script (server.c:275-277).
WholeIsOlder == cache.body = "whole" => archive.time > cache.time

\* "The first crash for a boot may result in a 304 if the debuginfo had been
\* downloaded in a previous boot" (server.c:294-295): what a 304 leaves in the
\* cache has been downloaded.
NotModifiedHasFile == [][\A t \in Fetcher : NotModified(t) => cache.body # "cut"]_vars

\* Clients that go on looking get the contents of a whole archive, through lost
\* transfers, duplicates, full disks, removals and ends of the daemon - except
\* behind a file cut off after the archive was made, which a 304 keeps.
RefreshReaches ==
  []<>(\/ archive = NoArchive \/ ~archive.whole
       \/ cache.body = "whole" /\ cache.ver = archive.ver
       \/ cache.body = "cut" /\ cache.time >= archive.time)
=============================================================================
