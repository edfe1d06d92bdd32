----------------------------- MODULE CacheProofs -----------------------------
(***************************************************************************)
(* Theorems about the way of a file from the mirror to the debugger, for   *)
(* every number of clients, mirrors, versions and ends of the daemon, and  *)
(* every length of the window.                                             *)
(***************************************************************************)
EXTENDS CacheFill, TLAPS

USE MaxVersionAssumption, CacheAssumption

-----------------------------------------------------------------------------
(* The mirror.                                                             *)

\* What PreparedUnlessUpset rests on: an archive is newer than what it holds,
\* what the script is about to make is due, and what it has made without being
\* upset is whole and was current when tar closed it.
MirrorInv ==
  /\ archive = NoArchive \/ /\ archive.ver \in 1 .. source
                            /\ archive.time > SourceTime(archive.ver)
  /\ script = "tar" => archive # NoArchive /\ (~upset => archive.ver = source)
  /\ script # "tar" /\ archive # NoArchive /\ ~upset =>
       /\ archive.whole
       /\ archive.time = SourceTime(archive.ver) + 2


ArchiveRecord == [ver : 0 .. MaxVersion, whole : BOOLEAN, time : 0 .. 4 * MaxVersion]

\* The archive when tar no longer writes it.
LEMMA Closed ==
  ASSUME MirrorTypeOK, TarCloses \/ (Interrupted /\ script = "tar")
  PROVE  /\ archive' \in ArchiveRecord
         /\ archive'.ver = archive.ver /\ archive'.time = 4 * source - 1
         /\ archive'.whole = IF TarCloses THEN TRUE ELSE archive.whole
  <1>1. archive \in ArchiveRecord /\ source \in 1 .. MaxVersion
    BY DEF MirrorTypeOK, ArchiveRecord
  <1>2. AtArchive = 4 * source - 1 /\ AtArchive \in 0 .. 4 * MaxVersion
    BY <1>1 DEF AtArchive, SourceTime
  <1>3. CASE TarCloses
    <2>1. archive' = [archive EXCEPT !.whole = TRUE, !.time = AtArchive]
      BY <1>3 DEF TarCloses
    <2>2. archive' \in ArchiveRecord
      BY <1>1, <1>2, <2>1 DEF ArchiveRecord
    <2>3. archive'.ver = archive.ver /\ archive'.whole = TRUE /\ archive'.time = AtArchive
      BY <1>1, <2>1 DEF ArchiveRecord
    <2> QED BY <1>2, <1>3, <2>2, <2>3
  <1>4. CASE Interrupted /\ script = "tar" /\ ~TarCloses
    <2>1. archive' = [archive EXCEPT !.time = AtArchive]
      BY <1>4 DEF Interrupted
    <2>2. archive' \in ArchiveRecord
      BY <1>1, <1>2, <2>1 DEF ArchiveRecord
    <2>3. archive'.ver = archive.ver /\ archive'.whole = archive.whole /\ archive'.time = AtArchive
      BY <1>1, <2>1 DEF ArchiveRecord
    <2> QED BY <1>2, <1>4, <2>2, <2>3
  <1> QED BY <1>3, <1>4

\* The archive when tar has just opened it.
LEMMA Opened ==
  ASSUME MirrorTypeOK, TarOpens
  PROVE  /\ archive' \in ArchiveRecord
         /\ archive'.ver = source /\ ~archive'.whole /\ archive'.time = 4 * source - 2
  <1>1. archive' = [ver |-> source, whole |-> FALSE, time |-> 4 * source - 2]
    BY DEF MirrorTypeOK, TarOpens, BeforeArchive, SourceTime
  <1> QED BY <1>1 DEF MirrorTypeOK, ArchiveRecord

LEMMA MirrorType ==
  ASSUME MirrorTypeOK, MirrorNext PROVE MirrorTypeOK'
  <1>1. archive' \in ArchiveRecord
    <2>1. CASE TarOpens
      BY <2>1, Opened
    <2>2. CASE TarCloses \/ (Interrupted /\ script = "tar")
      BY <2>2, Closed
    <2>3. CASE archive' = archive
      BY <2>3 DEF MirrorTypeOK, ArchiveRecord
    <2> QED BY <2>1, <2>2, <2>3 DEF MirrorNext, Update, Scan, Interrupted
  <1>2. kind' \in {"f", "l"} /\ source' \in 1 .. MaxVersion
    BY DEF MirrorTypeOK, MirrorNext, Update, Scan, TarOpens, TarCloses, Interrupted
  <1>3. script' \in {"idle", "todo", "tar"}
    BY DEF MirrorTypeOK, MirrorNext, Update, Scan, TarOpens, TarCloses, Interrupted
  <1>4. upset' \in BOOLEAN
    <2>1. upset' \in {upset, FALSE, upset \/ script = "tar"}
      BY DEF MirrorNext, Update, Scan, TarOpens, TarCloses, Interrupted
    <2> QED BY <2>1 DEF MirrorTypeOK
  <1> QED BY <1>1, <1>2, <1>3, <1>4 DEF MirrorTypeOK, ArchiveRecord

\* An archive is there exactly if it has a version.
LEMMA Missing ==
  ASSUME MirrorTypeOK, MirrorInv PROVE archive = NoArchive <=> archive.ver = 0
  BY DEF MirrorTypeOK, MirrorInv, NoArchive

LEMMA MirrorStep ==
  ASSUME MirrorTypeOK, MirrorInv, MirrorNext PROVE MirrorInv'
  <1> DEFINE has == archive.ver # 0
  <1>1. /\ archive = NoArchive <=> ~has
        /\ archive.ver \in Int /\ archive.time \in Int /\ source \in Int /\ source >= 1
    BY Missing DEF MirrorTypeOK
  <1>2. /\ has => archive.ver \in 1 .. source /\ archive.time > 4 * archive.ver - 3
        /\ script = "tar" => has /\ (~upset => archive.ver = source)
        /\ script # "tar" /\ has /\ ~upset =>
             archive.whole /\ archive.time = 4 * archive.ver - 1
    BY <1>1 DEF MirrorInv, SourceTime
  <1> SUFFICES
        /\ archive' = NoArchive \/ /\ archive'.ver \in 1 .. source'
                                   /\ archive'.time > 4 * archive'.ver - 3
        /\ script' = "tar" => archive' # NoArchive /\ (~upset' => archive'.ver = source')
        /\ script' # "tar" /\ archive' # NoArchive /\ ~upset' =>
             archive'.whole /\ archive'.time = 4 * archive'.ver - 1
    <2>1. archive' \in ArchiveRecord
      BY MirrorType DEF MirrorTypeOK, ArchiveRecord
    <2> QED BY <2>1 DEF MirrorInv, SourceTime, ArchiveRecord
  <1>3. CASE Update
    <2>1. archive' = archive /\ script' = script /\ source' = source + 1
      BY <1>3 DEF Update
    <2>2. ~upset' => ~upset /\ script # "tar"
      BY <1>3 DEF Update
    <2> QED BY <1>1, <1>2, <2>1, <2>2
  <1>4. CASE Scan \/ (Interrupted /\ script # "tar")
    <2>1. archive' = archive /\ script' # "tar" /\ script # "tar" /\ source' = source
      BY <1>4 DEF Scan, Interrupted
    <2>2. ~upset' => ~upset
      BY <1>4 DEF Scan, Interrupted
    <2> QED BY <1>1, <1>2, <2>1, <2>2
  <1>5. CASE TarOpens
    <2>1. archive'.ver = source /\ archive'.time = 4 * source - 2
      BY <1>5, Opened
    <2>2. archive' # NoArchive
      BY <2>1, <1>1 DEF NoArchive
    <2>3. source' = source /\ script' = "tar"
      BY <1>5 DEF TarOpens
    <2> QED BY <1>1, <2>1, <2>2, <2>3
  <1>6. CASE TarCloses \/ (Interrupted /\ script = "tar")
    <2>1. /\ archive'.ver = archive.ver /\ archive'.time = 4 * source - 1
          /\ TarCloses => archive'.whole
      BY <1>6, Closed
    <2>2. script = "tar"
      BY <1>6 DEF TarCloses
    <2>3. archive' # NoArchive
      BY <2>1, <2>2, <1>1, <1>2 DEF NoArchive
    <2>4. source' = source /\ script' # "tar"
      BY <1>6 DEF TarCloses, Interrupted
    <2>5. ~upset' => TarCloses /\ ~upset
      BY <1>6 DEF TarCloses, Interrupted
    <2> QED BY <1>1, <1>2, <2>1, <2>2, <2>3, <2>4, <2>5
  <1> QED BY <1>3, <1>4, <1>5, <1>6 DEF MirrorNext

\* The archive only ever becomes that of a later version.
LEMMA MirrorAhead ==
  ASSUME MirrorTypeOK, MirrorInv, MirrorNext
  PROVE  archive'.ver \in Int /\ archive.ver <= archive'.ver
  <1>1. archive.ver \in Int /\ source \in Int /\ source >= 1 /\ archive.ver <= source
    BY Missing DEF MirrorTypeOK, MirrorInv
  <1>2. archive'.ver \in {archive.ver, source}
    BY Opened, Closed DEF MirrorNext, Update, Scan, Interrupted
  <1> QED BY <1>1, <1>2

LEMMA PreparedFollows ==
  ASSUME MirrorTypeOK, MirrorInv PROVE PreparedUnlessUpset
  BY DEF MirrorTypeOK, MirrorInv, PreparedUnlessUpset, Due, ListedTime, SourceTime

-----------------------------------------------------------------------------
(* The cache.                                                              *)

Fetches(t) == job[t].pc \in {"get", "extract", "fill"}
Extracts(t) == job[t].pc \in {"extract", "fill"}

\* A thread fetches what it was granted.
Grants ==
  \A t \in Fetcher :
    /\ ~At(t, "idle") => job[t].url \in Url
    /\ granted[t] = IF Fetches(t) THEN job[t].url ELSE NoUrl

\* What a thread extracts is whole, and the mirror has had it.
Archives ==
  \A t \in Fetcher :
    Extracts(t) => job[t].whole /\ job[t].ver \in 1 .. archive.ver

\* The same of the file in the cache; a whole one has the time of its source.
File ==
  /\ cache # NoFile => cache.body # "none" /\ cache.ver \in 1 .. archive.ver
  /\ cache.by # Nobody <=> cache.body = "growing"
  /\ cache.body = "whole" => cache.time = SourceTime(cache.ver)

\* There is something newer than what t extracts, in the cache or under way.
Behind(t) ==
  \/ cache.ver > job[t].ver
  \/ \E s \in Fetcher : Extracts(s) /\ job[s].ver > job[t].ver

\* Somebody may have overtaken t.
Exposed(t) ==
  \/ age[job[t].url] = Window
  \/ \E u \in Url \ {job[t].url} : age[u] # Ledger!Never

Overtaken == \A t \in Fetcher : Extracts(t) /\ Behind(t) => Exposed(t)

CacheInv == TypeOK /\ MirrorInv /\ Grants /\ Archives /\ File /\ WholeAtRest

-----------------------------------------------------------------------------
(* Types.                                                                  *)

\* The instants a write of the cache may fall on.
LEMMA NowType ==
  ASSUME MirrorTypeOK PROVE Now \in 0 .. 4 * MaxVersion
  BY DEF MirrorTypeOK, Now, AfterArchive, BeforeArchive, SourceTime

LEMMA TimesType ==
  ASSUME TypeOK PROVE Times \subseteq 0 .. 4 * MaxVersion
  BY NowType DEF TypeOK, Times

JobRecord == [pc : {"idle", "asked", "get", "extract", "fill"}, url : Url \cup {NoUrl},
              stamp : 0 .. 4 * MaxVersion, ver : 0 .. MaxVersion, whole : BOOLEAN]

CacheRecord == [body : {"none", "growing", "whole", "cut"}, ver : 0 .. MaxVersion,
                time : 0 .. 4 * MaxVersion, by : Fetcher \cup {Nobody}]

\* TypeOK by those names.
LEMMA Typed ==
  TypeOK <=> /\ MirrorTypeOK
             /\ cache \in CacheRecord
             /\ age \in [Url -> -1 .. Window]
             /\ granted \in [Fetcher -> Url \cup {NoUrl}]
             /\ job \in [Fetcher -> JobRecord]
             /\ kills \in 0 .. MaxKills
             /\ lost \in BOOLEAN
  BY DEF TypeOK, CacheRecord, JobRecord, Ledger!Never

LEMMA NoneType == NoFile \in CacheRecord /\ NoJob \in JobRecord
  BY DEF NoFile, NoJob, CacheRecord, JobRecord

LEMMA ExtractedType ==
  ASSUME NEW v \in 1 .. MaxVersion, NEW body \in {"whole", "cut"}
  PROVE  Extracted(v, body) \in CacheRecord
  BY DEF Extracted, MemberTime, SourceTime, CacheRecord

LEMMA LeaveType ==
  ASSUME TypeOK, NEW t \in Fetcher, Leave(t)
  PROVE  /\ job' \in [Fetcher -> JobRecord]
         /\ granted' \in [Fetcher -> Url \cup {NoUrl}]
         /\ age' = age
  BY Typed, NoneType DEF Leave, Ledger!Done

LEMMA GotoType ==
  ASSUME TypeOK, NEW t \in Fetcher, NEW l \in {"get", "fill"}, Goto(t, l)
  PROVE  job' \in [Fetcher -> JobRecord]
  <1>1. job \in [Fetcher -> JobRecord]
    BY Typed
  <1>2. [job[t] EXCEPT !.pc = l] \in JobRecord
    BY <1>1 DEF JobRecord
  <1>3. job' = [job EXCEPT ![t] = [job[t] EXCEPT !.pc = l]]
    BY DEF Goto
  <1> QED BY <1>1, <1>2, <1>3

\* A record of a thread with new values is such a record.
LEMMA Rewritten ==
  ASSUME NEW P, NEW U, NEW T, NEW V,
         NEW r \in [pc : P, url : U, stamp : T, ver : V, whole : BOOLEAN],
         NEW p \in P, NEW x \in T, NEW v \in V
  PROVE  [r EXCEPT !.pc = p, !.stamp = x, !.ver = v, !.whole = TRUE]
           \in [pc : P, url : U, stamp : T, ver : V, whole : BOOLEAN]
  OBVIOUS

\* The archive a thread takes.
Taken(t) == [job[t] EXCEPT !.pc = "extract", !.stamp = 0, !.ver = archive.ver, !.whole = TRUE]

LEMMA TakenType ==
  ASSUME TypeOK, NEW t \in Fetcher
  PROVE  /\ Taken(t) \in JobRecord
         /\ Taken(t).pc = "extract" /\ Taken(t).whole /\ Taken(t).ver = archive.ver
         /\ Taken(t).url = job[t].url
  <1>1. job[t] \in JobRecord /\ archive.ver \in 0 .. MaxVersion
    BY Typed DEF MirrorTypeOK
  <1>2. Taken(t) \in JobRecord
    <2>1. 0 \in 0 .. 4 * MaxVersion
      OBVIOUS
    <2> QED BY <1>1, <2>1, Rewritten DEF Taken, JobRecord
  <1>3. Taken(t).whole = TRUE
    BY <1>1 DEF Taken, JobRecord
  <1>4. /\ Taken(t).pc = "extract" /\ Taken(t).ver = archive.ver
        /\ Taken(t).url = job[t].url
    BY <1>1 DEF Taken, JobRecord
  <1> QED BY <1>2, <1>3, <1>4

\* tar tests the archive: it is taken whole, or not at all.
LEMMA HaveCases ==
  ASSUME TypeOK, NEW t \in Fetcher, NEW w \in BOOLEAN, HaveBody(t, w)
  PROVE  \/ job' = [job EXCEPT ![t] = Taken(t)] /\ UNCHANGED table
         \/ Leave(t)
  <1>1. CASE w
    <2>1. job' = [job EXCEPT ![t] = [job[t] EXCEPT !.pc = "extract", !.stamp = 0,
                                       !.ver = archive.ver, !.whole = w]]
      BY <1>1 DEF HaveBody, Tests
    <2>2. w = TRUE
      BY <1>1
    <2>3. UNCHANGED table
      BY <1>1 DEF HaveBody, Tests
    <2> QED BY <2>1, <2>2, <2>3 DEF Taken
  <1>2. CASE ~w
    BY <1>2 DEF HaveBody, Tests
  <1> QED BY <1>1, <1>2

\* What the steps of a thread do to the jobs.
LEMMA Steps ==
  ASSUME TypeOK, NEW t \in Fetcher, Answer(t)
  PROVE  \/ Duplicate(t)
         \/ Granted(t)
         \/ NotModified(t) \/ FetchFails(t)
         \/ /\ At(t, "get") /\ archive # NoArchive
            /\ Leave(t) \/ (job' = [job EXCEPT ![t] = Taken(t)] /\ UNCHANGED table)
            /\ UNCHANGED <<mirror, cache, kills, lost>>
         \/ TarRemoves(t)
         \/ TarCreates(t)
         \/ /\ Finish(t, IF job[t].whole THEN "whole" ELSE "cut")
            /\ UNCHANGED lost
         \/ Finish(t, "cut") /\ lost' = TRUE
  <1>1. ASSUME NEW w \in BOOLEAN, HaveBody(t, w)
        PROVE  /\ At(t, "get") /\ archive # NoArchive
               /\ Leave(t) \/ (job' = [job EXCEPT ![t] = Taken(t)] /\ UNCHANGED table)
               /\ UNCHANGED <<mirror, cache, kills, lost>>
    <2>1. Leave(t) \/ (job' = [job EXCEPT ![t] = Taken(t)] /\ UNCHANGED table)
      BY <1>1, HaveCases
    <2> QED BY <1>1, <2>1 DEF HaveBody
  <1>2. archive.whole \in BOOLEAN
    BY DEF TypeOK, MirrorTypeOK
  <1> QED BY <1>1, <1>2 DEF Answer, FetchBody, FetchShort, TarEnds, TarFails

LEMMA AnswerType ==
  ASSUME CacheInv, NEW t \in Fetcher, Answer(t) PROVE TypeOK'
  <1>0. TypeOK
    BY DEF CacheInv
  <1>a. /\ MirrorTypeOK /\ cache \in CacheRecord /\ age \in [Url -> -1 .. Window]
        /\ granted \in [Fetcher -> Url \cup {NoUrl}]
        /\ job \in [Fetcher -> JobRecord] /\ kills \in 0 .. MaxKills /\ lost \in BOOLEAN
    BY <1>0, Typed
  <1> DEFINE Typed2 == /\ MirrorTypeOK'
             /\ cache' \in CacheRecord
             /\ age' \in [Url -> -1 .. Window]
             /\ granted' \in [Fetcher -> Url \cup {NoUrl}]
             /\ job' \in [Fetcher -> JobRecord]
             /\ kills' \in 0 .. MaxKills
             /\ lost' \in BOOLEAN
  <1> SUFFICES Typed2
    BY DEF TypeOK, MirrorTypeOK, CacheRecord, JobRecord, Ledger!Never
  <1>b. UNCHANGED mirror => MirrorTypeOK'
    BY <1>a DEF mirror, MirrorTypeOK
  <1>1. CASE Duplicate(t)
    BY <1>1, <1>a, <1>b, NoneType DEF Duplicate, table
  <1>2. CASE Granted(t)
    <2>1. job[t].url \in Url
      BY <1>2, <1>0 DEF Granted, CacheInv, Grants, At
    <2>2. job' \in [Fetcher -> JobRecord]
      BY <1>2, <1>0, GotoType DEF Granted
    <2>3. age' \in [Url -> -1 .. Window]
      BY <1>2, <2>1, <1>a DEF Granted, Ledger!Never
    <2>4. granted' \in [Fetcher -> Url \cup {NoUrl}]
      BY <1>2, <2>1, <1>a DEF Granted
    <2> QED BY <1>2, <2>2, <2>3, <2>4, <1>a, <1>b DEF Granted
  <1>3. CASE NotModified(t) \/ FetchFails(t)
    BY <1>0, <1>3, <1>a, <1>b, LeaveType DEF NotModified, FetchFails
  <1>4. CASE /\ At(t, "get") /\ archive # NoArchive
             /\ Leave(t) \/ (job' = [job EXCEPT ![t] = Taken(t)] /\ UNCHANGED table)
             /\ UNCHANGED <<mirror, cache, kills, lost>>
    <2>1. Leave(t) => Typed2
      BY <1>0, <1>4, <1>a, <1>b, LeaveType
    <2>2. Taken(t) \in JobRecord
      BY <1>0, TakenType
    <2>3. job' = [job EXCEPT ![t] = Taken(t)] /\ UNCHANGED table => Typed2
      BY <1>4, <2>2, <1>a, <1>b DEF table
    <2> QED BY <1>4, <2>1, <2>3
  <1>5. CASE TarRemoves(t)
    BY <1>5, <1>a, <1>b, NoneType DEF TarRemoves, table
  <1>6. CASE TarCreates(t)
    <2>1. job' \in [Fetcher -> JobRecord]
      BY <1>6, <1>0, GotoType DEF TarCreates
    <2>2. job[t].ver \in 0 .. MaxVersion /\ Now \in 0 .. 4 * MaxVersion
      BY <1>a, NowType DEF JobRecord
    <2>3. cache' \in CacheRecord
      BY <1>6, <2>2 DEF TarCreates, CacheRecord
    <2> QED BY <1>6, <2>1, <2>3, <1>a, <1>b DEF TarCreates, table
  <1>7. ASSUME NEW body \in {"whole", "cut"}, Finish(t, body), lost' \in BOOLEAN
        PROVE  Typed2
    <2>1. job[t].ver \in 1 .. MaxVersion
      BY <1>7, <1>a DEF Finish, At, CacheInv, Archives, Extracts, MirrorTypeOK
    <2>2. Extracted(job[t].ver, body) \in CacheRecord
      BY <2>1, ExtractedType
    <2>3. cache' \in CacheRecord
      BY <1>7, <2>2, <1>a DEF Finish
    <2> QED BY <1>0, <1>7, <2>3, <1>a, <1>b, LeaveType DEF Finish
  <1>8. (IF job[t].whole THEN "whole" ELSE "cut") \in {"whole", "cut"}
    OBVIOUS
  <1>9. UNCHANGED lost \/ lost' = TRUE => lost' \in BOOLEAN
    BY <1>a
  <1> QED BY <1>0, <1>1, <1>2, <1>3, <1>4, <1>5, <1>6, <1>7, <1>8, <1>9, Steps

\* What a client that looks makes of the thread that serves it.
LEMMA Looks ==
  ASSUME TypeOK, NEW t \in Fetcher, Look(t)
  PROVE  /\ job' \in [Fetcher -> JobRecord]
         /\ \E k \in JobRecord :
              k.pc = "asked" /\ k.url \in Url /\ job' = [job EXCEPT ![t] = k]
  <1>1. PICK u \in Url, x \in Times :
          job' = [job EXCEPT ![t] = [job[t] EXCEPT !.pc = "asked", !.url = u, !.stamp = x]]
    BY DEF Look
  <1> DEFINE k == [job[t] EXCEPT !.pc = "asked", !.url = u, !.stamp = x]
  <1>2. job \in [Fetcher -> JobRecord] /\ x \in 0 .. 4 * MaxVersion
    BY Typed, TimesType
  <1>3. k \in JobRecord /\ k.pc = "asked" /\ k.url = u
    BY <1>2 DEF JobRecord
  <1>4. job' = [job EXCEPT ![t] = k]
    BY <1>1
  <1> HIDE DEF k
  <1> QED BY <1>2, <1>3, <1>4

\* What an end of the daemon makes of the file.
LEMMA KilledCache ==
  ASSUME TypeOK, Killed
  PROVE  /\ cache' \in CacheRecord
         /\ cache.body # "growing" => cache' = cache
         /\ cache.body = "growing" =>
              cache'.body = "cut" /\ cache'.by = Nobody /\ cache'.ver = cache.ver
  <1>1. PICK m \in Times : cache' = IF cache.body = "growing"
                THEN [cache EXCEPT !.body = "cut", !.time = m, !.by = Nobody]
                ELSE cache
    BY DEF Killed
  <1>2. cache \in CacheRecord /\ m \in 0 .. 4 * MaxVersion
    BY Typed, TimesType
  <1>3. CASE cache.body = "growing"
    <2>1. cache' = [cache EXCEPT !.body = "cut", !.time = m, !.by = Nobody]
      BY <1>1, <1>3
    <2> QED BY <1>2, <1>3, <2>1 DEF CacheRecord
  <1> QED BY <1>1, <1>2, <1>3

LEMMA NextType == ASSUME CacheInv, [Next]_vars PROVE TypeOK'
  <1>0. TypeOK
    BY DEF CacheInv
  <1>a. /\ MirrorTypeOK /\ cache \in CacheRecord /\ age \in [Url -> -1 .. Window]
        /\ granted \in [Fetcher -> Url \cup {NoUrl}]
        /\ job \in [Fetcher -> JobRecord] /\ kills \in 0 .. MaxKills /\ lost \in BOOLEAN
    BY <1>0, Typed
  <1> DEFINE Typed2 == /\ MirrorTypeOK'
             /\ cache' \in CacheRecord
             /\ age' \in [Url -> -1 .. Window]
             /\ granted' \in [Fetcher -> Url \cup {NoUrl}]
             /\ job' \in [Fetcher -> JobRecord]
             /\ kills' \in 0 .. MaxKills
             /\ lost' \in BOOLEAN
  <1>b. Typed2 => TypeOK'
    BY DEF TypeOK, MirrorTypeOK, CacheRecord, JobRecord, Ledger!Never
  <1>c. UNCHANGED mirror => MirrorTypeOK'
    BY <1>a DEF mirror, MirrorTypeOK
  <1>1. CASE UNCHANGED vars
    <2> QED BY <1>1, <1>a, <1>b, <1>c DEF vars, table
  <1>2. CASE Mirror
    BY <1>2, <1>a, <1>b, MirrorType DEF Mirror, table
  <1>3. ASSUME NEW t \in Fetcher, Look(t) PROVE TypeOK'
    BY <1>0, <1>3, <1>a, <1>b, <1>c, Looks DEF Look, table
  <1>4. CASE Killed
    <2>1. /\ age' \in [Url -> -1 .. Window]
          /\ granted' \in [Fetcher -> Url \cup {NoUrl}]
      BY <1>4 DEF Killed, Ledger!Reset, Ledger!Never
    <2>2. job' \in [Fetcher -> JobRecord] /\ kills' \in 0 .. MaxKills /\ lost' \in BOOLEAN
      BY <1>4, <1>a, NoneType DEF Killed
    <2> QED BY <1>0, <1>4, <1>b, <1>c, <2>1, <2>2, KilledCache DEF Killed
  <1>5. CASE Removed
    BY <1>5, <1>a, <1>b, <1>c, NoneType DEF Removed, table
  <1>6. CASE Tick
    <2>1. age' \in [Url -> -1 .. Window] /\ granted' = granted
      BY <1>6, <1>a DEF Tick, Pass, Ledger!Pass, Ledger!Never
    <2> QED BY <1>6, <2>1, <1>a, <1>b, <1>c DEF Tick
  <1> QED BY <1>1, <1>2, <1>3, <1>4, <1>5, <1>6, AnswerType DEF Next

-----------------------------------------------------------------------------
(* The invariant.                                                          *)

\* What each step of a thread leaves alone, and what becomes of its own job.
LEMMA Jobs ==
  ASSUME CacheInv, NEW t \in Fetcher, Look(t) \/ Answer(t)
  PROVE  /\ UNCHANGED mirror
         /\ \A s \in Fetcher \ {t} : job'[s] = job[s] /\ granted'[s] = granted[s]
         /\ \/ ~At(t, "idle")' /\ ~Fetches(t)' /\ job'[t].url \in Url
                /\ ~Fetches(t) /\ granted'[t] = granted[t]
            \/ job'[t] = NoJob /\ granted'[t] = NoUrl
            \/ /\ Fetches(t)' /\ ~Extracts(t)' /\ job'[t].url \in Url
               /\ granted'[t] = job'[t].url
            \/ At(t, "get") /\ job'[t] = Taken(t) /\ archive # NoArchive /\ UNCHANGED table
            \/ /\ Extracts(t) /\ Extracts(t)' /\ job'[t].url = job[t].url
               /\ job'[t].ver = job[t].ver /\ job'[t].whole = job[t].whole
               /\ UNCHANGED table
  <1>0. TypeOK /\ job \in [Fetcher -> JobRecord] /\ granted \in [Fetcher -> Url \cup {NoUrl}]
    BY Typed DEF CacheInv
  <1>1. CASE Look(t)
    <2>1. PICK k \in JobRecord :
            k.pc = "asked" /\ k.url \in Url /\ job' = [job EXCEPT ![t] = k]
      BY <1>0, <1>1, Looks
    <2> QED BY <1>0, <1>1, <2>1 DEF Look, At, Fetches, table
  <1>2. CASE Leave(t) /\ UNCHANGED mirror
    BY <1>0, <1>2 DEF Leave, Ledger!Done
  <1>3. CASE Duplicate(t)
    <2>1. granted[t] = NoUrl
      BY <1>3 DEF Duplicate, CacheInv, Grants, At, Fetches
    <2> QED BY <1>0, <1>3, <2>1 DEF Duplicate, table
  <1>4. CASE Granted(t)
    <2>1. job[t].url \in Url
      BY <1>4 DEF Granted, CacheInv, Grants, At
    <2>2. job' = [job EXCEPT ![t] = [job[t] EXCEPT !.pc = "get"]]
      BY <1>4 DEF Granted, Goto
    <2>3. [job[t] EXCEPT !.pc = "get"].pc = "get" /\ [job[t] EXCEPT !.pc = "get"].url = job[t].url
      BY <1>0 DEF JobRecord
    <2>4. granted' = [granted EXCEPT ![t] = job[t].url] /\ UNCHANGED mirror
      BY <1>4 DEF Granted
    <2>5. job'[t].pc = "get" /\ job'[t].url = job[t].url
      BY <1>0, <2>2, <2>3
    <2> QED BY <1>0, <2>1, <2>2, <2>4, <2>5 DEF Fetches, Extracts
  <1>5. CASE /\ At(t, "get") /\ archive # NoArchive /\ UNCHANGED mirror
             /\ job' = [job EXCEPT ![t] = Taken(t)] /\ UNCHANGED table
    BY <1>0, <1>5 DEF table
  <1>6. CASE TarRemoves(t)
    BY <1>0, <1>6 DEF TarRemoves, table, Extracts, At
  <1>7. CASE TarCreates(t)
    <2>1. job' = [job EXCEPT ![t] = [job[t] EXCEPT !.pc = "fill"]]
      BY <1>7 DEF TarCreates, Goto
    <2> DEFINE k == [job[t] EXCEPT !.pc = "fill"]
    <2>2. k.pc = "fill" /\ k.url = job[t].url /\ k.ver = job[t].ver /\ k.whole = job[t].whole
      BY <1>0 DEF JobRecord
    <2>3. job'[t] = k
      BY <1>0, <2>1
    <2>4. \A s \in Fetcher \ {t} : job'[s] = job[s]
      BY <1>0, <2>1
    <2>5. UNCHANGED mirror /\ UNCHANGED table /\ Extracts(t)
      BY <1>7 DEF TarCreates, At, Extracts
    <2> HIDE DEF k
    <2> QED BY <2>2, <2>3, <2>4, <2>5 DEF Extracts, table
  <1> QED
    BY <1>0, <1>1, <1>2, <1>3, <1>4, <1>5, <1>6, <1>7, Steps
    DEF NotModified, FetchFails, Finish

\* The mirror keeps what the threads and the cache hold a version of.
LEMMA Ahead ==
  ASSUME CacheInv, [Next]_vars
  PROVE  /\ archive.ver \in Int /\ archive'.ver \in Int /\ archive.ver <= archive'.ver
         /\ \A v \in 1 .. archive.ver : v \in 1 .. archive'.ver
  <1>1. archive.ver \in Int
    BY DEF CacheInv, TypeOK, MirrorTypeOK
  <1>2. Mirror => archive'.ver \in Int /\ archive.ver <= archive'.ver
    BY MirrorAhead DEF CacheInv, TypeOK, Mirror
  <1>3. ~Mirror => archive' = archive
    BY Jobs DEF Next, vars, mirror, Killed, Removed, Tick
  <1> QED BY <1>1, <1>2, <1>3

LEMMA MirrorKept == ASSUME CacheInv, [Next]_vars PROVE MirrorInv'
  <1>1. CASE Mirror
    BY <1>1, MirrorStep DEF CacheInv, TypeOK, Mirror
  <1>2. CASE ~Mirror
    <2>1. UNCHANGED mirror
      BY <1>2, Jobs DEF Next, vars, Killed, Removed, Tick
    <2> QED BY <2>1 DEF CacheInv, MirrorInv, mirror
  <1> QED BY <1>1, <1>2

LEMMA GrantsKept == ASSUME CacheInv, [Next]_vars PROVE Grants'
  <1>1. ASSUME NEW t \in Fetcher, Look(t) \/ Answer(t) PROVE Grants'
    <2> SUFFICES ASSUME NEW s \in Fetcher
                 PROVE  /\ ~At(s, "idle")' => job'[s].url \in Url
                        /\ granted'[s] = IF Fetches(s)' THEN job'[s].url ELSE NoUrl
      BY DEF Grants
    <2>1. CASE s # t
      BY <1>1, <2>1, Jobs DEF CacheInv, Grants, At, Fetches
    <2>2. CASE s = t
      <3>1. Taken(t).pc = "extract" /\ Taken(t).url = job[t].url
        BY TakenType DEF CacheInv
      <3> QED BY <1>1, <2>2, <3>1, Jobs
              DEF CacheInv, Grants, At, Fetches, Extracts, NoJob, table
    <2> QED BY <2>1, <2>2
  <1>2. CASE Killed
    BY <1>2 DEF Killed, Ledger!Reset, Grants, At, Fetches, NoJob
  <1>3. CASE granted' = granted /\ job' = job
    BY <1>3 DEF CacheInv, Grants, At, Fetches
  <1> QED BY <1>1, <1>2, <1>3
          DEF Next, vars, table, Mirror, Removed, Tick, Pass, Ledger!Pass

LEMMA ArchivesKept == ASSUME CacheInv, [Next]_vars PROVE Archives'
  <1>1. ASSUME NEW t \in Fetcher, Look(t) \/ Answer(t) PROVE Archives'
    <2> SUFFICES ASSUME NEW s \in Fetcher, Extracts(s)'
                 PROVE  job'[s].whole /\ job'[s].ver \in 1 .. archive'.ver
      BY DEF Archives
    <2>1. CASE s # t
      BY <1>1, <2>1, Jobs, Ahead DEF Next, CacheInv, Archives, Extracts
    <2>2. CASE s = t
      <3>1. Taken(t).whole /\ Taken(t).ver = archive.ver
        BY TakenType DEF CacheInv
      <3>2. archive # NoArchive => archive.ver \in 1 .. archive.ver
        BY Missing DEF CacheInv, TypeOK, MirrorTypeOK
      <3> QED BY <1>1, <2>2, <3>1, <3>2, Jobs, Ahead
              DEF Next, CacheInv, Archives, Fetches, Extracts, At, NoJob
    <2> QED BY <2>1, <2>2
  <1>2. CASE Killed
    BY <1>2 DEF Killed, Archives, Extracts, NoJob
  <1>3. CASE job' = job
    BY <1>3, Ahead DEF CacheInv, Archives, Extracts
  <1> QED BY <1>1, <1>2, <1>3 DEF Next, vars, Mirror, Removed, Tick

\* The steps that touch the cache.
LEMMA Writes ==
  ASSUME CacheInv, [Next]_vars
  PROVE  \/ cache' = cache
         \/ cache' = NoFile
         \/ \E t \in Fetcher : TarCreates(t)
         \/ \E t \in Fetcher, body \in {"whole", "cut"} :
              /\ Finish(t, body) /\ cache.by = t
              /\ cache' = Extracted(job[t].ver, body)
              /\ body = "cut" => lost'
         \/ Killed /\ cache.body = "growing"
  <1>1. ASSUME NEW t \in Fetcher, Answer(t)
        PROVE  \/ cache' = cache
               \/ cache' = NoFile
               \/ TarCreates(t)
               \/ \E body \in {"whole", "cut"} :
                    /\ Finish(t, body) /\ cache.by = t
                    /\ cache' = Extracted(job[t].ver, body)
                    /\ body = "cut" => lost'
    <2>1. TarEnds(t) => Finish(t, "whole")
      BY DEF TarEnds, Finish, CacheInv, Archives, Extracts, At
    <2>2. TarFails(t) => Finish(t, "cut") /\ lost'
      BY DEF TarFails
    <2>3. ASSUME NEW body, Finish(t, body)
          PROVE cache' = cache \/ (cache.by = t /\ cache' = Extracted(job[t].ver, body))
      BY <2>3 DEF Finish
    <2>4. TarEnds(t) \/ TarFails(t) \/ TarCreates(t) \/ cache' = cache \/ cache' = NoFile
      BY <1>1 DEF Answer, Duplicate, Granted, NotModified, FetchFails, FetchBody, FetchShort,
           HaveBody, TarRemoves
    <2> QED BY <2>1, <2>2, <2>3, <2>4
  <1>2. Killed /\ cache.body # "growing" => cache' = cache
    BY KilledCache DEF CacheInv
  <1> QED BY <1>1, <1>2 DEF Next, vars, Mirror, Look, Removed, Tick

LEMMA FileKept == ASSUME CacheInv, [Next]_vars PROVE File'
  <1>0. cache \in CacheRecord /\ TypeOK
    BY Typed DEF CacheInv
  <1>1. CASE cache' = cache
    BY <1>1, Ahead DEF CacheInv, File, NoFile
  <1>2. CASE cache' = NoFile
    BY <1>2 DEF File, NoFile
  <1>3. ASSUME NEW t \in Fetcher, TarCreates(t) PROVE File'
    <2>1. cache' = [body |-> "growing", ver |-> job[t].ver, time |-> Now, by |-> t]
      BY <1>3 DEF TarCreates
    <2>2. job[t].ver \in 1 .. archive'.ver
      BY <1>3, Ahead DEF CacheInv, Archives, TarCreates, At, Extracts
    <2> QED BY <2>1, <2>2 DEF File
  <1>4. ASSUME NEW t \in Fetcher, NEW body \in {"whole", "cut"}, Finish(t, body),
               cache' = Extracted(job[t].ver, body)
        PROVE  File'
    <2>1. cache' = [body |-> body, ver |-> job[t].ver, time |-> SourceTime(job[t].ver),
                    by |-> Nobody]
      BY <1>4 DEF Extracted, MemberTime
    <2>2. job[t].ver \in 1 .. archive'.ver
      BY <1>4, Ahead DEF CacheInv, Archives, Finish, At, Extracts
    <2>3. cache'.body = body /\ cache'.ver = job[t].ver /\ cache'.by = Nobody
          /\ cache'.time = SourceTime(job[t].ver)
      BY <2>1
    <2> QED BY <2>2, <2>3 DEF File
  <1>5. CASE Killed /\ cache.body = "growing"
    <2>1. cache'.body = "cut" /\ cache'.by = Nobody /\ cache'.ver = cache.ver
      BY <1>0, <1>5, KilledCache
    <2>2. cache # NoFile
      BY <1>5 DEF NoFile
    <2> QED BY <2>1, <2>2, Ahead DEF CacheInv, File
  <1> QED BY <1>1, <1>2, <1>3, <1>4, <1>5, Writes

\* A thread whose tar writes ends with tar.
LEMMA Filling ==
  ASSUME NEW t \in Fetcher, Look(t) \/ Answer(t), At(t, "fill")
  PROVE  \E body : Finish(t, body)
  BY DEF Look, Answer, Duplicate, Granted, NotModified, FetchFails, FetchBody, FetchShort,
         HaveBody, TarRemoves, TarCreates, TarEnds, TarFails, At

\* The tar that writes the file goes on until it is done with it.
LEMMA WriterStays ==
  ASSUME CacheInv, [Next]_vars, cache' = cache, cache.body = "growing"
  PROVE  job'[cache.by] = job[cache.by]
  <1>0. /\ TypeOK /\ cache.by \in Fetcher \cup {Nobody} /\ cache.by # Nobody
        /\ At(cache.by, "fill")
    BY Typed DEF CacheInv, CacheRecord, File, WholeAtRest
  <1>1. ASSUME NEW t \in Fetcher, Look(t) \/ Answer(t) PROVE job'[cache.by] = job[cache.by]
    <2>1. t # cache.by
      <3> SUFFICES ASSUME t = cache.by PROVE FALSE
        OBVIOUS
      <3>1. PICK body : Finish(t, body)
        BY <1>0, <1>1, Filling
      <3>2. cache'.by = Nobody
        BY <3>1 DEF Finish, Extracted
      <3> QED BY <1>0, <3>2
    <2> QED BY <1>0, <1>1, <2>1, Jobs
  <1>2. ~Killed
    <2>1. Killed => cache'.body = "cut"
      BY <1>0, KilledCache
    <2> QED BY <2>1
  <1> QED BY <1>1, <1>2 DEF Next, vars, Mirror, Removed, Tick

LEMMA WholeKept == ASSUME CacheInv, [Next]_vars PROVE WholeAtRest'
  <1>0. TypeOK /\ job \in [Fetcher -> JobRecord]
    BY Typed DEF CacheInv
  <1>a. lost => lost'
    BY DEF Next, vars, Mirror, Look, Answer, Duplicate, Granted, NotModified, FetchBody,
           FetchShort, FetchFails, HaveBody, TarRemoves, TarCreates, TarEnds, TarFails,
           Killed, Removed, Tick
  <1>1. CASE cache' = cache
    BY <1>1, <1>a, WriterStays DEF CacheInv, WholeAtRest, At
  <1>2. CASE cache' = NoFile
    BY <1>2 DEF WholeAtRest, NoFile
  <1>3. ASSUME NEW t \in Fetcher, TarCreates(t) PROVE WholeAtRest'
    <2>1. cache' = [body |-> "growing", ver |-> job[t].ver, time |-> Now, by |-> t]
      BY <1>3 DEF TarCreates
    <2>2. job' = [job EXCEPT ![t] = [job[t] EXCEPT !.pc = "fill"]]
      BY <1>3 DEF TarCreates, Goto
    <2>3. job'[t] = [job[t] EXCEPT !.pc = "fill"]
      BY <1>0, <2>2
    <2>4. job'[t].pc = "fill" /\ job'[t].ver = job[t].ver
      BY <1>0, <2>3 DEF JobRecord
    <2> QED BY <2>1, <2>4 DEF WholeAtRest, At
  <1>4. ASSUME NEW t \in Fetcher, NEW body \in {"whole", "cut"}, body = "cut" => lost',
               cache' = Extracted(job[t].ver, body)
        PROVE  WholeAtRest'
    BY <1>4 DEF WholeAtRest, Extracted
  <1>5. CASE Killed /\ cache.body = "growing"
    <2>1. cache'.body = "cut" /\ lost'
      BY <1>0, <1>5, KilledCache DEF Killed
    <2> QED BY <2>1 DEF WholeAtRest
  <1> QED BY <1>1, <1>2, <1>3, <1>4, <1>5, Writes

LEMMA CacheInit == Init => CacheInv
  <1> SUFFICES ASSUME Init PROVE CacheInv
    OBVIOUS
  <1>1. TypeOK
    <2>1. MirrorTypeOK
      <3>1. NoArchive \in ArchiveRecord
        BY DEF NoArchive, ArchiveRecord
      <3>2. upset \in BOOLEAN
        BY DEF Init, MirrorInit
      <3>3. source \in 1 .. MaxVersion /\ archive = NoArchive
        BY DEF Init, MirrorInit
      <3>4. kind \in {"f", "l"} /\ script \in {"idle", "todo", "tar"}
        BY DEF Init, MirrorInit
      <3> QED BY <3>1, <3>2, <3>3, <3>4 DEF MirrorTypeOK, ArchiveRecord
    <2>2. cache \in CacheRecord /\ job \in [Fetcher -> JobRecord]
      BY NoneType DEF Init
    <2>3. age \in [Url -> -1 .. Window] /\ granted \in [Fetcher -> Url \cup {NoUrl}]
      BY DEF Init, Ledger!Init, Ledger!Never
    <2>4. kills \in 0 .. MaxKills
      BY DEF Init
    <2>5. lost \in BOOLEAN
      BY DEF Init
    <2> QED BY <2>1, <2>2, <2>3, <2>4, <2>5, Typed
  <1>2. MirrorInv
    BY DEF Init, MirrorInit, MirrorInv
  <1>3. Grants /\ Archives
    BY DEF Init, Ledger!Init, Grants, Archives, At, Fetches, Extracts, NoJob
  <1>4. File /\ WholeAtRest
    BY DEF Init, File, WholeAtRest, NoFile
  <1> QED BY <1>1, <1>2, <1>3, <1>4 DEF CacheInv

LEMMA CacheStep == ASSUME CacheInv, [Next]_vars PROVE CacheInv'
  BY NextType, MirrorKept, GrantsKept, ArchivesKept, FileKept, WholeKept DEF CacheInv

LEMMA CacheAlways == Spec => []CacheInv
  BY CacheInit, CacheStep, PTL DEF Spec

\* Every variable has its type: no time, version or age leaves its range.
THEOREM TypeCorrect == Spec => []TypeOK
  <1>1. CacheInv => TypeOK
    BY DEF CacheInv
  <1> QED BY <1>1, CacheAlways, PTL

\* A name the script leaves alone has a whole archive of the present contents,
\* but for what upset it (clr_debug_prepare:113-130).
THEOREM PreparedHolds == Spec => []PreparedUnlessUpset
  <1>1. CacheInv => PreparedUnlessUpset
    BY PreparedFollows DEF CacheInv, TypeOK
  <1> QED BY <1>1, CacheAlways, PTL

\* What is in the cache is whole, or being written by a tar that runs, or was cut
\* off by an end of the daemon or a full disk - never by a bad archive
\* ("test extraction first", server.c:323).
THEOREM WholeHolds == Spec => []WholeAtRest
  <1>1. CacheInv => WholeAtRest
    BY DEF CacheInv
  <1> QED BY <1>1, CacheAlways, PTL

\* A whole file in the cache is older than the archive, so that who looks at it
\* and asks is never answered 304 (server.c:275-277).
THEOREM OlderHolds == Spec => []WholeIsOlder
  <1>1. CacheInv => WholeIsOlder
    <2> SUFFICES ASSUME CacheInv, cache.body = "whole" PROVE archive.time > cache.time
      BY DEF WholeIsOlder
    <2>1. /\ archive.ver \in Int /\ archive.time \in Int
          /\ cache.ver \in 1 .. archive.ver /\ cache.time = 4 * cache.ver - 3
      BY DEF CacheInv, TypeOK, MirrorTypeOK, File, NoFile, SourceTime
    <2>2. archive.time > 4 * archive.ver - 3
      BY <2>1, Missing DEF CacheInv, TypeOK, MirrorInv, SourceTime
    <2> QED BY <2>1, <2>2
  <1> QED BY <1>1, CacheAlways, PTL

-----------------------------------------------------------------------------
(* The ledger.                                                             *)

Promise == INSTANCE LedgerProofs WITH Worker <- Fetcher

LEMMA LedgerSteps ==
  ASSUME CacheInv, [Next]_vars PROVE [Promise!Next]_Promise!ledger
  <1> USE DEF Promise!ledger
  <1>1. ASSUME NEW t \in Fetcher, Leave(t) PROVE Promise!Next
    BY <1>1 DEF Leave, Ledger!Done, Promise!Next, Promise!Done
  <1>2. ASSUME NEW t \in Fetcher, Granted(t) PROVE Promise!Next
    <2>1. job[t].url \in Url /\ granted[t] = NoUrl
      BY <1>2 DEF Granted, At, CacheInv, Grants, Fetches
    <2>2. Promise!Grant(t, job[t].url)
      BY <1>2, <2>1 DEF Granted, May, Ledger!Open, Ledger!Never,
         Promise!Grant, Promise!Open, Promise!Never
    <2> QED BY <2>1, <2>2 DEF Promise!Next
  <1>3. ASSUME NEW t \in Fetcher, Answer(t) PROVE [Promise!Next]_Promise!ledger
    BY <1>1, <1>2, <1>3, Steps
       DEF CacheInv, Duplicate, NotModified, FetchFails, TarRemoves, TarCreates, Finish, table
  <1>4. Killed => Promise!Next
    BY DEF Killed, Ledger!Reset, Ledger!Never, Promise!Next, Promise!Reset, Promise!Never
  <1>5. Tick => Promise!Next
    BY DEF Tick, Pass, Ledger!Pass, Ledger!Never, Promise!Next, Promise!Pass, Promise!Never
  <1> QED BY <1>3, <1>4, <1>5 DEF Next, vars, table, Mirror, Look, Removed

\* The threads of CacheFill ask, fetch, end and are ended as the workers of the
\* ledger are, so what the ledger keeps, they keep (avoid_dupes, server.c:75-100).
THEOREM ImplementsLedger == Spec => Promise!Spec
  <1>1. Init => Promise!Init
    BY DEF Init, Ledger!Init, Ledger!Never, Promise!Init, Promise!Never
  <1>2. CacheInv /\ [Next]_vars => [Promise!Next]_Promise!ledger
    BY LedgerSteps
  <1> QED BY <1>1, <1>2, CacheAlways, PTL DEF Spec, Promise!Spec

\* Two threads have the same URL only after its window.
LEMMA LedgerKept == Spec => []Promise!LedgerInv
  <1>1. Promise!Sizes
    BY DEF Promise!Sizes
  <1> QED BY <1>1, ImplementsLedger, Promise!LedgerSafe

-----------------------------------------------------------------------------
(* Threads that overtake each other.                                       *)

\* As long as the daemon runs, an entry that is there stays, and one that has
\* outlived the window has.
LEMMA EntriesStay ==
  ASSUME CacheInv, [Next]_vars, ~Killed
  PROVE  \A u \in Url : /\ age[u] # Ledger!Never => age'[u] # Ledger!Never
                        /\ age[u] = Window => age'[u] = Window
  <1>0. age \in [Url -> -1 .. Window]
    BY Typed DEF CacheInv
  <1>1. CASE age' = age
    BY <1>1
  <1>2. CASE \E t \in Fetcher : Granted(t)
    BY <1>0, <1>2 DEF Granted, Ledger!Never
  <1>3. CASE Tick
    BY <1>0, <1>3 DEF Tick, Pass, Ledger!Pass, Ledger!Never
  <1>4. ASSUME NEW t \in Fetcher, Answer(t), ~Granted(t) PROVE age' = age
    BY <1>4, Steps, LeaveType
       DEF CacheInv, Duplicate, NotModified, FetchFails, TarRemoves, TarCreates, Finish, table
  <1> QED BY <1>1, <1>2, <1>3, <1>4 DEF Next, vars, table, Mirror, Look, Removed

\* How a thread comes to extract.
LEMMA Begins ==
  ASSUME CacheInv, [Next]_vars, NEW t \in Fetcher, Extracts(t)'
  PROVE  /\ ~Killed
         /\ \/ /\ Extracts(t) /\ job'[t].url = job[t].url /\ job'[t].ver = job[t].ver
            \/ /\ At(t, "get") /\ job'[t].ver = archive.ver /\ UNCHANGED <<mirror, cache, table>>
               /\ \A s \in Fetcher \ {t} : job'[s] = job[s]
  <1>1. ~Killed
    <2>1. Killed => job'[t] = NoJob
      BY DEF Killed
    <2> QED BY <2>1 DEF Extracts, NoJob
  <1>2. Taken(t).ver = archive.ver
    BY TakenType DEF CacheInv
  <1>3. ASSUME NEW s \in Fetcher, Look(s) \/ Answer(s), s # t PROVE job'[t] = job[t]
    BY <1>3, Jobs
  <1>4. ASSUME Look(t) \/ Answer(t), ~Extracts(t)
        PROVE  /\ At(t, "get") /\ job'[t] = Taken(t) /\ UNCHANGED table
               /\ UNCHANGED <<mirror, cache>>
    <2>1. At(t, "get") /\ job'[t] = Taken(t) /\ UNCHANGED table /\ UNCHANGED mirror
      BY <1>4, Jobs DEF At, Fetches, Extracts, NoJob
    <2>2. UNCHANGED cache
      BY <1>4, <2>1, Steps DEF CacheInv, Look, At, Duplicate, Granted, NotModified,
         FetchFails, TarRemoves, TarCreates, Finish
    <2> QED BY <2>1, <2>2
  <1>5. ASSUME Look(t) \/ Answer(t), Extracts(t)
        PROVE  job'[t].url = job[t].url /\ job'[t].ver = job[t].ver
    BY <1>5, Jobs DEF At, Fetches, Extracts, NoJob
  <1>6. CASE \E s \in Fetcher : Look(s) \/ Answer(s)
    BY <1>1, <1>2, <1>3, <1>4, <1>5, <1>6, Jobs DEF Extracts
  <1>7. CASE job' = job
    BY <1>1, <1>7 DEF Extracts
  <1> QED BY <1>1, <1>6, <1>7 DEF Next, vars, Mirror, Removed, Tick

\* Two threads that fetch expose each other.
LEMMA Exposes ==
  ASSUME CacheInv, Promise!LedgerInv,
         NEW t \in Fetcher, NEW s \in Fetcher \ {t}, Fetches(t), Fetches(s)
  PROVE  Exposed(t)
  <1>1. /\ granted[t] = job[t].url /\ granted[s] = job[s].url
        /\ job[t].url \in Url /\ job[s].url \in Url
    BY DEF CacheInv, Grants, Fetches, At
  <1>2. CASE job[s].url = job[t].url
    BY <1>1, <1>2 DEF Promise!LedgerInv, Promise!OnePerWindow, Exposed
  <1>3. CASE job[s].url # job[t].url
    BY <1>1, <1>3 DEF Promise!LedgerInv, Promise!Entered, Promise!Never, Ledger!Never, Exposed
  <1> QED BY <1>2, <1>3

\* What is written to the cache is what some thread extracts.
LEMMA WritesVersion ==
  ASSUME CacheInv, [Next]_vars
  PROVE  \/ cache'.ver = cache.ver \/ cache'.ver = 0
         \/ \E s \in Fetcher : Extracts(s) /\ cache'.ver = job[s].ver
  <1>1. cache' = NoFile => cache'.ver = 0
    BY DEF NoFile
  <1>2. ASSUME NEW s \in Fetcher, TarCreates(s)
        PROVE  Extracts(s) /\ cache'.ver = job[s].ver
    BY <1>2 DEF TarCreates, Extracts, At
  <1>3. ASSUME NEW s \in Fetcher, NEW body, Finish(s, body), cache' = Extracted(job[s].ver, body)
        PROVE  Extracts(s) /\ cache'.ver = job[s].ver
    BY <1>3 DEF Finish, Extracts, At, Extracted
  <1>4. Killed => cache'.ver = cache.ver
    BY KilledCache DEF CacheInv
  <1> QED BY <1>1, <1>2, <1>3, <1>4, Writes

LEMMA OvertakenKept ==
  ASSUME CacheInv, Promise!LedgerInv, Overtaken, [Next]_vars PROVE Overtaken'
  <1> SUFFICES ASSUME NEW t \in Fetcher, Extracts(t)', Behind(t)' PROVE Exposed(t)'
    BY DEF Overtaken
  <1>0. /\ cache.ver \in Int /\ cache'.ver \in Int /\ archive.ver \in Int
        /\ \A s \in Fetcher : job[s].ver \in Int /\ job'[s].ver \in Int
    <2>1. TypeOK /\ TypeOK'
      BY CacheStep DEF CacheInv
    <2> QED BY <2>1 DEF TypeOK, MirrorTypeOK
  <1>1. ASSUME Exposed(t), job'[t].url = job[t].url PROVE Exposed(t)'
    <2>1. ~Killed /\ job[t].url \in Url
      BY <1>1, Begins, CacheStep DEF CacheInv, Grants, Extracts, At
    <2> QED BY <1>1, <2>1, EntriesStay DEF Exposed, Ledger!Never
  <1>2. CASE ~Extracts(t)
    <2>1. /\ job'[t].ver = archive.ver /\ cache' = cache
          /\ \A s \in Fetcher \ {t} : job'[s] = job[s]
      BY <1>2, Begins
    <2>2. cache'.ver <= archive.ver
      BY <1>0, <2>1 DEF CacheInv, File, NoFile, TypeOK, MirrorTypeOK
    <2>3. \A s \in Fetcher \ {t} : Extracts(s)' => job'[s].ver <= archive.ver
      BY <1>0, <2>1 DEF CacheInv, Archives, Extracts
    <2> QED BY <1>0, <2>1, <2>2, <2>3 DEF Behind
  <1>3. CASE Extracts(t) /\ Behind(t)
    BY <1>1, <1>3, Begins DEF Overtaken, At, Extracts
  <1>4. CASE Extracts(t) /\ ~Behind(t)
    <2>1. job'[t].url = job[t].url /\ job'[t].ver = job[t].ver /\ job[t].ver >= 1
      BY <1>0, <1>4, Begins DEF At, Extracts, CacheInv, Archives
    <2>2. ~(cache'.ver > job'[t].ver)
      BY <1>0, <1>4, <2>1, WritesVersion DEF Behind
    <2>3. PICK s \in Fetcher : Extracts(s)' /\ job'[s].ver > job'[t].ver
      BY <2>2 DEF Behind
    <2>4. s # t /\ ~(Extracts(s) /\ job[s].ver > job[t].ver)
      BY <1>0, <1>4, <2>1, <2>3 DEF Behind
    <2>5. At(s, "get")
      BY <1>0, <2>1, <2>3, <2>4, Begins
    <2>6. Exposed(t)
      BY <1>4, <2>4, <2>5, Exposes DEF Fetches, Extracts, At
    <2> QED BY <1>1, <2>1, <2>6
  <1> QED BY <1>2, <1>3, <1>4

\* A thread about to put an older version over a newer one has been overtaken: by
\* one its URL was granted to again after the window, or by one that fetched the
\* file from another mirror (avoid_dupes, server.c:75-100, and the URL that
\* includes the mirror, server.c:428).
THEOREM StepsBackHold == Spec => []NoStepBack
  <1>1. Init => Overtaken
    BY DEF Init, Overtaken, Extracts, NoJob
  <1>2. CacheInv /\ Promise!LedgerInv /\ Overtaken /\ [Next]_vars => Overtaken'
    BY OvertakenKept
  <1>3. CacheInv /\ Overtaken => NoStepBack
    <2> SUFFICES ASSUME CacheInv, Overtaken, NEW t \in Fetcher,
                        At(t, "extract"), job[t].ver < cache.ver
                 PROVE  Exposed(t)
      BY DEF NoStepBack, Exposed
    <2>1. job[t].ver \in Int /\ cache.ver \in Int
      BY DEF CacheInv, TypeOK
    <2> QED BY <2>1 DEF Overtaken, At, Extracts, Behind
  <1>4. Spec => []Overtaken
    BY <1>1, <1>2, CacheAlways, LedgerKept, PTL DEF Spec
  <1> QED BY <1>3, <1>4, CacheAlways, PTL
=============================================================================
