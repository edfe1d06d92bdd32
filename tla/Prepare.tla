------------------------------- MODULE Prepare -------------------------------
(***************************************************************************)
(* The mirror: scripts/clr_debug_prepare makes an archive of every file    *)
(* under its source tree, here of one name, and decides by modification    *)
(* times when to make it again.                                            *)
(*                                                                         *)
(* Times are ordered, not counted.  The source has versions 1, 2, ...; an  *)
(* archive is written at most once per version that find(1) shows to be    *)
(* new, so four instants of a version can be told apart: when the source   *)
(* appeared, before, at and after the last write of the archive.           *)
(***************************************************************************)
EXTENDS Integers

CONSTANT MaxVersion  \* bound: versions of the source in a behaviour

ASSUME MaxVersionAssumption == MaxVersion \in Nat \ {0}

VARIABLES
  kind,     \* what find -printf %y says of the source: "f" or "l"; an archive of
            \* a directory ("d") holds no contents and is never made again
  source,   \* version of the contents
  archive,  \* DEST/<name>.tar: the version in it, whether it is whole, its time
  script,   \* "idle"; "todo": listed, in the pipe to parallel; "tar"
  upset     \* history: the script was interrupted while tar ran, or the source
            \* changed meanwhile, when it last made the archive

mirror == <<kind, source, archive, script, upset>>

NoArchive == [ver |-> 0, whole |-> FALSE, time |-> 0]

SourceTime(v) == 4 * v - 3

\* find prints the time of a symbolic link, not of what it points to.
ListedTime == IF kind = "l" THEN SourceTime(1) ELSE SourceTime(source)

\* The archive has been written since the source is what it is.
UpToDate == archive.time > SourceTime(source)

BeforeArchive == SourceTime(source) + 1
AtArchive     == SourceTime(source) + 2
AfterArchive  == SourceTime(source) + 3

Now == IF UpToDate /\ script # "tar" THEN AfterArchive ELSE BeforeArchive

\* Mutant: an archive that exists is done with.
DueIfMissing == archive = NoArchive

\* The awk program prints the name.
Due == archive = NoArchive \/ archive.time < ListedTime

-----------------------------------------------------------------------------
MirrorInit ==
  /\ kind \in {"f", "l"}
  /\ source = 1
  /\ archive = NoArchive
  /\ script = "idle"
  /\ upset = FALSE

\* A package brings new contents.
Update ==
  /\ source < MaxVersion
  /\ source' = source + 1
  /\ upset' = (upset \/ script = "tar")
  /\ UNCHANGED <<kind, archive, script>>

Scan ==
  /\ script = "idle"
  /\ Due
  /\ script' = "todo"
  /\ UNCHANGED <<kind, source, archive, upset>>

\* tar truncates the file of the final name and writes there.
TarOpens ==
  /\ script = "todo"
  /\ archive' = [ver |-> source, whole |-> FALSE, time |-> BeforeArchive]
  /\ script' = "tar"
  /\ upset' = FALSE
  /\ UNCHANGED <<kind, source>>

TarCloses ==
  /\ script = "tar"
  /\ archive' = [archive EXCEPT !.whole = TRUE, !.time = AtArchive]
  /\ script' = "idle"
  /\ UNCHANGED <<kind, source, upset>>

\* The script, parallel or the machine ends, or the disk is full.
Interrupted ==
  /\ script # "idle"
  /\ script' = "idle"
  /\ archive' = IF script = "tar" THEN [archive EXCEPT !.time = AtArchive] ELSE archive
  /\ upset' = (upset \/ script = "tar")
  /\ UNCHANGED <<kind, source>>

MirrorNext == Update \/ Scan \/ TarOpens \/ TarCloses \/ Interrupted

-----------------------------------------------------------------------------
MirrorTypeOK ==
  /\ kind \in {"f", "l"}
  /\ source \in 1 .. MaxVersion
  /\ archive \in [ver : 0 .. MaxVersion, whole : BOOLEAN, time : 0 .. 4 * MaxVersion]
  /\ script \in {"idle", "todo", "tar"}
  /\ upset \in BOOLEAN

\* A name the script leaves alone has a whole archive of the present contents
\* ("Only regenerate content if timestamp is newer", clr_debug_prepare:120),
\* except behind a symbolic link whose target changed, and except if the script
\* was interrupted in the middle of tar or the source changed meanwhile: such an
\* archive looks new and is never made again.
PreparedUnlessUpset ==
  script = "idle" /\ ~Due /\ ~upset =>
    /\ archive.whole
    /\ kind # "l" => archive.ver = source
=============================================================================
