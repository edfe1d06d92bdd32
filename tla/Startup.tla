------------------------------- MODULE Startup -------------------------------
(***************************************************************************)
(* The start of both programs: main of src/server.c up to its loop, and    *)
(* main of src/fuse.c up to the mounts.  Both make the two cache           *)
(* directories they need, the daemon also makes them its own, and so does  *)
(* systemd-tmpfiles (debuginfo.conf.in) whenever it runs.  Nothing orders  *)
(* the three (DefaultDependencies=no in both units).                       *)
(***************************************************************************)
EXTENDS Integers, Sequences, SequencesExt

CONSTANTS
  NoEnv,      \* CLR_DEBUGINFO_URLS is not set
  MaxEnvLen   \* bound: characters of CLR_DEBUGINFO_URLS

ASSUME EnvAssumption == MaxEnvLen \in Nat /\ NoEnv \notin Seq({"u", " "})

Path          == {"lib", "src"}
RequiredPaths == <<"lib", "src">>

\* What is in a tree: a file, and a symbolic link to it.
Entry == {"file", "link"}

VARIABLES
  hasUser,  \* there is a user dbginfo
  dir,      \* the directories: owner, "none" if absent, and what root owns below
  spared,   \* history: where old entries were passed over
  main,     \* where the daemon is, and with which of the paths
  user,     \* dbg_user
  urls,     \* urls and urlcounter
  fuse,     \* where the fuse program is, and with which of the paths
  view,     \* what its process for a path has for a working directory
  served    \* history: a daemon has served as dbginfo

world      == <<hasUser, spared, served>>
daemonVars == <<main, user, urls>>
fuseVars   == <<fuse, view>>
vars       == <<world, dir, daemonVars, fuseVars>>

Absent(p)  == dir[p].owner = "none"
NewDir(who) == [owner |-> who, old |-> {}]
At(where)  == main.pc = where
ReqPath    == RequiredPaths[main.i]
Goto(pc)   == main' = [main EXCEPT !.pc = pc]

\* Mutant: one path more than there are.
OnePathMore == main' = [pc |-> IF main.i > Len(RequiredPaths) THEN "listen" ELSE "look",
                        i |-> main.i + 1]

NextPath ==
  main' = IF main.i = Len(RequiredPaths) THEN [main EXCEPT !.pc = "listen"]
          ELSE [pc |-> "look", i |-> main.i + 1]

-----------------------------------------------------------------------------
(* configure_urls: a character is part of a URL, "u", or separates.        *)

Env == {NoEnv} \cup UNION {[1 .. n -> {"u", " "}] : n \in 0 .. MaxEnvLen}

Blank(env, i) == env[i] = " "

\* strcspn(token, " \t\n")
TokenLen(env, i) ==
  LET end == SelectInSubSeq(env, i, Len(env), LAMBDA c : c = " ")
  IN  IF end = 0 THEN Len(env) + 1 - i ELSE end - i

\* Mutant: a URL for every separator, as strsep(3) would have it.
SplitEvery(env) ==
  LET from[i \in 1 .. Len(env) + 1] ==
        LET n == TokenLen(env, i)
        IN  <<SubSeq(env, i, i + n - 1)>>
            \o IF i + n > Len(env) THEN <<>> ELSE from[i + n + 1]
  IN  from[1]

\* The loop over token; an empty token is passed by.
Split(env) ==
  LET from[i \in 1 .. Len(env) + 1] ==
        LET n == TokenLen(env, i)
        IN  (IF n > 0 THEN <<SubSeq(env, i, i + n - 1)>> ELSE <<>>)
            \o IF i + n > Len(env) THEN <<>> ELSE from[i + n + 1]
  IN  from[1]

Defaults == [list |-> <<<<"cdn">>, <<"cdn", "alt">>>>, counter |-> 1]

Configured(env) ==
  IF env = NoEnv THEN Defaults
  ELSE IF Split(env) = <<>> THEN Defaults
  ELSE [list |-> Split(env), counter |-> 0]

\* Where a run of characters without a separator begins.
Starts(env) == {i \in DOMAIN env : ~Blank(env, i) /\ (i = 1 \/ Blank(env, i - 1))}

\* The run that begins at i, up to the next separator or the end.
RunFrom(env, i, word) ==
  \E j \in i .. Len(env) :
    /\ word = SubSeq(env, i, j)
    /\ \A k \in i .. j : ~Blank(env, k)
    /\ j < Len(env) => Blank(env, j + 1)

\* The list has the runs of env, each once and from left to right.
AreWords(env, list) ==
  \E at \in [DOMAIN list -> Starts(env)] :
    /\ \A i \in Starts(env) : \E k \in DOMAIN list : at[k] = i
    /\ \A k \in DOMAIN list : RunFrom(env, at[k], list[k])
    /\ \A k, m \in DOMAIN list : k < m => at[k] < at[m]

-----------------------------------------------------------------------------
Init ==
  /\ hasUser \in BOOLEAN
  /\ dir = [p \in Path |-> NewDir("none")]
  /\ spared = {}
  /\ main = [pc |-> "down", i |-> 1]
  /\ user = "root"
  /\ urls = Defaults
  /\ fuse = [pc |-> "down", i |-> 1]
  /\ view = [p \in Path |-> "none"]
  /\ served = FALSE

\* systemd starts the daemon for a connection; getpwnam may not know the user,
\* and then dbg_user stays 0.
DaemonStarts(env) ==
  /\ At("down")
  /\ urls' = Configured(env)
  /\ user' = IF hasUser THEN "dbginfo" ELSE "root"
  /\ main' = [pc |-> "look", i |-> 1]
  /\ UNCHANGED <<world, dir, fuseVars>>

\* Mutant: a directory that is there will do.
AnyOwner(p) == ~Absent(p)

RightOwner(p) == dir[p].owner = user

LookAtPath ==
  /\ At("look")
  /\ \/ Absent(ReqPath) /\ Goto("make")
     \/ ~Absent(ReqPath) /\ RightOwner(ReqPath) /\ NextPath
     \/ ~Absent(ReqPath) /\ ~RightOwner(ReqPath) /\ Goto("remove")
  /\ UNCHANGED <<world, dir, user, urls, fuseVars>>

\* nftw follows links: to it a link to a file is a file, which is unlinked; a
\* link to nothing is no file, and rmdir fails on it.
Dangling(e) == e = "link" /\ "file" \notin dir[ReqPath].old

RemoveEntry ==
  /\ At("remove")
  /\ \E e \in dir[ReqPath].old :
       /\ ~Dangling(e)
       /\ dir' = [dir EXCEPT ![ReqPath].old = @ \ {e}]
  /\ UNCHANGED <<world, daemonVars, fuseVars>>

\* Nobody looks at the result of nc_rm_rf.
RemoveStops ==
  /\ At("remove")
  /\ \E e \in dir[ReqPath].old : Dangling(e)
  /\ spared' = spared \cup {ReqPath}
  /\ Goto("make")
  /\ UNCHANGED <<hasUser, served, dir, user, urls, fuseVars>>

RemoveTop ==
  /\ At("remove")
  /\ dir[ReqPath].old = {}
  /\ dir' = [dir EXCEPT ![ReqPath] = NewDir("none")]
  /\ view' = [view EXCEPT ![ReqPath] = IF @ = "cur" THEN "gone" ELSE @]
  /\ spared' = spared \ {ReqPath}
  /\ Goto("make")
  /\ UNCHANGED <<hasUser, served, user, urls, fuse>>

\* nc_mkdir_p takes a directory that is there for success.
Made(p) == IF Absent(p) THEN [dir EXCEPT ![p] = NewDir("root")] ELSE dir

MakePath ==
  /\ At("make")
  /\ dir' = Made(ReqPath)
  /\ Goto("own")
  /\ UNCHANGED <<world, user, urls, fuseVars>>

\* Mutant: chown is forgotten.
NotOwned(p) == dir

Owned(p) == [dir EXCEPT ![p].owner = user]

OwnPath ==
  /\ At("own")
  /\ dir' = Owned(ReqPath)
  /\ NextPath
  /\ UNCHANGED <<world, user, urls, fuseVars>>

\* The socket, and the identity the daemon runs with from now on.
Serve ==
  /\ At("listen")
  /\ Goto("serve")
  /\ served' = (served \/ user = "dbginfo")
  /\ UNCHANGED <<hasUser, spared, dir, user, urls, fuseVars>>

\* A step of the start fails, or the daemon crashes, or it has been idle.
DaemonEnds ==
  /\ ~At("down")
  /\ main' = [pc |-> "down", i |-> 1]
  /\ urls' = Defaults
  /\ UNCHANGED <<world, dir, user, fuseVars>>

\* While there is no dbginfo tar leaves what root owns.
RootExtracts(p, e) ==
  /\ At("serve") /\ user = "root"
  /\ dir' = [dir EXCEPT ![p].old = @ \cup {e}]
  /\ UNCHANGED <<world, daemonVars, fuseVars>>

-----------------------------------------------------------------------------
(* The fuse program, as root: parent for src, child for lib.               *)

FusePath == RequiredPaths[fuse.i]

FuseStarts ==
  /\ fuse.pc = "down"
  /\ fuse' = [pc |-> "check", i |-> 1]
  /\ UNCHANGED <<world, dir, daemonVars, view>>

FuseNext ==
  fuse' = IF fuse.i = Len(RequiredPaths) THEN [fuse EXCEPT !.pc = "forked"]
          ELSE [pc |-> "check", i |-> fuse.i + 1]

FuseChecks ==
  /\ fuse.pc = "check"
  /\ IF Absent(FusePath) THEN fuse' = [fuse EXCEPT !.pc = "make"] ELSE FuseNext
  /\ UNCHANGED <<world, dir, daemonVars, view>>

FuseMakes ==
  /\ fuse.pc = "make"
  /\ dir' = Made(FusePath)
  /\ FuseNext
  /\ UNCHANGED <<world, daemonVars, view>>

\* The directory is opened before the mount and entered after it (xmp_init);
\* if it cannot be opened, fchdir fails and the process stays where it is, in /.
OpenShadow(p) ==
  /\ fuse.pc = "forked" /\ view[p] = "none"
  /\ view' = [view EXCEPT ![p] = IF Absent(p) THEN "lost" ELSE "cur"]
  /\ UNCHANGED <<world, dir, daemonVars, fuse>>

\* A directory cannot be made, or the service is stopped.
FuseEnds ==
  /\ fuse.pc # "down"
  /\ fuse' = [pc |-> "down", i |-> 1]
  /\ view' = [p \in Path |-> "none"]
  /\ UNCHANGED <<world, dir, daemonVars>>

-----------------------------------------------------------------------------
(* systemd-sysusers and systemd-tmpfiles, at boot and by a timer.          *)

UserAppears ==
  /\ ~hasUser
  /\ hasUser' = TRUE
  /\ UNCHANGED <<spared, served, dir, daemonVars, fuseVars>>

\* A line of type d makes the directory or gives it away, not what is below.
TmpfilesCreates(p) ==
  /\ hasUser
  /\ dir[p].owner # "dbginfo"
  /\ dir' = [dir EXCEPT ![p].owner = "dbginfo"]
  /\ spared' = IF dir[p].owner = "root" THEN spared \cup {p} ELSE spared
  /\ UNCHANGED <<hasUser, served, daemonVars, fuseVars>>

TmpfilesAges(p, e) ==
  /\ e \in dir[p].old
  /\ dir' = [dir EXCEPT ![p].old = @ \ {e}]
  /\ UNCHANGED <<world, daemonVars, fuseVars>>

-----------------------------------------------------------------------------
Daemon ==
  \/ \E env \in Env : DaemonStarts(env)
  \/ LookAtPath \/ RemoveEntry \/ RemoveStops \/ RemoveTop \/ MakePath \/ OwnPath
  \/ Serve \/ DaemonEnds
  \/ \E p \in Path, e \in Entry : RootExtracts(p, e)

Fuse == FuseStarts \/ FuseChecks \/ FuseMakes \/ FuseEnds \/ \E p \in Path : OpenShadow(p)

Systemd ==
  \/ UserAppears
  \/ \E p \in Path : TmpfilesCreates(p) \/ \E e \in Entry : TmpfilesAges(p, e)

Next == Daemon \/ Fuse \/ Systemd

Spec == Init /\ [][Next]_vars

-----------------------------------------------------------------------------
TypeOK ==
  /\ hasUser \in BOOLEAN
  /\ dir \in [Path -> [owner : {"none", "root", "dbginfo"}, old : SUBSET Entry]]
  /\ spared \subseteq Path
  /\ main \in [pc : {"down", "look", "remove", "make", "own", "listen", "serve"},
               i : DOMAIN RequiredPaths]
  /\ user \in {"root", "dbginfo"}
  /\ urls.counter \in {0, Defaults.counter}
  /\ fuse \in [pc : {"down", "check", "make", "forked"}, i : DOMAIN RequiredPaths]
  /\ view \in [Path -> {"none", "cur", "gone", "lost"}]
  /\ served \in BOOLEAN

\* "The associated cache directories already exist by this point"
\* (server.c:411-413): a daemon that serves has both directories, and a daemon
\* without privileges owns them, whatever the fuse program, tmpfiles and daemons
\* that ended half-way did to them.
DirsWhenServing ==
  At("serve") => \A p \in Path :
    /\ ~Absent(p)
    /\ user = "dbginfo" => dir[p].owner = "dbginfo"

\* "Essentially a one-off operation" (server.c:512-515): once a daemon has
\* served as dbginfo, none removes a directory again and no mount loses its own.
OneOffRemoval ==
  [][served => /\ main'.pc # "remove"
               /\ \A p \in Path : view'[p] = "gone" => view[p] = "gone"]_vars

\* Nothing root owns is left below a directory of dbginfo when the daemon serves
\* - unless tmpfiles gave the directory away before the daemon looked at its
\* owner, or the removal met a link whose target it had removed.
TransitionComplete ==
  At("serve") /\ user = "dbginfo" =>
    \A p \in Path : dir[p].old # {} => p \in spared

\* "Read URLs from environment variable, space separated" (server.c:103): the
\* words of the variable in their order, or the defaults if there are none.
UrlsConfigured ==
  [][\A env \in Env : DaemonStarts(env) =>
       IF env = NoEnv \/ \A i \in DOMAIN env : Blank(env, i)
       THEN urls' = Defaults
       ELSE AreWords(env, urls'.list) /\ urls'.counter = 0]_vars

\* "GDB and elfutils both stat /usr/lib/debug directly ...; the associated
\* cache directories already exist by this point" (server.c:411-413): while the
\* daemon serves, the directory behind a mount is the one it fills.
AssociatedDirExists ==
  At("serve") => \A p \in Path : view[p] # "gone"
=============================================================================
