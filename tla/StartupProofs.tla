---------------------------- MODULE StartupProofs ----------------------------
(***************************************************************************)
(* Theorems about the start of the two programs, for every length of the   *)
(* variable, every order of daemon, fuse program, tmpfiles and sysusers    *)
(* and every point a daemon may end at.                                    *)
(***************************************************************************)
EXTENDS Startup, SetInduction

-----------------------------------------------------------------------------
(* The invariant.                                                          *)

\* The daemon is done with the path.
Passed(p) ==
  \/ main.pc \in {"listen", "serve"}
  \/ ~At("down") /\ \E j \in DOMAIN RequiredPaths : j < main.i /\ p = RequiredPaths[j]

\* A path the daemon is done with is there, and the daemon's; tmpfiles may have
\* given it away if the daemon is root.
There ==
  /\ \A p \in Path : Passed(p) =>
       /\ ~Absent(p)
       /\ dir[p].owner = user \/ (user = "root" /\ p \in spared)
  /\ At("own") => ~Absent(ReqPath)

Known == user = "dbginfo" => hasUser

\* What root owns is below what root owns, or was spared.
Spared ==
  /\ \A p \in Path : Absent(p) => dir[p].old = {}
  /\ \A p \in Path : dir[p].owner = "dbginfo" /\ dir[p].old # {} => p \in spared
  /\ main.pc \in {"make", "own"} /\ dir[ReqPath].old # {} => ReqPath \in spared

\* Once a daemon has served as dbginfo both directories are dbginfo's, and every
\* daemon finds them so.
Settled ==
  served =>
    /\ hasUser
    /\ \A p \in Path : dir[p].owner = "dbginfo"
    /\ ~At("down") => user = "dbginfo"
    /\ main.pc \in {"down", "look", "listen", "serve"}

StartInv == TypeOK /\ There /\ Known /\ Spared /\ Settled

-----------------------------------------------------------------------------
(* Lemmas about the data.                                                  *)

Owner == {"none", "root", "dbginfo"}
Tree  == [owner : Owner, old : SUBSET Entry]
Place == [pc : {"down", "look", "remove", "make", "own", "listen", "serve"}, i : {1, 2}]

LEMMA Paths ==
  /\ DOMAIN RequiredPaths = {1, 2} /\ Len(RequiredPaths) = 2
  /\ RequiredPaths[1] = "lib" /\ RequiredPaths[2] = "src"
  BY DEF RequiredPaths

LEMMA Typed ==
  TypeOK <=> /\ hasUser \in BOOLEAN
             /\ dir \in [Path -> Tree]
             /\ spared \subseteq Path
             /\ main \in Place
             /\ user \in {"root", "dbginfo"}
             /\ urls.counter \in {0, 1}
             /\ fuse \in [pc : {"down", "check", "make", "forked"}, i : {1, 2}]
             /\ view \in [Path -> {"none", "cur", "gone", "lost"}]
             /\ served \in BOOLEAN
  <1>1. Defaults.counter = 1
    BY DEF Defaults
  <1> QED BY <1>1, Paths DEF TypeOK, Owner, Tree, Place

LEMMA ReqPathType == ASSUME TypeOK PROVE ReqPath \in Path
  BY Typed, Paths DEF Place, ReqPath, Path

\* A directory that changes hands.
LEMMA NewOwner ==
  ASSUME dir \in [Path -> Tree], NEW p \in Path, NEW who \in Owner,
         dir' = [dir EXCEPT ![p].owner = who]
  PROVE  /\ dir' \in [Path -> Tree]
         /\ dir'[p].owner = who /\ dir'[p].old = dir[p].old
         /\ \A q \in Path \ {p} : dir'[q] = dir[q]
  <1>1. dir' = [dir EXCEPT ![p] = [dir[p] EXCEPT !.owner = who]]
    OBVIOUS
  <1>2. [dir[p] EXCEPT !.owner = who] \in Tree
    BY DEF Tree
  <1>3. dir'[p] = [dir[p] EXCEPT !.owner = who]
    BY <1>1
  <1>4. dir'[p].owner = who /\ dir'[p].old = dir[p].old
    BY <1>3 DEF Tree
  <1> QED BY <1>1, <1>2, <1>4

\* A directory in which something comes or goes.
LEMMA NewOld ==
  ASSUME dir \in [Path -> Tree], NEW p \in Path, NEW old \in SUBSET Entry,
         dir' = [dir EXCEPT ![p].old = old]
  PROVE  /\ dir' \in [Path -> Tree]
         /\ dir'[p].owner = dir[p].owner /\ dir'[p].old = old
         /\ \A q \in Path \ {p} : dir'[q] = dir[q]
  <1>1. dir' = [dir EXCEPT ![p] = [dir[p] EXCEPT !.old = old]]
    OBVIOUS
  <1>2. [dir[p] EXCEPT !.old = old] \in Tree
    BY DEF Tree
  <1>3. dir'[p] = [dir[p] EXCEPT !.old = old]
    BY <1>1
  <1>4. dir'[p].owner = dir[p].owner /\ dir'[p].old = old
    BY <1>3 DEF Tree
  <1> QED BY <1>1, <1>2, <1>4

\* A directory that is removed or made.
LEMMA NewTree ==
  ASSUME dir \in [Path -> Tree], NEW p \in Path, NEW who \in Owner,
         dir' = [dir EXCEPT ![p] = NewDir(who)]
  PROVE  /\ dir' \in [Path -> Tree]
         /\ dir'[p].owner = who /\ dir'[p].old = {}
         /\ \A q \in Path \ {p} : dir'[q] = dir[q]
  <1>1. NewDir(who) \in Tree /\ NewDir(who).owner = who /\ NewDir(who).old = {}
    BY DEF NewDir, Tree
  <1> QED BY <1>1

\* nc_mkdir_p makes what is missing and changes nothing else.
LEMMA MadeTree ==
  ASSUME dir \in [Path -> Tree], NEW p \in Path, dir' = Made(p)
  PROVE  /\ dir' \in [Path -> Tree]
         /\ ~Absent(p) => dir' = dir
         /\ Absent(p) => dir'[p].owner = "root" /\ dir'[p].old = {}
         /\ \A q \in Path \ {p} : dir'[q] = dir[q]
         /\ ~Absent(p)'
  BY NewTree DEF Made, Owner, Absent

LEMMA GotoPlace ==
  ASSUME TypeOK, NEW l \in {"down", "look", "remove", "make", "own", "listen", "serve"}, Goto(l)
  PROVE  main' \in Place /\ main'.pc = l /\ main'.i = main.i
  BY Typed DEF Goto, Place

LEMMA NextPlace ==
  ASSUME TypeOK, NextPath
  PROVE  /\ main' \in Place
         /\ \/ main.i = 2 /\ main'.pc = "listen" /\ main'.i = 2
            \/ main.i = 1 /\ main'.pc = "look" /\ main'.i = 2
  BY Typed, Paths DEF NextPath, Place

-----------------------------------------------------------------------------
(* Types.                                                                  *)

\* What each step does to the directories.
LEMMA Dirs ==
  ASSUME TypeOK, [Next]_vars
  PROVE  /\ dir' \in [Path -> Tree]
         /\ \/ dir' = dir
            \/ \E p \in Path :
                 /\ \A q \in Path \ {p} : dir'[q] = dir[q]
                 /\ dir'[p].owner = dir[p].owner /\ dir'[p].old \subseteq dir[p].old
                 /\ RemoveEntry \/ \E e \in Entry : TmpfilesAges(p, e)
            \/ \E p \in Path :
                 /\ \A q \in Path \ {p} : dir'[q] = dir[q]
                 /\ dir'[p].owner = dir[p].owner
                 /\ \E e \in Entry : RootExtracts(p, e)
            \/ /\ RemoveTop /\ dir[ReqPath].old = {}
               /\ \A q \in Path \ {ReqPath} : dir'[q] = dir[q]
               /\ dir'[ReqPath].owner = "none" /\ dir'[ReqPath].old = {}
            \/ \E p \in Path :
                 /\ Absent(p) /\ ~Absent(p)'
                 /\ \A q \in Path \ {p} : dir'[q] = dir[q]
                 /\ dir'[p].owner = "root" /\ dir'[p].old = {}
                 /\ (MakePath /\ p = ReqPath) \/ (FuseMakes /\ p = FusePath)
            \/ /\ OwnPath
               /\ \A q \in Path \ {ReqPath} : dir'[q] = dir[q]
               /\ dir'[ReqPath].owner = user /\ dir'[ReqPath].old = dir[ReqPath].old
            \/ \E p \in Path :
                 /\ TmpfilesCreates(p)
                 /\ \A q \in Path \ {p} : dir'[q] = dir[q]
                 /\ dir'[p].owner = "dbginfo" /\ dir'[p].old = dir[p].old
  <1>0. dir \in [Path -> Tree] /\ ReqPath \in Path /\ user \in Owner
    BY Typed, ReqPathType DEF Owner
  <1>1. CASE RemoveEntry
    <2>1. PICK e : dir' = [dir EXCEPT ![ReqPath].old = dir[ReqPath].old \ {e}]
      BY <1>1 DEF RemoveEntry
    <2>2. dir[ReqPath].old \ {e} \in SUBSET Entry
      BY <1>0 DEF Tree
    <2>3. /\ dir' \in [Path -> Tree] /\ dir'[ReqPath].owner = dir[ReqPath].owner
          /\ dir'[ReqPath].old = dir[ReqPath].old \ {e}
          /\ \A q \in Path \ {ReqPath} : dir'[q] = dir[q]
      BY <1>0, <2>1, <2>2, NewOld
    <2>4. dir'[ReqPath].old \subseteq dir[ReqPath].old
      BY <2>3
    <2> QED BY <1>0, <1>1, <2>3, <2>4
  <1>2. ASSUME NEW p \in Path, NEW e \in Entry, TmpfilesAges(p, e)
        PROVE  /\ dir' \in [Path -> Tree]
               /\ \A q \in Path \ {p} : dir'[q] = dir[q]
               /\ dir'[p].owner = dir[p].owner /\ dir'[p].old \subseteq dir[p].old
    <2>1. dir' = [dir EXCEPT ![p].old = dir[p].old \ {e}]
      BY <1>2 DEF TmpfilesAges
    <2>2. dir[p].old \ {e} \in SUBSET Entry
      BY <1>0 DEF Tree
    <2>3. /\ dir' \in [Path -> Tree] /\ dir'[p].owner = dir[p].owner
          /\ dir'[p].old = dir[p].old \ {e}
          /\ \A q \in Path \ {p} : dir'[q] = dir[q]
      BY <1>0, <2>1, <2>2, NewOld
    <2>4. dir'[p].old \subseteq dir[p].old
      BY <2>3
    <2> QED BY <2>3, <2>4
  <1>3. ASSUME NEW p \in Path, NEW e \in Entry, RootExtracts(p, e)
        PROVE  /\ dir' \in [Path -> Tree]
               /\ \A q \in Path \ {p} : dir'[q] = dir[q]
               /\ dir'[p].owner = dir[p].owner
    <2>1. dir' = [dir EXCEPT ![p].old = dir[p].old \cup {e}]
      BY <1>3 DEF RootExtracts
    <2>2. dir[p].old \cup {e} \in SUBSET Entry
      BY <1>0 DEF Tree
    <2> QED BY <1>0, <2>1, <2>2, NewOld
  <1>4. CASE RemoveTop
    <2>1. dir' = [dir EXCEPT ![ReqPath] = NewDir("none")] /\ dir[ReqPath].old = {}
      BY <1>4 DEF RemoveTop
    <2> QED BY <1>0, <1>4, <2>1, NewTree DEF Owner
  <1>5. CASE MakePath
    <2>1. dir' = Made(ReqPath)
      BY <1>5 DEF MakePath
    <2> QED BY <1>0, <1>5, <2>1, MadeTree DEF Made
  <1>6. CASE FuseMakes
    <2>1. dir' = Made(FusePath) /\ FusePath \in Path
      BY <1>6, Typed, Paths DEF FuseMakes, FusePath, Path
    <2> QED BY <1>0, <1>6, <2>1, MadeTree DEF Made
  <1>7. CASE OwnPath
    <2>1. dir' = [dir EXCEPT ![ReqPath].owner = user]
      BY <1>7 DEF OwnPath, Owned
    <2> QED BY <1>0, <1>7, <2>1, NewOwner
  <1>8. ASSUME NEW p \in Path, TmpfilesCreates(p)
        PROVE  /\ dir' \in [Path -> Tree]
               /\ \A q \in Path \ {p} : dir'[q] = dir[q]
               /\ dir'[p].owner = "dbginfo" /\ dir'[p].old = dir[p].old
    <2>1. dir' = [dir EXCEPT ![p].owner = "dbginfo"]
      BY <1>8 DEF TmpfilesCreates
    <2> QED BY <1>0, <2>1, NewOwner DEF Owner
  <1>9. CASE dir' = dir
    BY <1>0, <1>9
  <1>10. CASE Daemon
    BY <1>1, <1>3, <1>4, <1>5, <1>7, <1>9, <1>10
       DEF Daemon, DaemonStarts, LookAtPath, RemoveStops, Serve, DaemonEnds
  <1>11. CASE Fuse
    BY <1>6, <1>9, <1>11 DEF Fuse, FuseStarts, FuseChecks, FuseEnds, OpenShadow
  <1>12. CASE Systemd
    BY <1>2, <1>8, <1>9, <1>12 DEF Systemd, UserAppears
  <1> QED BY <1>9, <1>10, <1>11, <1>12 DEF Next, vars

\* Where the daemon goes from where.
LEMMA Steps ==
  ASSUME TypeOK, [Next]_vars
  PROVE  /\ main' \in Place
         /\ \/ main' = main
            \/ /\ main'.i = main.i
               /\ \/ At("look") /\ Absent(ReqPath) /\ main'.pc = "make" /\ LookAtPath
                  \/ /\ At("look") /\ main'.pc = "remove" /\ LookAtPath
                     /\ ~Absent(ReqPath) /\ dir[ReqPath].owner # user
                  \/ At("remove") /\ main'.pc = "make" /\ (RemoveStops \/ RemoveTop)
                  \/ At("make") /\ main'.pc = "own" /\ MakePath
                  \/ At("listen") /\ main'.pc = "serve" /\ Serve
            \/ /\ OwnPath \/ (LookAtPath /\ dir' = dir /\ ~Absent(ReqPath) /\ dir[ReqPath].owner = user)
               /\ \/ main.i = 2 /\ main'.pc = "listen" /\ main'.i = 2
                  \/ main.i = 1 /\ main'.pc = "look" /\ main'.i = 2
            \/ main' = [pc |-> "down", i |-> 1] /\ DaemonEnds
            \/ /\ At("down") /\ main' = [pc |-> "look", i |-> 1]
               /\ \E env \in Env : DaemonStarts(env)
  <1>0. main \in Place
    BY Typed
  <1>1. CASE LookAtPath
    <2>1. CASE Absent(ReqPath) /\ Goto("make")
      BY <1>1, <2>1, GotoPlace DEF LookAtPath
    <2>2. CASE ~Absent(ReqPath) /\ ~RightOwner(ReqPath) /\ Goto("remove")
      BY <1>1, <2>2, GotoPlace DEF LookAtPath, RightOwner
    <2>3. CASE NextPath /\ ~Absent(ReqPath) /\ RightOwner(ReqPath)
      BY <1>1, <2>3, NextPlace DEF LookAtPath, RightOwner
    <2> QED BY <1>1, <2>1, <2>2, <2>3 DEF LookAtPath
  <1>2. CASE RemoveStops \/ RemoveTop
    <2>1. Goto("make") /\ At("remove")
      BY <1>2 DEF RemoveStops, RemoveTop
    <2> QED BY <1>2, <2>1, GotoPlace
  <1>3. CASE MakePath
    <2>1. Goto("own") /\ At("make")
      BY <1>3 DEF MakePath
    <2> QED BY <1>3, <2>1, GotoPlace
  <1>4. CASE Serve
    <2>1. Goto("serve") /\ At("listen")
      BY <1>4 DEF Serve
    <2> QED BY <1>4, <2>1, GotoPlace
  <1>5. CASE OwnPath
    BY <1>5, NextPlace DEF OwnPath
  <1>6. CASE DaemonEnds
    <2>1. main' = [pc |-> "down", i |-> 1]
      BY <1>6 DEF DaemonEnds
    <2> QED BY <1>6, <2>1 DEF Place
  <1>7. CASE \E env \in Env : DaemonStarts(env)
    <2>1. main' = [pc |-> "look", i |-> 1] /\ At("down")
      BY <1>7 DEF DaemonStarts
    <2> QED BY <1>7, <2>1 DEF Place
  <1>8. CASE main' = main
    BY <1>0, <1>8
  <1>9. CASE Fuse \/ Systemd
    <2>1. main' = main
      BY <1>9 DEF Fuse, FuseStarts, FuseChecks, FuseMakes, FuseEnds, OpenShadow,
         Systemd, UserAppears, TmpfilesCreates, TmpfilesAges, daemonVars
    <2> QED BY <1>8, <2>1
  <1> QED BY <1>1, <1>2, <1>3, <1>4, <1>5, <1>6, <1>7, <1>8, <1>9
          DEF Next, Daemon, RemoveEntry, RootExtracts, vars, daemonVars

\* Steps of others than the daemon, and its steps but for the user and the URLs.
LEMMA UserStays ==
  ASSUME [Next]_vars
  PROVE  /\ user' = user
            \/ \E env \in Env : DaemonStarts(env) /\ user' = IF hasUser THEN "dbginfo" ELSE "root"
         /\ hasUser' = hasUser \/ (UserAppears /\ hasUser' = TRUE)
         /\ served' = served \/ (Serve /\ served' = (served \/ user = "dbginfo"))
  <1> USE DEF vars, world, daemonVars, fuseVars
  <1>1. CASE Daemon
    BY <1>1 DEF Daemon, DaemonStarts, LookAtPath, RemoveEntry, RemoveStops, RemoveTop,
       MakePath, OwnPath, Serve, DaemonEnds, RootExtracts
  <1>2. CASE Fuse
    BY <1>2 DEF Fuse, FuseStarts, FuseChecks, FuseMakes, FuseEnds, OpenShadow
  <1>3. CASE Systemd
    BY <1>3 DEF Systemd, UserAppears, TmpfilesCreates, TmpfilesAges
  <1> QED BY <1>1, <1>2, <1>3 DEF Next

\* The directories that are passed over.
LEMMA SparedSteps ==
  ASSUME [Next]_vars
  PROVE  \/ spared' = spared
         \/ RemoveStops /\ spared' = spared \cup {ReqPath} /\ dir' = dir
         \/ RemoveTop /\ spared' = spared \ {ReqPath}
         \/ \E p \in Path :
              /\ TmpfilesCreates(p)
              /\ spared' = IF dir[p].owner = "root" THEN spared \cup {p} ELSE spared
  <1> USE DEF vars, world, daemonVars, fuseVars
  <1>1. CASE Daemon
    BY <1>1 DEF Daemon, DaemonStarts, LookAtPath, RemoveEntry, RemoveStops, RemoveTop,
       MakePath, OwnPath, Serve, DaemonEnds, RootExtracts
  <1>2. CASE Fuse
    BY <1>2 DEF Fuse, FuseStarts, FuseChecks, FuseMakes, FuseEnds, OpenShadow
  <1>3. CASE Systemd
    BY <1>3 DEF Systemd, UserAppears, TmpfilesCreates, TmpfilesAges
  <1> QED BY <1>1, <1>2, <1>3 DEF Next

LEMMA NextType == ASSUME TypeOK, [Next]_vars PROVE TypeOK'
  <1>0. /\ hasUser \in BOOLEAN /\ served \in BOOLEAN /\ spared \subseteq Path
        /\ user \in {"root", "dbginfo"} /\ urls.counter \in {0, 1} /\ ReqPath \in Path
        /\ fuse \in [pc : {"down", "check", "make", "forked"}, i : {1, 2}]
        /\ view \in [Path -> {"none", "cur", "gone", "lost"}]
    BY Typed, ReqPathType
  <1>1. hasUser' \in BOOLEAN
    BY <1>0, UserStays
  <1>2. user' \in {"root", "dbginfo"}
    BY <1>0, UserStays
  <1>3. served' \in BOOLEAN
    BY <1>0, UserStays
  <1>4. spared' \subseteq Path
    BY <1>0, SparedSteps
  <1>5. urls'.counter \in {0, 1}
    <2>1. Defaults.counter = 1
      BY DEF Defaults
    <2>2. \A env : Configured(env).counter \in {0, 1}
      BY <2>1 DEF Configured
    <2>3. \/ urls' = urls \/ urls' = Defaults
          \/ \E env \in Env : urls' = Configured(env)
      BY DEF vars, daemonVars, Next, Daemon, DaemonStarts, LookAtPath, RemoveEntry, RemoveStops,
         RemoveTop, MakePath, OwnPath, Serve, DaemonEnds, RootExtracts, Fuse, FuseStarts,
         FuseChecks, FuseMakes, FuseEnds, OpenShadow, Systemd, UserAppears, TmpfilesCreates,
         TmpfilesAges
    <2> QED BY <1>0, <2>1, <2>2, <2>3
  <1>6. fuse' \in [pc : {"down", "check", "make", "forked"}, i : {1, 2}]
    <2>1. FuseNext => fuse' \in [pc : {"down", "check", "make", "forked"}, i : {1, 2}]
      BY <1>0, Paths DEF FuseNext
    <2>2. fuse' = [fuse EXCEPT !.pc = "make"]
            => fuse' \in [pc : {"down", "check", "make", "forked"}, i : {1, 2}]
      BY <1>0
    <2>3. fuse' = fuse \/ FuseNext \/ fuse' = [fuse EXCEPT !.pc = "make"]
          \/ fuse' = [pc |-> "check", i |-> 1] \/ fuse' = [pc |-> "down", i |-> 1]
      BY DEF vars, fuseVars, Next, Daemon, DaemonStarts, LookAtPath, RemoveEntry, RemoveStops,
         RemoveTop, MakePath, OwnPath, Serve, DaemonEnds, RootExtracts, Fuse, FuseStarts,
         FuseChecks, FuseMakes, FuseEnds, OpenShadow, Systemd, UserAppears, TmpfilesCreates,
         TmpfilesAges
    <2> QED BY <1>0, <2>1, <2>2, <2>3
  <1>7. view' \in [Path -> {"none", "cur", "gone", "lost"}]
    <2>1. \/ view' = view
          \/ view' = [view EXCEPT ![ReqPath] = IF view[ReqPath] = "cur" THEN "gone" ELSE view[ReqPath]]
          \/ \E p \in Path : view' = [view EXCEPT ![p] = IF Absent(p) THEN "lost" ELSE "cur"]
          \/ view' = [p \in Path |-> "none"]
      BY DEF vars, fuseVars, Next, Daemon, DaemonStarts, LookAtPath, RemoveEntry, RemoveStops,
         RemoveTop, MakePath, OwnPath, Serve, DaemonEnds, RootExtracts, Fuse, FuseStarts,
         FuseChecks, FuseMakes, FuseEnds, OpenShadow, Systemd, UserAppears, TmpfilesCreates,
         TmpfilesAges
    <2> QED BY <1>0, <2>1
  <1>8. dir' \in [Path -> Tree] /\ main' \in Place
    BY Dirs, Steps
  <1>9. Defaults.counter = 1
    BY DEF Defaults
  <1> QED BY <1>1, <1>2, <1>3, <1>4, <1>5, <1>6, <1>7, <1>8, <1>9, Paths
          DEF TypeOK, Owner, Tree, Place

-----------------------------------------------------------------------------
(* The steps keep the invariant.                                           *)

\* A path the daemon is done with is not the one it works on.
LEMMA PassedBefore ==
  ASSUME TypeOK, NEW p \in Path, Passed(p),
         main.pc \in {"look", "remove", "make", "own"}
  PROVE  p # ReqPath
  BY Typed, Paths DEF Passed, Place, ReqPath, At

\* How the daemon gets done with a path.
LEMMA PassedSteps ==
  ASSUME TypeOK, [Next]_vars, NEW p \in Path, Passed(p)'
  PROVE  /\ user' = user
         /\ \/ Passed(p)
            \/ /\ p = ReqPath
               /\ OwnPath \/ (dir' = dir /\ ~Absent(p) /\ dir[p].owner = user)
  <1>0. main \in Place /\ main' \in Place /\ p \in {"lib", "src"}
    BY Typed, Steps DEF Path
  <1>1. ~(\E env \in Env : DaemonStarts(env))
    BY <1>0, Paths DEF Passed, Place, DaemonStarts, At
  <1>2. user' = user
    BY <1>1, UserStays
  <1>3. Passed(p) \/ /\ p = ReqPath
                     /\ OwnPath \/ (dir' = dir /\ ~Absent(p) /\ dir[p].owner = user)
    <2>1. CASE main' = main
      BY <2>1 DEF Passed, At
    <2>2. CASE main'.i = main.i /\ main'.pc \in {"make", "remove", "own"} /\ ~At("down")
      BY <2>2 DEF Passed, At
    <2>3. CASE At("listen")
      BY <2>3 DEF Passed, At
    <2>4. CASE OwnPath \/ (dir' = dir /\ ~Absent(ReqPath) /\ dir[ReqPath].owner = user)
      <3>1. CASE main.i = 1 /\ main'.pc = "look" /\ main'.i = 2
        BY <1>0, <2>4, <3>1, Paths DEF Passed, At, ReqPath
      <3>2. CASE main.i = 2 /\ ~At("down")
        BY <1>0, <2>4, <3>2, Paths DEF Passed, At, ReqPath
      <3>3. OwnPath \/ LookAtPath => ~At("down")
        BY DEF OwnPath, LookAtPath, At
      <3> QED BY <2>1, <2>4, <2>3, <2>2, <3>1, <3>2, <3>3, Steps, <1>0, <1>1 DEF Passed, At
    <2>5. CASE main' = [pc |-> "down", i |-> 1]
      BY <2>5 DEF Passed, At
    <2> QED BY <1>1, <2>1, <2>2, <2>3, <2>4, <2>5, Steps DEF At
  <1> QED BY <1>2, <1>3

LEMMA KnownKept == ASSUME Known, [Next]_vars PROVE Known'
  BY UserStays DEF Known

\* Only the removal of a path takes it from those that were passed over.
LEMMA SparedStays ==
  ASSUME [Next]_vars, NEW p \in spared, p \notin spared'
  PROVE  RemoveTop /\ p = ReqPath
  BY SparedSteps

LEMMA ThereKept == ASSUME StartInv, [Next]_vars PROVE There'
  <1>0. TypeOK /\ ReqPath \in Path /\ user \in {"root", "dbginfo"} /\ dir \in [Path -> Tree]
    BY Typed, ReqPathType DEF StartInv
  <1>1. ASSUME NEW p \in Path, Passed(p)'
        PROVE  /\ ~Absent(p)'
               /\ dir'[p].owner = user' \/ (user' = "root" /\ p \in spared')
    <2>1. CASE Passed(p)
      <3>1. /\ ~Absent(p) /\ user' = user
            /\ dir[p].owner = user \/ (user = "root" /\ p \in spared)
        BY <1>0, <1>1, <2>1, PassedSteps DEF StartInv, There
      <3>2. RemoveTop \/ OwnPath => p # ReqPath
        BY <1>0, <2>1, PassedBefore DEF RemoveTop, OwnPath, At
      <3>3. p \in spared => p \in spared'
        BY <3>2, SparedStays
      <3>4. CASE TmpfilesCreates(p) /\ dir'[p].owner = "dbginfo"
        <4>1. spared' = IF dir[p].owner = "root" THEN spared \cup {p} ELSE spared
          BY <3>4 DEF TmpfilesCreates
        <4>2. dir[p].owner # "dbginfo"
          BY <3>4 DEF TmpfilesCreates
        <4> QED BY <1>0, <3>1, <3>4, <4>1, <4>2 DEF Absent
      <3>5. CASE dir'[p].owner = dir[p].owner
        BY <3>1, <3>3, <3>5 DEF Absent
      <3> QED BY <1>0, <3>1, <3>2, <3>4, <3>5, Dirs
    <2>2. CASE ~Passed(p)
      <3>1. user' = user /\ p = ReqPath
        BY <1>0, <1>1, <2>2, PassedSteps
      <3>2. CASE dir' = dir /\ ~Absent(p) /\ dir[p].owner = user
        BY <3>1, <3>2 DEF Absent
      <3>3. CASE OwnPath
        <4>1. dir' = [dir EXCEPT ![ReqPath].owner = user]
          BY <3>3 DEF OwnPath, Owned
        <4>2. dir'[ReqPath].owner = user
          BY <1>0, <4>1, NewOwner DEF Owner
        <4> QED BY <1>0, <3>1, <4>2 DEF Absent
      <3> QED BY <1>0, <1>1, <2>2, <3>2, <3>3, PassedSteps
    <2> QED BY <2>1, <2>2
  <1>2. ASSUME At("own")' PROVE ~Absent(ReqPath)'
    <2>1. CASE MakePath /\ main'.i = main.i
      <3>1. dir' = Made(ReqPath) /\ ReqPath' = ReqPath
        BY <2>1 DEF MakePath, ReqPath
      <3> QED BY <1>0, <3>1, MadeTree DEF Absent
    <2>2. CASE main' = main
      <3>1. At("own") /\ ReqPath' = ReqPath /\ ~Absent(ReqPath)
        BY <1>2, <2>2 DEF At, ReqPath, StartInv, There
      <3>2. ~RemoveTop
        BY <3>1 DEF RemoveTop, At
      <3> QED BY <1>0, <3>1, <3>2, Dirs DEF Absent
    <2> QED BY <1>0, <1>2, <2>1, <2>2, Steps DEF At
  <1> QED BY <1>1, <1>2 DEF There

\* Where root extracts, the directory is root's, or it was passed over.
LEMMA RootPlaces ==
  ASSUME StartInv, NEW p \in Path, NEW e \in Entry, RootExtracts(p, e)
  PROVE  ~Absent(p) /\ (dir[p].owner = "dbginfo" => p \in spared)
  BY DEF StartInv, There, Passed, RootExtracts, At

LEMMA SparedKept == ASSUME StartInv, [Next]_vars PROVE Spared'
  <1>0. TypeOK /\ ReqPath \in Path /\ user \in {"root", "dbginfo"} /\ dir \in [Path -> Tree]
    BY Typed, ReqPathType DEF StartInv
  <1>1. ASSUME NEW p \in Path, Absent(p)' PROVE dir'[p].old = {}
    <2>1. CASE Absent(p)
      <3>1. dir[p].old = {}
        BY <2>1 DEF StartInv, Spared
      <3>2. \A e \in Entry : ~RootExtracts(p, e)
        BY <2>1, RootPlaces
      <3> QED BY <1>0, <1>1, <3>1, <3>2, Dirs DEF Absent
    <2>2. CASE ~Absent(p)
      BY <1>0, <1>1, <2>2, Dirs DEF Absent
    <2> QED BY <2>1, <2>2
  <1>2. ASSUME NEW p \in Path, dir'[p].owner = "dbginfo", dir'[p].old # {}
        PROVE  p \in spared'
    <2>1. ~(RemoveTop /\ p = ReqPath)
      BY <1>0, <1>2, NewTree DEF RemoveTop, Owner
    <2>2. p \in spared => p \in spared'
      BY <2>1, SparedStays
    <2>3. CASE dir'[p].owner = dir[p].owner /\ dir'[p].old \subseteq dir[p].old
      <3>1. dir[p].owner = "dbginfo" /\ dir[p].old # {}
        BY <1>2, <2>3
      <3> QED BY <2>2, <3>1 DEF StartInv, Spared
    <2>4. CASE dir'[p].owner = dir[p].owner /\ \E e \in Entry : RootExtracts(p, e)
      BY <1>2, <2>2, <2>4, RootPlaces
    <2>5. CASE OwnPath /\ p = ReqPath /\ dir'[p].old = dir[p].old
      BY <1>2, <2>2, <2>5 DEF StartInv, Spared, OwnPath, At
    <2>6. CASE TmpfilesCreates(p) /\ dir'[p].old = dir[p].old
      <3>1. ~Absent(p) /\ dir[p].owner # "dbginfo"
        BY <1>2, <2>6 DEF StartInv, Spared, TmpfilesCreates
      <3>2. dir[p].owner = "root"
        BY <1>0, <3>1 DEF Absent, Tree, Owner
      <3> QED BY <2>6, <3>2 DEF TmpfilesCreates
    <2> QED BY <1>0, <1>2, <2>1, <2>3, <2>4, <2>5, <2>6, Dirs
  <1>3. ASSUME main'.pc \in {"make", "own"}, dir'[ReqPath'].old # {}
        PROVE  ReqPath' \in spared'
    <2>1. CASE ReqPath' = ReqPath /\ main.pc \in {"make", "own"} /\ ~OwnPath
      <3>1. dir[ReqPath].old # {} => ReqPath \in spared
        BY <2>1 DEF StartInv, Spared
      <3>2. ~RemoveTop /\ \A e \in Entry : ~RootExtracts(ReqPath, e)
        BY <2>1 DEF RemoveTop, RootExtracts, At
      <3>3. ReqPath \in spared => ReqPath \in spared'
        BY <3>2, SparedStays
      <3>4. dir'[ReqPath].old \subseteq dir[ReqPath].old
        BY <1>0, <2>1, <3>2, Dirs
      <3> QED BY <1>3, <2>1, <3>1, <3>3, <3>4
    <2>2. CASE LookAtPath /\ Absent(ReqPath) /\ ReqPath' = ReqPath
      <3>1. dir' = dir
        BY <2>2 DEF LookAtPath
      <3> QED BY <1>0, <1>3, <2>2, <3>1 DEF StartInv, Spared
    <2>3. CASE RemoveStops /\ ReqPath' = ReqPath
      BY <2>3 DEF RemoveStops
    <2>4. CASE RemoveTop /\ ReqPath' = ReqPath
      <3>1. dir'[ReqPath].old = {}
        BY <1>0, <2>4, NewTree DEF RemoveTop, Owner
      <3> QED BY <1>3, <2>4, <3>1
    <2>5. main'.i = main.i => ReqPath' = ReqPath
      BY DEF ReqPath
    <2>6. MakePath => main.pc = "make" /\ ~OwnPath
      BY DEF MakePath, OwnPath, At
    <2>7. main' = main => ~OwnPath /\ main.pc \in {"make", "own"}
      <3>1. OwnPath => main'.pc \in {"listen", "look"}
        BY <1>0, NextPlace DEF OwnPath
      <3> QED BY <1>3, <3>1
    <2> QED BY <1>0, <1>3, <2>1, <2>2, <2>3, <2>4, <2>5, <2>6, <2>7, Steps DEF At
  <1> QED BY <1>1, <1>2, <1>3 DEF Spared

LEMMA SettledKept == ASSUME StartInv, [Next]_vars PROVE Settled'
  <1>0. TypeOK /\ ReqPath \in Path /\ user \in {"root", "dbginfo"} /\ dir \in [Path -> Tree]
    BY Typed, ReqPathType DEF StartInv
  <1> SUFFICES ASSUME served'
               PROVE  /\ hasUser'
                      /\ \A p \in Path : dir'[p].owner = "dbginfo"
                      /\ ~At("down")' => user' = "dbginfo"
                      /\ main'.pc \in {"down", "look", "listen", "serve"}
    BY DEF Settled
  <1>1. CASE served
    <2>1. /\ hasUser /\ \A p \in Path : dir[p].owner = "dbginfo"
          /\ ~At("down") => user = "dbginfo"
          /\ main.pc \in {"down", "look", "listen", "serve"}
      BY <1>1 DEF StartInv, Settled
    <2>2. hasUser'
      BY <2>1, UserStays
    <2>3. ~RemoveTop /\ ~OwnPath /\ \A p \in Path : ~Absent(p)
      BY <2>1 DEF RemoveTop, OwnPath, At, Absent
    <2>4. \A p \in Path : dir'[p].owner = "dbginfo"
      BY <2>1, <2>3, <1>0, Dirs
    <2>5. ~At("down")' => user' = "dbginfo"
      <3>1. CASE \E env \in Env : DaemonStarts(env)
        BY <2>1, <3>1 DEF DaemonStarts
      <3>2. CASE ~(\E env \in Env : DaemonStarts(env))
        <4>1. user' = user
          BY <3>2, UserStays
        <4>2. At("down") => main'.pc = "down"
          BY <1>0, <3>2, Steps DEF At, LookAtPath, OwnPath, DaemonEnds
        <4> QED BY <2>1, <4>1, <4>2 DEF At
      <3> QED BY <3>1, <3>2
    <2>6. main'.pc \in {"down", "look", "listen", "serve"}
      BY <1>0, <2>1, <2>3, Steps DEF At
    <2> QED BY <2>2, <2>4, <2>5, <2>6
  <1>2. CASE ~served
    <2>1. Serve /\ user = "dbginfo" /\ At("listen")
      BY <1>2, UserStays DEF Serve
    <2>2. hasUser /\ \A p \in Path : dir[p].owner = "dbginfo"
      BY <2>1 DEF StartInv, Known, There, Passed, At
    <2>3. main'.pc = "serve" /\ hasUser' = hasUser /\ dir' = dir /\ user' = user
      BY <1>0, <2>1, GotoPlace DEF Serve
    <2> QED BY <2>1, <2>2, <2>3
  <1> QED BY <1>1, <1>2

LEMMA StartInit == Init => StartInv
  <1> SUFFICES ASSUME Init PROVE StartInv
    OBVIOUS
  <1>1. NewDir("none") \in Tree /\ NewDir("none").old = {} /\ NewDir("none").owner = "none"
    BY DEF NewDir, Tree, Owner
  <1>2. main \in Place /\ At("down")
    BY DEF Init, Place, At
  <1>3. TypeOK
    <2>1. Defaults.counter = 1
      BY DEF Defaults
    <2>2. served \in BOOLEAN
      BY DEF Init
    <2>3. fuse \in [pc : {"down", "check", "make", "forked"}, i : {1, 2}]
      BY DEF Init
    <2> QED BY <1>1, <1>2, <2>1, <2>2, <2>3, Typed DEF Init
  <1> QED BY <1>1, <1>2, <1>3 DEF Init, StartInv, There, Passed, Known, Spared, Settled, At

LEMMA StartStep == ASSUME StartInv, [Next]_vars PROVE StartInv'
  BY NextType, ThereKept, KnownKept, SparedKept, SettledKept DEF StartInv

\* The invariant.
THEOREM StartInvariant == Spec => []StartInv
  BY StartInit, StartStep, PTL DEF Spec

\* Every variable has its type; no program is ever at a third path.
THEOREM TypeCorrect == Spec => []TypeOK
  <1>1. StartInv => TypeOK
    BY DEF StartInv
  <1> QED BY <1>1, StartInvariant, PTL

\* "The associated cache directories already exist by this point"
\* (server.c:411-413): a daemon that serves has both, and owns them if it has no
\* privileges.
THEOREM DirsHold == Spec => []DirsWhenServing
  <1>1. StartInv => DirsWhenServing
    BY DEF StartInv, There, Passed, At, DirsWhenServing
  <1> QED BY <1>1, StartInvariant, PTL

\* Nothing root owns is left below a directory of dbginfo when the daemon serves,
\* unless it was passed over (server.c:512-529).
THEOREM TransitionHolds == Spec => []TransitionComplete
  <1>1. StartInv => TransitionComplete
    BY DEF StartInv, There, Spared, Passed, At, TransitionComplete
  <1> QED BY <1>1, StartInvariant, PTL

\* "Essentially a one-off operation" (server.c:512-515): once a daemon has served
\* as dbginfo, none removes a directory again and no mount loses its own.
THEOREM OneOffHolds == Spec => OneOffRemoval
  <1>1. ASSUME StartInv, StartInv', [Next]_vars, served
        PROVE  /\ main'.pc # "remove"
               /\ \A p \in Path : view'[p] = "gone" => view[p] = "gone"
    <2>1. served'
      BY <1>1, UserStays DEF StartInv, Settled
    <2>2. main'.pc # "remove"
      BY <1>1, <2>1 DEF StartInv, Settled
    <2>3. ~RemoveTop
      BY <1>1 DEF StartInv, Settled, RemoveTop, At
    <2>4. view \in [Path -> {"none", "cur", "gone", "lost"}]
      BY <1>1, Typed DEF StartInv
    <2>5. \/ view' = view
          \/ \E p \in Path : view' = [view EXCEPT ![p] = IF Absent(p) THEN "lost" ELSE "cur"]
          \/ view' = [p \in Path |-> "none"]
      BY <1>1, <2>3 DEF vars, fuseVars, Next, Daemon, DaemonStarts, LookAtPath, RemoveEntry,
         RemoveStops, MakePath, OwnPath, Serve, DaemonEnds, RootExtracts, Fuse, FuseStarts,
         FuseChecks, FuseMakes, FuseEnds, OpenShadow, Systemd, UserAppears, TmpfilesCreates,
         TmpfilesAges
    <2>6. \A p \in Path : view'[p] = "gone" => view[p] = "gone"
      BY <2>4, <2>5
    <2> QED BY <2>2, <2>6
  <1>2. StartInv /\ StartInv' /\ [Next]_vars =>
          [served => /\ main'.pc # "remove"
                     /\ \A p \in Path : view'[p] = "gone" => view[p] = "gone"]_vars
    BY <1>1
  <1> QED BY <1>2, StartInvariant, PTL DEF Spec, OneOffRemoval

-----------------------------------------------------------------------------
(* The words of the variable.                                              *)

Char == {"u", " "}

\* A variable that is set is a string.
LEMMA EnvIsSeq ==
  ASSUME NEW env \in Env, env # NoEnv PROVE env \in Seq(Char)
  <1>1. PICK n \in 0 .. MaxEnvLen : env \in [1 .. n -> Char]
    BY DEF Env, Char
  <1>2. n \in Nat
    BY DEF EnvAssumption
  <1> QED BY <1>1, <1>2

\* strcspn ends at a separator, or at the end of the string.
LEMMA TokenEnds ==
  ASSUME NEW env \in Seq(Char), NEW i \in 1 .. Len(env) + 1
  PROVE  /\ TokenLen(env, i) \in Nat /\ i + TokenLen(env, i) <= Len(env) + 1
         /\ \A k \in i .. i + TokenLen(env, i) - 1 : ~Blank(env, k)
         /\ i + TokenLen(env, i) <= Len(env) => Blank(env, i + TokenLen(env, i))
  <1> DEFINE I == {k \in i .. Len(env) : Blank(env, k)}
             end == IF I # {} THEN Min(I) ELSE 0
  <1>1. TokenLen(env, i) = IF end = 0 THEN Len(env) + 1 - i ELSE end - i
    BY DEF TokenLen, SelectInSubSeq, Blank
  <1>2. Len(env) \in Nat /\ i \in Nat /\ i <= Len(env) + 1
    OBVIOUS
  <1>3. \A k \in i .. Len(env) : k \notin I => ~Blank(env, k)
    OBVIOUS
  <1>4. \A k \in I : k \in i .. Len(env) /\ Blank(env, k)
    OBVIOUS
  <1> HIDE DEF I
  <1>5. CASE I = {}
    <2>1. TokenLen(env, i) = Len(env) + 1 - i
      BY <1>1, <1>5
    <2>2. \A k \in i .. Len(env) : ~Blank(env, k)
      BY <1>3, <1>5
    <2>3. TokenLen(env, i) \in Nat /\ i + TokenLen(env, i) = Len(env) + 1
      BY <1>2, <2>1
    <2> HIDE DEF end
    <2> QED BY <1>2, <2>2, <2>3
  <1>6. CASE I # {}
    <2>1. PICK m \in I : Min(I) = m /\ \A j \in I : m <= j
      <3>1. I \subseteq Nat
        BY <1>2, <1>4
      <3> QED BY <3>1, <1>6, Lowest
    <2>2. end = m
      BY <1>6, <2>1
    <2> HIDE DEF end
    <2>3. m \in i .. Len(env) /\ Blank(env, m)
      BY <1>4, <2>1
    <2>4. \A k \in i .. m - 1 : ~Blank(env, k)
      <3> SUFFICES ASSUME NEW k \in i .. m - 1 PROVE ~Blank(env, k)
        OBVIOUS
      <3>1. k \in i .. Len(env) /\ ~(m <= k)
        BY <1>2, <2>3
      <3> QED BY <1>3, <2>1, <3>1
    <2>5. TokenLen(env, i) = m - i
      BY <1>1, <1>2, <2>2, <2>3
    <2>6. TokenLen(env, i) \in Nat /\ i + TokenLen(env, i) = m
      BY <1>2, <2>3, <2>5
    <2> QED BY <1>2, <2>3, <2>4, <2>6
  <1> QED BY <1>5, <1>6

\* One turn of the loop of configure_urls, at i, with what follows in f.
Turn(env, i, f) ==
  LET n == TokenLen(env, i)
  IN  (IF n > 0 THEN <<SubSeq(env, i, i + n - 1)>> ELSE <<>>)
        \o IF i + n > Len(env) THEN <<>> ELSE f[i + n + 1]

\* What the recursive function does from i on.
Loops(f, env, i) ==
  /\ f = [j \in i .. Len(env) + 1 |-> f[j]]
  /\ \A j \in i .. Len(env) + 1 : f[j] = Turn(env, j, f)

\* A turn looks only ahead.
LEMMA TurnAhead ==
  ASSUME NEW env \in Seq(Char), NEW i \in 1 .. Len(env) + 1, NEW f, NEW g,
         \A j \in i + 1 .. Len(env) + 1 : f[j] = g[j]
  PROVE  Turn(env, i, f) = Turn(env, i, g)
  <1>1. ~(i + TokenLen(env, i) > Len(env)) =>
          i + TokenLen(env, i) + 1 \in i + 1 .. Len(env) + 1
    BY TokenEnds
  <1> QED BY <1>1 DEF Turn

\* Built from the end of the variable.
LEMMA LoopsExists ==
  ASSUME NEW env \in Seq(Char)
  PROVE  \E f : Loops(f, env, 1)
  <1> DEFINE L == Len(env)
             S == {k \in 0 .. L : \E f : Loops(f, env, L + 1 - k)}
  <1>0. L \in Nat
    OBVIOUS
  <1>1. 0 \in S
    <2> DEFINE f == [j \in L + 1 .. L + 1 |-> Turn(env, j, [m \in {} |-> 0])]
    <2>1. \A j \in L + 1 .. L + 1 : f[j] = Turn(env, j, f)
      <3> SUFFICES ASSUME NEW j \in L + 1 .. L + 1
                   PROVE  Turn(env, j, [m \in {} |-> 0]) = Turn(env, j, f)
        OBVIOUS
      <3>1. \A g : Turn(env, j, g) = Turn(env, j, [m \in {} |-> 0])
        BY <1>0, TurnAhead
      <3> QED BY <3>1
    <2>2. Loops(f, env, L + 1)
      <3>1. f = [j \in L + 1 .. L + 1 |-> f[j]]
        OBVIOUS
      <3> HIDE DEF f
      <3> QED BY <2>1, <3>1 DEF Loops
    <2> HIDE DEF f
    <2> QED BY <1>0, <2>2
  <1>2. ASSUME NEW k \in 1 .. L, k - 1 \in S PROVE k \in S
    <2> DEFINE i == L + 1 - k
    <2>1. i \in 1 .. L /\ L + 1 - (k - 1) = i + 1
      BY <1>0
    <2>2. PICK g : Loops(g, env, i + 1)
      BY <1>2, <2>1
    <2> DEFINE f == [j \in i .. L + 1 |-> IF j = i THEN Turn(env, i, g) ELSE g[j]]
    <2>3. \A j \in i + 1 .. L + 1 : f[j] = g[j]
      BY <2>1
    <2>4. f = [j \in i .. L + 1 |-> f[j]] /\ f[i] = Turn(env, i, g)
      BY <1>0, <2>1
    <2> HIDE DEF f, i
    <2>5. ASSUME NEW j \in i .. L + 1 PROVE Turn(env, j, f) = Turn(env, j, g)
      <3>1. j \in 1 .. L + 1 /\ \A m \in j + 1 .. L + 1 : m \in i + 1 .. L + 1
        BY <1>0, <2>1
      <3> QED BY <2>3, <3>1, TurnAhead
    <2>6. \A j \in i .. L + 1 : f[j] = Turn(env, j, f)
      <3> SUFFICES ASSUME NEW j \in i .. L + 1 PROVE f[j] = Turn(env, j, g)
        BY <2>5
      <3>1. j = i \/ j \in i + 1 .. L + 1
        BY <1>0, <2>1
      <3> QED BY <2>2, <2>3, <2>4, <3>1 DEF Loops
    <2>7. Loops(f, env, i)
      BY <2>4, <2>6 DEF Loops
    <2> QED BY <2>7 DEF i
  <1>3. 0 .. L \subseteq S
    <2> HIDE DEF S
    <2> QED BY <1>0, <1>1, <1>2, InductiveUpTo
  <1>4. L + 1 - L = 1 /\ L \in S
    BY <1>0, <1>3
  <1> QED BY <1>4

\* So the function Split chooses is one that loops.
LEMMA SplitDef ==
  ASSUME NEW env \in Seq(Char)
  PROVE  \E f : Loops(f, env, 1) /\ Split(env) = f[1]
  <1> DEFINE F(f) == [i \in 1 .. Len(env) + 1 |-> Turn(env, i, f)]
             from == CHOOSE f : f = F(f)
  <1>1. PICK f : Loops(f, env, 1)
    BY LoopsExists
  <1>2. f = F(f)
    BY <1>1 DEF Loops
  <1>3. from = F(from)
    BY <1>2
  <1>4. Split(env) = from[1]
    BY DEF Split, Turn
  <1> HIDE DEF from
  <1>5. Loops(from, env, 1)
    <2>1. \A j \in 1 .. Len(env) + 1 : from[j] = Turn(env, j, from)
      BY <1>3
    <2>2. from = [j \in 1 .. Len(env) + 1 |-> from[j]]
      BY <1>3
    <2> QED BY <2>1, <2>2 DEF Loops
  <1> QED BY <1>4, <1>5

\* Where words begin from i on, if one may begin at i.
StartsFrom(env, i) ==
  {j \in i .. Len(env) : ~Blank(env, j) /\ (j = i \/ Blank(env, j - 1))}

\* The list has the words from i on.
WordsFrom(env, i, list, at) ==
  /\ at \in [DOMAIN list -> StartsFrom(env, i)]
  /\ \A j \in StartsFrom(env, i) : \E k \in DOMAIN list : at[k] = j
  /\ \A k \in DOMAIN list : RunFrom(env, at[k], list[k])
  /\ \A k, m \in DOMAIN list : k < m => at[k] < at[m]

LEMMA FromOne ==
  ASSUME NEW env \in Seq(Char) PROVE Starts(env) = StartsFrom(env, 1)
  BY DEF Starts, StartsFrom

\* A separator is no word, and one may begin behind it.
LEMMA PassBlank ==
  ASSUME NEW env \in Seq(Char), NEW i \in 1 .. Len(env), Blank(env, i)
  PROVE  StartsFrom(env, i) = StartsFrom(env, i + 1)
  <1>1. \A j \in i .. Len(env) : j # i => j - 1 = i \/ j - 1 >= i + 1
    OBVIOUS
  <1>2. \A j \in i + 1 .. Len(env) : j = i + 1 => j - 1 = i
    OBVIOUS
  <1> QED BY <1>1, <1>2 DEF StartsFrom

\* After a word of length n there is a separator.
LEMMA PassWord ==
  ASSUME NEW env \in Seq(Char), NEW i \in 1 .. Len(env), NEW n \in Nat \ {0},
         i + n <= Len(env) + 1,
         \A k \in i .. i + n - 1 : ~Blank(env, k),
         i + n <= Len(env) => Blank(env, i + n)
  PROVE  /\ i \in StartsFrom(env, i)
         /\ RunFrom(env, i, SubSeq(env, i, i + n - 1))
         /\ i + n > Len(env) => StartsFrom(env, i) = {i}
         /\ i + n <= Len(env) =>
              StartsFrom(env, i) = {i} \cup StartsFrom(env, i + n + 1)
  <1>1. i \in i .. i + n - 1 /\ i + n - 1 \in i .. Len(env)
    OBVIOUS
  <1>2. i \in StartsFrom(env, i)
    BY <1>1 DEF StartsFrom
  <1>3. RunFrom(env, i, SubSeq(env, i, i + n - 1))
    BY <1>1 DEF RunFrom
  <1>4. ASSUME NEW j \in StartsFrom(env, i), j # i
        PROVE  i + n <= Len(env) /\ j \in StartsFrom(env, i + n + 1)
    <2>1. j \in i .. Len(env) /\ ~Blank(env, j) /\ Blank(env, j - 1)
      BY <1>4 DEF StartsFrom
    <2>2. ~(j - 1 \in i .. i + n - 1)
      BY <2>1
    <2>3. j - 1 >= i + n /\ i + n <= Len(env)
      BY <1>4, <2>1, <2>2
    <2>4. j \in i + n + 1 .. Len(env)
      BY <2>1, <2>3
    <2> QED BY <2>1, <2>3, <2>4 DEF StartsFrom
  <1>5. ASSUME i + n <= Len(env), NEW j \in StartsFrom(env, i + n + 1)
        PROVE  j \in StartsFrom(env, i)
    <2>1. j \in i + n + 1 .. Len(env) /\ ~Blank(env, j)
          /\ (j = i + n + 1 \/ Blank(env, j - 1))
      BY <1>5 DEF StartsFrom
    <2>2. j = i + n + 1 => j - 1 = i + n
      BY <2>1
    <2>3. j \in i .. Len(env) /\ Blank(env, j - 1)
      BY <1>5, <2>1, <2>2
    <2> QED BY <2>1, <2>3 DEF StartsFrom
  <1>6. i + n > Len(env) => ~(i + n <= Len(env))
    OBVIOUS
  <1> QED BY <1>2, <1>3, <1>4, <1>5, <1>6

\* Lists of words.
Lists == Seq(Seq(Char))

\* A word in front of those that follow.
LEMMA WordFirst ==
  ASSUME NEW env \in Seq(Char), NEW i \in 1 .. Len(env), NEW w \in Seq(Char),
         RunFrom(env, i, w), NEW p, p > i, p \in Nat,
         StartsFrom(env, i) = {i} \cup StartsFrom(env, p),
         NEW list \in Lists, NEW at, WordsFrom(env, p, list, at)
  PROVE  \E b : WordsFrom(env, i, <<w>> \o list, b)
  <1> DEFINE l == <<w>> \o list
             b == [k \in 1 .. Len(list) + 1 |-> IF k = 1 THEN i ELSE at[k - 1]]
  <1>1. /\ Len(list) \in Nat /\ DOMAIN list = 1 .. Len(list)
        /\ l \in Lists /\ DOMAIN l = 1 .. Len(list) + 1
        /\ l[1] = w /\ \A k \in 2 .. Len(list) + 1 : l[k] = list[k - 1]
    BY DEF Lists
  <1> HIDE DEF l
  <1>2. \A k \in 2 .. Len(list) + 1 : k - 1 \in DOMAIN list
    BY <1>1
  <1>3. \A j \in StartsFrom(env, p) : j \in Int /\ j > i
    BY DEF StartsFrom
  <1>4. b[1] = i /\ \A k \in 2 .. Len(list) + 1 : b[k] = at[k - 1]
    BY <1>1
  <1>5. \A k \in 1 .. Len(list) + 1 : k = 1 \/ k \in 2 .. Len(list) + 1
    BY <1>1
  <1>6. \A k \in 2 .. Len(list) + 1 : b[k] \in StartsFrom(env, p)
    BY <1>2, <1>4 DEF WordsFrom
  <1>7. b \in [DOMAIN l -> StartsFrom(env, i)]
    <2>1. \A k \in 1 .. Len(list) + 1 : b[k] \in StartsFrom(env, i)
      BY <1>4, <1>5, <1>6
    <2> QED BY <1>1, <2>1
  <1> HIDE DEF b
  <1>8. ASSUME NEW j \in StartsFrom(env, i) PROVE \E k \in DOMAIN l : b[k] = j
    <2>1. CASE j = i
      <3>1. 1 \in DOMAIN l
        BY <1>1
      <3> QED BY <1>4, <2>1, <3>1
    <2>2. CASE j \in StartsFrom(env, p)
      <3>1. PICK k \in DOMAIN list : at[k] = j
        BY <2>2 DEF WordsFrom
      <3>2. k + 1 \in 2 .. Len(list) + 1 /\ (k + 1) - 1 = k /\ k + 1 \in DOMAIN l
        BY <1>1
      <3> QED BY <1>4, <3>1, <3>2
    <2> QED BY <2>1, <2>2
  <1>9. \A k \in DOMAIN l : RunFrom(env, b[k], l[k])
    BY <1>1, <1>2, <1>4, <1>5 DEF WordsFrom
  <1>10. ASSUME NEW k \in DOMAIN l, NEW m \in DOMAIN l, k < m PROVE b[k] < b[m]
    <2>1. m \in 2 .. Len(list) + 1
      BY <1>1, <1>10
    <2>2. CASE k = 1
      BY <1>3, <1>4, <1>6, <2>1, <2>2
    <2>3. CASE k \in 2 .. Len(list) + 1
      <3>1. k - 1 < m - 1
        BY <1>10, <2>1, <2>3
      <3> QED BY <1>2, <1>4, <2>1, <2>3, <3>1 DEF WordsFrom
    <2> QED BY <1>1, <1>5, <2>2, <2>3
  <1>11. WordsFrom(env, i, l, b)
    BY <1>7, <1>8, <1>9, <1>10 DEF WordsFrom
  <1> QED BY <1>11 DEF l

\* One turn: what follows has the words behind the token, and the separator.
LEMMA TurnWords ==
  ASSUME NEW env \in Seq(Char), NEW i \in 1 .. Len(env) + 1, NEW f,
         \A j \in i + 1 .. Len(env) + 1 :
           f[j] \in Lists /\ \E at : WordsFrom(env, j, f[j], at)
  PROVE  Turn(env, i, f) \in Lists /\ \E at : WordsFrom(env, i, Turn(env, i, f), at)
  <1> DEFINE n == TokenLen(env, i)
             p == i + n + 1
             w == SubSeq(env, i, i + n - 1)
  <1>1. /\ n \in Nat /\ i + n <= Len(env) + 1
        /\ \A k \in i .. i + n - 1 : ~Blank(env, k)
        /\ i + n <= Len(env) => Blank(env, i + n)
    BY TokenEnds
  <1>2. Turn(env, i, f) = (IF n > 0 THEN <<w>> ELSE <<>>)
                            \o IF i + n > Len(env) THEN <<>> ELSE f[p]
    BY DEF Turn
  <1> HIDE DEF n
  <1>3. Len(env) \in Nat /\ i \in Nat
    OBVIOUS
  <1>4. <<>> \in Lists /\ \A g \in Lists : <<>> \o g = g
    BY DEF Lists
  <1>5. ASSUME NEW j \in Int, StartsFrom(env, j) = {} PROVE \E at : WordsFrom(env, j, <<>>, at)
    <2> DEFINE at == [k \in {} |-> j]
    <2>1. DOMAIN <<>> = {} /\ at \in [{} -> StartsFrom(env, j)]
      OBVIOUS
    <2>2. WordsFrom(env, j, <<>>, at)
      BY <1>5, <2>1 DEF WordsFrom
    <2> QED BY <2>2
  <1>6. CASE n = 0 /\ i + n > Len(env)
    <2>1. Turn(env, i, f) = <<>>
      BY <1>2, <1>4, <1>6
    <2>2. i = Len(env) + 1
      BY <1>1, <1>3, <1>6
    <2>3. StartsFrom(env, i) = {}
      BY <1>3, <2>2 DEF StartsFrom
    <2> QED BY <1>3, <1>4, <1>5, <2>1, <2>3
  <1>7. CASE n = 0 /\ ~(i + n > Len(env))
    <2>1. i \in 1 .. Len(env) /\ Blank(env, i) /\ p = i + 1 /\ p \in i + 1 .. Len(env) + 1
      BY <1>1, <1>3, <1>7
    <2>2. f[p] \in Lists /\ Turn(env, i, f) = f[p]
      BY <1>2, <1>4, <1>7, <2>1
    <2>3. StartsFrom(env, i) = StartsFrom(env, p)
      BY <2>1, PassBlank
    <2> HIDE DEF p
    <2> QED BY <2>1, <2>2, <2>3 DEF WordsFrom
  <1>8. CASE n > 0
    <2>1. i \in 1 .. Len(env) /\ n \in Nat \ {0}
      BY <1>1, <1>3, <1>8
    <2>2. w \in Seq(Char)
      BY <1>1, <1>3, <2>1
    <2>3. /\ RunFrom(env, i, w)
          /\ i + n > Len(env) => StartsFrom(env, i) = {i}
          /\ i + n <= Len(env) =>
               StartsFrom(env, i) = {i} \cup StartsFrom(env, i + n + 1)
      BY <1>1, <2>1, PassWord
    <2> DEFINE rest == IF i + n > Len(env) THEN <<>> ELSE f[p]
    <2>4. Turn(env, i, f) = <<w>> \o rest
      BY <1>2, <1>8
    <2>5. p \in Nat /\ p > i
      BY <1>1, <1>3
    <2>6. /\ rest \in Lists /\ \E at : WordsFrom(env, p, rest, at)
          /\ StartsFrom(env, i) = {i} \cup StartsFrom(env, p)
      <3>1. CASE i + n > Len(env)
        <4>1. StartsFrom(env, p) = {}
          BY <1>1, <1>3, <3>1 DEF StartsFrom
        <4> HIDE DEF p
        <4> QED BY <1>4, <1>5, <2>3, <2>5, <3>1, <4>1
      <3>2. CASE ~(i + n > Len(env))
        <4>1. p \in i + 1 .. Len(env) + 1
          BY <1>1, <1>3, <3>2
        <4>2. i + n <= Len(env)
          BY <1>1, <1>3, <3>2
        <4> QED BY <2>3, <3>2, <4>1, <4>2
      <3> QED BY <3>1, <3>2
    <2> HIDE DEF w, p, rest
    <2>7. <<w>> \o rest \in Lists
      BY <2>2, <2>6 DEF Lists
    <2>8. \E b : WordsFrom(env, i, <<w>> \o rest, b)
      BY <2>1, <2>2, <2>3, <2>5, <2>6, WordFirst
    <2> QED BY <2>4, <2>7, <2>8
  <1> QED BY <1>1, <1>6, <1>7, <1>8

\* The loop finds the words, from any point on.
LEMMA SplitWords ==
  ASSUME NEW env \in Seq(Char)
  PROVE  Split(env) \in Lists /\ AreWords(env, Split(env))
  <1>1. PICK f : Loops(f, env, 1) /\ Split(env) = f[1]
    BY SplitDef
  <1> DEFINE L == Len(env)
             Good(i) == f[i] \in Lists /\ \E at : WordsFrom(env, i, f[i], at)
             S == {k \in 0 .. L : \A i \in L + 1 - k .. L + 1 : Good(i)}
  <1>2. L \in Nat
    OBVIOUS
  <1>3. ASSUME NEW i \in 1 .. L + 1, \A j \in i + 1 .. L + 1 : Good(j) PROVE Good(i)
    <2>1. f[i] = Turn(env, i, f)
      BY <1>1 DEF Loops
    <2> QED BY <1>3, <2>1, TurnWords
  <1> HIDE DEF Good
  <1>4. 0 \in S
    <2>1. Good(L + 1)
      <3>1. L + 1 \in 1 .. L + 1 /\ \A j \in L + 1 + 1 .. L + 1 : Good(j)
        BY <1>2
      <3> QED BY <1>3, <3>1
    <2>2. \A i \in L + 1 - 0 .. L + 1 : i = L + 1
      BY <1>2
    <2> QED BY <1>2, <2>1, <2>2
  <1>5. ASSUME NEW k \in 1 .. L, k - 1 \in S PROVE k \in S
    <2> DEFINE i == L + 1 - k
    <2>1. i \in 1 .. L + 1 /\ L + 1 - (k - 1) = i + 1
      BY <1>2
    <2>2. \A j \in i + 1 .. L + 1 : Good(j)
      BY <1>5, <2>1
    <2>3. Good(i)
      BY <1>3, <2>1, <2>2
    <2>4. \A j \in i .. L + 1 : j = i \/ j \in i + 1 .. L + 1
      BY <1>2, <2>1
    <2> QED BY <2>2, <2>3, <2>4
  <1>6. 0 .. L \subseteq S
    <2> HIDE DEF S
    <2> QED BY <1>2, <1>4, <1>5, InductiveUpTo
  <1>7. L \in S /\ 1 \in L + 1 - L .. L + 1
    BY <1>2, <1>6
  <1>8. Good(1)
    BY <1>7
  <1>9. PICK at : WordsFrom(env, 1, f[1], at)
    BY <1>8 DEF Good
  <1>10. AreWords(env, f[1])
    BY <1>9, FromOne DEF AreWords, WordsFrom
  <1> QED BY <1>1, <1>8, <1>10 DEF Good

\* The first character that is no separator begins a word.
LEMMA HasStart ==
  ASSUME NEW env \in Seq(Char), NEW i \in 1 .. Len(env), ~Blank(env, i)
  PROVE  Starts(env) # {}
  <1> DEFINE T == {k \in 1 .. Len(env) : ~Blank(env, k)}
  <1>1. T \subseteq Nat /\ T # {}
    OBVIOUS
  <1>2. PICK m \in T : \A k \in T : m <= k
    <2> HIDE DEF T
    <2> QED BY <1>1, Least
  <1>3. m \in 1 .. Len(env) /\ ~Blank(env, m)
    OBVIOUS
  <1>4. m # 1 => Blank(env, m - 1)
    <2> SUFFICES ASSUME m # 1, ~Blank(env, m - 1) PROVE FALSE
      OBVIOUS
    <2>1. m - 1 \in T /\ ~(m <= m - 1)
      BY <1>3
    <2> QED BY <1>2, <2>1
  <1>5. m \in DOMAIN env
    BY <1>3
  <1>6. m \in Starts(env)
    BY <1>3, <1>4, <1>5 DEF Starts
  <1> QED BY <1>6

\* There are no words exactly if there are only separators.
LEMMA NoWords ==
  ASSUME NEW env \in Seq(Char)
  PROVE  Split(env) = <<>> <=> \A i \in DOMAIN env : Blank(env, i)
  <1>1. Split(env) \in Lists /\ DOMAIN env = 1 .. Len(env)
    BY SplitWords
  <1>2. PICK at \in [DOMAIN Split(env) -> Starts(env)] :
          \A i \in Starts(env) : \E k \in DOMAIN Split(env) : at[k] = i
    BY SplitWords DEF AreWords
  <1>3. Split(env) = <<>> <=> DOMAIN Split(env) = {}
    BY <1>1 DEF Lists
  <1>4. Starts(env) = {} <=> \A i \in DOMAIN env : Blank(env, i)
    BY <1>1, HasStart DEF Starts
  <1> QED BY <1>2, <1>3, <1>4

\* "Read URLs from environment variable, space separated" (server.c:103): the
\* words of the variable, however long it is, or the defaults if it has none.
THEOREM UrlsHold == Spec => UrlsConfigured
  <1>1. ASSUME NEW env \in Env, DaemonStarts(env)
        PROVE  IF env = NoEnv \/ \A i \in DOMAIN env : Blank(env, i)
               THEN urls' = Defaults
               ELSE AreWords(env, urls'.list) /\ urls'.counter = 0
    <2>1. urls' = Configured(env)
      BY <1>1 DEF DaemonStarts
    <2>2. CASE env = NoEnv
      BY <2>1, <2>2 DEF Configured
    <2>3. CASE env # NoEnv
      <3>1. env \in Seq(Char)
        BY <2>3, EnvIsSeq
      <3>2. Split(env) = <<>> <=> \A i \in DOMAIN env : Blank(env, i)
        BY <3>1, NoWords
      <3>3. AreWords(env, Split(env))
        BY <3>1, SplitWords
      <3> QED BY <2>1, <2>3, <3>2, <3>3 DEF Configured
    <2> QED BY <2>2, <2>3
  <1>2. [\A env \in Env : DaemonStarts(env) =>
           IF env = NoEnv \/ \A i \in DOMAIN env : Blank(env, i)
           THEN urls' = Defaults
           ELSE AreWords(env, urls'.list) /\ urls'.counter = 0]_vars
    BY <1>1
  <1> QED BY <1>2, PTL DEF UrlsConfigured
=============================================================================
