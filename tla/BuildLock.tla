------------------------------ MODULE BuildLock ------------------------------
(***************************************************************************)
(* make.run and the lock file it keeps its invocations apart with.         *)
(*                                                                         *)
(* An invocation tests for make.lock, writes it, has gen_cmake.py write    *)
(* CMakeLists.txt of each project and runs cmake on it, removes the lock,  *)
(* and only then runs make in each project.  CMakeLists.txt is one file    *)
(* per project, written for one mode; the build directories are one per    *)
(* project and mode.                                                       *)
(*                                                                         *)
(* The script ignores the exit code of every command.  Where gen_cmake.py  *)
(* fails the CMakeLists.txt of before stays and there may be no build      *)
(* directory; then the cd into it fails, the "cd -" behind it leaves the   *)
(* top directory for the one before, and every later command, the removal  *)
(* of the lock included, runs where it was not meant to.                   *)
(***************************************************************************)
EXTENDS Integers, Sequences

CONSTANTS
  Invocations,  \* runs of make.run
  Modes,        \* debug, release
  Projects,     \* the projects of make.conf, in its order
  None,         \* no CMakeLists.txt yet, or an unconfigured build directory
  Truncated,    \* a CMakeLists.txt that gen_cmake.py has opened and not written
  Top,          \* the directory of make.run and make.lock
  Elsewhere,    \* the directory the caller's shell was in before
  MaxFails,     \* bound on gen_cmake.py failing in the top directory
  MaxKills,     \* bound on invocations interrupted half way
  MaxUnlocks    \* bound on uses of "make.run unlock"

ASSUME BuildLockAssumption ==
  /\ Projects \in Seq(STRING) /\ Projects # <<>>
  /\ None \notin Modes /\ Truncated \notin Modes /\ None # Truncated
  /\ Top \notin STRING \X Modes /\ Elsewhere \notin STRING \X Modes
  /\ Top # Elsewhere
  /\ MaxFails \in Nat /\ MaxKills \in Nat /\ MaxUnlocks \in Nat

ProjectNames == {Projects[i] : i \in 1..Len(Projects)}

\* ./<project>/build_<mode>
BuildDirs == ProjectNames \X Modes

\* -sName, or all.
Apps == {Projects} \cup {<<a>> : a \in ProjectNames}

VARIABLES
  make_lock,   \* who has written the make.lock there is; {} is none there
  pc,          \* per invocation: the next command
  mode, app,   \* per invocation: what it was asked to build
  todo,        \* per invocation: projects its loop has left
  lists,       \* per project: the mode CMakeLists.txt was written for
  dirs,        \* the build directories there are
  configured,  \* per build directory: the mode it is set up for
  cwd, last,   \* per invocation: PWD and OLDPWD; an unset OLDPWD is as the top's
  failed,      \* history: per invocation, a gen_cmake.py of it has failed
  made,        \* history: per invocation, build directories made, each with its set-up
  alone,       \* history: per invocation, no other was at work since it began
  fails, kills, unlocks

asked == <<mode, app>>
files == <<lists, dirs, configured>>
place == <<cwd, last>>
bounds == <<fails, kills, unlocks>>
vars == <<make_lock, pc, asked, todo, files, place, failed, made, alone, bounds>>

Running(p) == pc[p] \in {"lock", "dated", "gen", "generating", "cmake", "unlock", "make"}

\* Between the writing of the lock and its removal.
Holds(p) == pc[p] \in {"dated", "gen", "generating", "cmake", "unlock"}

Init ==
  /\ make_lock = {}
  /\ pc = [p \in Invocations |-> "idle"]
  /\ mode \in [Invocations -> Modes] /\ app \in [Invocations -> Apps]
  /\ todo = app
  /\ lists = [a \in ProjectNames |-> None]
  /\ dirs = {}
  /\ configured = [d \in BuildDirs |-> None]
  /\ made = [p \in Invocations |-> {}]
  /\ alone = [p \in Invocations |-> FALSE]
  /\ cwd = [p \in Invocations |-> Top]
  /\ last \in [Invocations -> {Top, Elsewhere}]
  /\ failed = [p \in Invocations |-> FALSE]
  /\ fails = 0 /\ kills = 0 /\ unlocks = 0

\* A step of p from one command to the next.
Step(p, from, to) == pc[p] = from /\ pc' = [pc EXCEPT ![p] = to]

\* try_lock: [ -f make.lock ] && exit 1
Refused(p) ==
  /\ make_lock # {} /\ Step(p, "idle", "refused")
  /\ UNCHANGED <<make_lock, asked, todo, files, place, failed, made, alone, bounds>>

TestLock(p) ==
  /\ make_lock = {} /\ Step(p, "idle", "lock")
  /\ alone' = [q \in Invocations |->
                 IF q = p THEN \A o \in Invocations : ~Running(o)
                          ELSE alone[q] /\ ~Running(q)]
  /\ UNCHANGED <<make_lock, asked, todo, files, place, failed, made, bounds>>

\* date > make.lock, whether or not another invocation has written it since.
WriteLock(p) ==
  /\ Step(p, "lock", "dated")
  /\ make_lock' = {p}
  /\ UNCHANGED <<asked, todo, files, place, failed, made, alone, bounds>>

\* echo $* >> make.lock, which another one may have rewritten or removed since.
NameLock(p) ==
  /\ Step(p, "dated", "gen")
  /\ make_lock' = make_lock \cup {p}
  /\ UNCHANGED <<asked, todo, files, place, failed, made, alone, bounds>>

\* gen_cmake.py: make the build directory, open(CMakeLists.txt, 'w'), write and
\* close.
Target(p) == <<Head(todo[p]), mode[p]>>

KeepOld(p) ==                                  \* mutant: an existing file is kept
  /\ cwd[p] = Top
  /\ Step(p, "gen", IF lists[Head(todo[p])] = None THEN "generating" ELSE "cmake")
  /\ dirs' = dirs \cup {Target(p)}
  /\ UNCHANGED <<make_lock, asked, todo, lists, configured, place, failed, made,
                 alone, bounds>>
NoMkdir(p) ==                                  \* mutant: no build directory made
  /\ cwd[p] = Top /\ Step(p, "gen", "generating")
  /\ lists' = [lists EXCEPT ![Head(todo[p])] = Truncated]
  /\ UNCHANGED <<make_lock, asked, todo, dirs, configured, place, failed, made, alone,
                 bounds>>
OpenLists(p) ==
  /\ cwd[p] = Top /\ Step(p, "gen", "generating")
  /\ dirs' = dirs \cup {Target(p)}
  /\ lists' = [lists EXCEPT ![Head(todo[p])] = Truncated]
  /\ UNCHANGED <<make_lock, asked, todo, configured, place, failed, made, alone,
                 bounds>>

WriteLists(p) ==
  /\ Step(p, "generating", "cmake")
  /\ lists' = [lists EXCEPT ![Head(todo[p])] = mode[p]]
  /\ UNCHANGED <<make_lock, asked, todo, dirs, configured, place, failed, made,
                 alone, bounds>>

\* A configuration file is missing or wrong, there is no gen_cmake.py here, or it
\* cannot make the directory, open the file or write it: it ends behind any step.
GenFails(p) ==
  /\ Step(p, "gen", "cmake") \/ Step(p, "generating", "cmake")
  /\ IF cwd[p] = Top THEN fails < MaxFails /\ fails' = fails + 1 ELSE UNCHANGED fails
  /\ \/ UNCHANGED dirs
     \/ pc[p] = "gen" /\ cwd[p] = Top /\ dirs' = dirs \cup {Target(p)}
  /\ failed' = [failed EXCEPT ![p] = TRUE]
  /\ UNCHANGED <<make_lock, asked, todo, lists, configured, place, made, alone, kills,
                 unlocks>>

\* cd ./$1/build_$2, the directory that the command behind it runs in, and cd -,
\* which goes back to the top or, if there was no such directory, changes the
\* top for the directory before.
Entered(p) == cwd[p] = Top /\ Target(p) \in dirs
Dir(p) == IF Entered(p) THEN Target(p) ELSE cwd[p]
CdBack(p) ==
  /\ cwd' = [cwd EXCEPT ![p] = IF Entered(p) THEN Top ELSE last[p]]
  /\ last' = [last EXCEPT ![p] = Dir(p)]

\* What cmake .. sets the build directory d up for; it fails on a truncated file.
SetUp(d) == IF lists[d[1]] \in Modes THEN lists[d[1]] ELSE configured[d]

\* cmake .. in the build directory, and on to the next project or to unlock.
CMakeOnceMore(p) ==                            \* mutant: one round too many
  /\ Step(p, "cmake", IF todo[p] = <<>> THEN "unlock" ELSE "gen")
  /\ todo' = [todo EXCEPT ![p] = Tail(@)]
  /\ UNCHANGED <<make_lock, asked, files, place, failed, made, alone, bounds>>
CMake(p) ==
  /\ Step(p, "cmake", IF Tail(todo[p]) = <<>> THEN "unlock" ELSE "gen")
  /\ todo' = [todo EXCEPT ![p] = Tail(@)]
  /\ configured' = [d \in BuildDirs |-> IF d = Dir(p) THEN SetUp(d) ELSE configured[d]]
  /\ CdBack(p)
  /\ UNCHANGED <<make_lock, asked, lists, dirs, failed, made, alone, bounds>>

\* rm make.lock, whoever wrote it, if this is where it is; make comes after it.
KeepLock(p) ==                                 \* mutant: only "all" unlocks
  /\ Step(p, "unlock", "make")
  /\ make_lock' = IF app[p] = Projects THEN {} ELSE make_lock
  /\ todo' = [todo EXCEPT ![p] = app[p]]
  /\ UNCHANGED <<asked, files, place, failed, made, alone, bounds>>
RemoveLock(p) ==
  /\ Step(p, "unlock", "make")
  /\ make_lock' = IF cwd[p] = Top THEN {} ELSE make_lock
  /\ todo' = [todo EXCEPT ![p] = app[p]]
  /\ UNCHANGED <<asked, files, place, failed, made, alone, bounds>>

\* make: the makefiles run cmake again if CMakeLists.txt looks newer.
Make(p) ==
  /\ Step(p, "make", IF Tail(todo[p]) = <<>> THEN "done" ELSE "make")
  /\ todo' = [todo EXCEPT ![p] = Tail(@)]
  /\ \/ UNCHANGED configured
     \/ configured' = [d \in BuildDirs |-> IF d = Dir(p) THEN SetUp(d) ELSE configured[d]]
  /\ made' = [made EXCEPT ![p] =
                @ \cup {<<d, configured'[d]>> : d \in {Dir(p)} \cap BuildDirs}]
  /\ CdBack(p)
  /\ UNCHANGED <<make_lock, asked, lists, dirs, failed, alone, bounds>>

\* The invocation is interrupted; nothing removes its lock.
Kill(p) ==
  /\ kills < MaxKills /\ kills' = kills + 1
  /\ Running(p)
  /\ pc' = [pc EXCEPT ![p] = IF Holds(p) THEN "killed_holding" ELSE "killed"]
  /\ UNCHANGED <<make_lock, asked, todo, files, place, failed, made, alone, fails,
                 unlocks>>

\* make.run unlock
UnlockCommand ==
  /\ unlocks < MaxUnlocks /\ unlocks' = unlocks + 1
  /\ make_lock # {} /\ make_lock' = {}
  /\ UNCHANGED <<pc, asked, todo, files, place, failed, made, alone, fails, kills>>

Ended == (\A p \in Invocations : pc[p] # "idle" /\ ~Running(p)) /\ UNCHANGED vars

Next ==
  \/ \E p \in Invocations :
       \/ Refused(p) \/ TestLock(p) \/ WriteLock(p) \/ NameLock(p)
       \/ OpenLists(p) \/ WriteLists(p) \/ GenFails(p) \/ CMake(p)
       \/ RemoveLock(p) \/ Make(p) \/ Kill(p)
  \/ UnlockCommand
  \/ Ended

Spec == Init /\ [][Next]_vars

-----------------------------------------------------------------------------
(* Properties.                                                              *)

\* Every variable has its type.
TypeOK ==
  /\ make_lock \subseteq Invocations
  /\ pc \in [Invocations -> {"idle", "refused", "lock", "dated", "gen", "generating",
                             "cmake", "unlock", "make", "done", "killed",
                             "killed_holding"}]
  /\ mode \in [Invocations -> Modes] /\ app \in [Invocations -> Apps]
  /\ todo \in [Invocations -> Seq(ProjectNames)]
  /\ \A p \in Invocations :
       pc[p] = "idle" \/ (Running(p) /\ pc[p] # "unlock") => todo[p] # <<>>
  /\ lists \in [ProjectNames -> Modes \cup {None, Truncated}]
  /\ dirs \subseteq BuildDirs
  /\ configured \in [BuildDirs -> Modes \cup {None}]
  /\ cwd \in [Invocations -> BuildDirs \cup {Top, Elsewhere}]
  /\ last \in [Invocations -> BuildDirs \cup {Top, Elsewhere}]
  /\ failed \in [Invocations -> BOOLEAN]
  /\ made \in [Invocations -> SUBSET (BuildDirs \X (Modes \cup {None}))]
  /\ alone \in [Invocations -> BOOLEAN]
  /\ fails \in 0..MaxFails /\ kills \in 0..MaxKills /\ unlocks \in 0..MaxUnlocks

\* make.lock never outlives those who wrote it: each of them is between try_lock
\* and unlock, was killed there, or had a gen_cmake.py fail and was then in the
\* wrong directory to remove it, however many passed the test together, whoever
\* removed whose lock, and whatever another one left behind.
LockHasHolder ==
  \A p \in make_lock : Holds(p) \/ pc[p] = "killed_holding" \/ failed[p]

\* An invocation that no other one ran beside, and whose gen_cmake.py did not
\* fail, makes every project it was asked for, each in the directory and with the
\* set-up of its own mode and nothing else, also after a killed or a failed one
\* left half its work behind.
AloneBuildsOwnMode ==
  \A p \in Invocations :
    pc[p] = "done" /\ alone[p] /\ ~failed[p] =>
      made[p] = {<<<<app[p][i], mode[p]>>, mode[p]>> : i \in 1..Len(app[p])}

\* Nothing is lost for good by a failure: after "cd -" an invocation is at the
\* top, in a build directory that there is, or where its caller was before, and
\* it is away only if a gen_cmake.py of its own has failed.
AwayAfterFailure ==
  \A p \in Invocations :
    cwd[p] # Top => failed[p] /\ (cwd[p] \in dirs \/ cwd[p] = Elsewhere)

\* make.run:16, "make already running!": a second invocation is turned away
\* while one is running.
OneAtATime == \A p, q \in Invocations : Running(p) /\ Running(q) => p = q
=============================================================================
