-------------------------- MODULE BuildLockProofs --------------------------
(***************************************************************************)
(* Proofs about BuildLock, for any number of invocations, modes and        *)
(* projects.                                                               *)
(***************************************************************************)
EXTENDS BuildLock, TLAPS

LEMMA AppType == \A a \in Apps : a \in Seq(ProjectNames) /\ a # <<>>
<1>1. Projects \in Seq(ProjectNames)
  BY BuildLockAssumption DEF ProjectNames
<1>2. \A a \in ProjectNames : <<a>> \in Seq(ProjectNames) /\ <<a>> # <<>>
  OBVIOUS
<1> QED
  BY <1>1, <1>2, BuildLockAssumption DEF Apps

LEMMA HeadTail ==
  ASSUME NEW S, NEW s \in Seq(S), s # <<>>
  PROVE  Head(s) \in S /\ Tail(s) \in Seq(S)
OBVIOUS

\* A command of the loops has a project, hence a directory, to work in.
LEMMA TargetType ==
  ASSUME TypeOK, NEW p \in Invocations, Running(p), pc[p] # "unlock"
  PROVE  Target(p) \in BuildDirs
  BY HeadTail DEF TypeOK, Target, BuildDirs

\* Wherever cd and cd - lead, it is a directory.
LEMMA CdBackType ==
  ASSUME TypeOK, NEW p \in Invocations, Running(p), pc[p] # "unlock", CdBack(p)
  PROVE  /\ cwd' \in [Invocations -> BuildDirs \cup {Top, Elsewhere}]
         /\ last' \in [Invocations -> BuildDirs \cup {Top, Elsewhere}]
  BY TargetType DEF CdBack, Entered, Dir, TypeOK

\* Type correctness: in particular no loop of the script runs past its
\* projects, so that every command has the project it works in.
THEOREM Typing == Spec => []TypeOK
<1>1. Init => TypeOK
  <2> SUFFICES ASSUME Init PROVE TypeOK
    OBVIOUS
  <2>1. todo \in [Invocations -> Seq(ProjectNames)]
    BY AppType DEF Init
  <2>2. \A p \in Invocations : todo[p] # <<>>
    BY AppType DEF Init
  <2>3. fails \in 0..MaxFails /\ kills \in 0..MaxKills /\ unlocks \in 0..MaxUnlocks
    BY BuildLockAssumption DEF Init
  <2>4. /\ configured \in [BuildDirs -> Modes \cup {None}] /\ dirs \subseteq BuildDirs
        /\ cwd \in [Invocations -> BuildDirs \cup {Top, Elsewhere}]
        /\ last \in [Invocations -> BuildDirs \cup {Top, Elsewhere}]
        /\ lists \in [ProjectNames -> Modes \cup {None, Truncated}]
        /\ made \in [Invocations -> SUBSET (BuildDirs \X (Modes \cup {None}))]
    BY DEF Init
  <2> QED
    BY <2>1, <2>2, <2>3, <2>4 DEF Init, TypeOK
<1>2. TypeOK /\ [Next]_vars => TypeOK'
  <2> SUFFICES ASSUME TypeOK, [Next]_vars PROVE TypeOK'
    OBVIOUS
  <2> USE BuildLockAssumption DEF asked, files, place, bounds
  <2>1. ASSUME NEW p \in Invocations, Refused(p) PROVE TypeOK'
    BY <2>1 DEF Refused, Step, TypeOK, Running
  <2>2. ASSUME NEW p \in Invocations, TestLock(p) PROVE TypeOK'
    <3>1. alone' \in [Invocations -> BOOLEAN]
      BY <2>2 DEF TestLock, TypeOK, Running
    <3>2. /\ pc' = [pc EXCEPT ![p] = "lock"] /\ pc[p] = "idle"
          /\ UNCHANGED <<make_lock, mode, app, todo, lists, dirs, configured, cwd, last,
                         failed, made, fails, kills, unlocks>>
      BY <2>2 DEF TestLock, Step
    <3> QED
      BY <3>1, <3>2 DEF TypeOK, Running
  <2>3. ASSUME NEW p \in Invocations, WriteLock(p) \/ NameLock(p) PROVE TypeOK'
    BY <2>3 DEF WriteLock, NameLock, Step, TypeOK, Running
  <2>4. ASSUME NEW p \in Invocations, OpenLists(p) PROVE TypeOK'
    <3>1. Target(p) \in BuildDirs
      BY <2>4, TargetType DEF OpenLists, Step, Running
    <3> QED
      BY <2>4, <3>1 DEF OpenLists, Step, TypeOK, Running
  <2>5. ASSUME NEW p \in Invocations, WriteLists(p) PROVE TypeOK'
    BY <2>5 DEF WriteLists, Step, TypeOK, Running
  <2>6. ASSUME NEW p \in Invocations, CMake(p) PROVE TypeOK'
    <3>1. configured' \in [BuildDirs -> Modes \cup {None}]
      BY <2>6 DEF CMake, SetUp, TypeOK
    <3>2. (cwd \in [Invocations -> BuildDirs \cup {Top, Elsewhere}])'
          /\ (last \in [Invocations -> BuildDirs \cup {Top, Elsewhere}])'
      BY <2>6, CdBackType DEF CMake, Step, Running
    <3>3. /\ todo' = [todo EXCEPT ![p] = Tail(@)] /\ todo[p] # <<>>
          /\ pc' = [pc EXCEPT ![p] = IF Tail(todo[p]) = <<>> THEN "unlock" ELSE "gen"]
          /\ UNCHANGED <<make_lock, mode, app, lists, dirs, failed, made, alone, fails,
                         kills, unlocks>>
      BY <2>6 DEF CMake, Step, TypeOK, Running
    <3> QED
      BY <3>1, <3>2, <3>3, HeadTail DEF TypeOK, Running
  <2>7. ASSUME NEW p \in Invocations, RemoveLock(p) PROVE TypeOK'
    BY <2>7, AppType DEF RemoveLock, Step, TypeOK, Running
  <2>8. ASSUME NEW p \in Invocations, Make(p) PROVE TypeOK'
    <3>1. configured' \in [BuildDirs -> Modes \cup {None}]
      BY <2>8 DEF Make, SetUp, TypeOK
    <3>2. (cwd \in [Invocations -> BuildDirs \cup {Top, Elsewhere}])'
          /\ (last \in [Invocations -> BuildDirs \cup {Top, Elsewhere}])'
      BY <2>8, CdBackType DEF Make, Step, Running
    <3>3. made' \in [Invocations -> SUBSET (BuildDirs \X (Modes \cup {None}))]
      BY <2>8, <3>1 DEF Make, TypeOK
    <3>4. /\ todo' = [todo EXCEPT ![p] = Tail(@)] /\ todo[p] # <<>>
          /\ pc' = [pc EXCEPT ![p] = IF Tail(todo[p]) = <<>> THEN "done" ELSE "make"]
          /\ UNCHANGED <<make_lock, mode, app, lists, dirs, failed, alone, fails, kills,
                         unlocks>>
      BY <2>8 DEF Make, Step, TypeOK, Running
    <3> QED
      BY <3>1, <3>2, <3>3, <3>4, HeadTail DEF TypeOK, Running
  <2>9. ASSUME NEW p \in Invocations, Kill(p) PROVE TypeOK'
    BY <2>9 DEF Kill, TypeOK, Running, Holds
  <2>10. CASE UnlockCommand
    <3>1. unlocks' \in 0..MaxUnlocks
      BY <2>10 DEF UnlockCommand, TypeOK
    <3> QED
      BY <2>10, <3>1 DEF UnlockCommand, TypeOK, Running
  <2>11. CASE UNCHANGED vars
    BY <2>11 DEF vars, TypeOK, Running
  <2>12. ASSUME NEW p \in Invocations, GenFails(p) PROVE TypeOK'
    <3>1. dirs' \subseteq BuildDirs
      BY <2>12, TargetType DEF GenFails, Step, TypeOK, Running
    <3>2. fails' \in 0..MaxFails
      BY <2>12 DEF GenFails, TypeOK
    <3>3. /\ pc[p] \in {"gen", "generating"} /\ pc' = [pc EXCEPT ![p] = "cmake"]
          /\ failed' = [failed EXCEPT ![p] = TRUE]
          /\ UNCHANGED <<make_lock, mode, app, todo, lists, configured, cwd, last, made,
                         alone, kills, unlocks>>
      BY <2>12 DEF GenFails, Step
    <3> QED
      BY <3>1, <3>2, <3>3 DEF TypeOK, Running
  <2> QED
    BY <2>1, <2>2, <2>3, <2>4, <2>5, <2>6, <2>7, <2>8, <2>9, <2>10, <2>11, <2>12
       DEF Next, Ended
<1> QED
  BY <1>1, <1>2, PTL DEF Spec

-----------------------------------------------------------------------------
(* Where an invocation is.                                                  *)

\* As long as no gen_cmake.py of an invocation has failed it is at the top
\* before every command, it has made the build directory of each project that
\* its loop of cmake is through with, and its loop of make enters only these.
MadeOrAhead(p) ==
  \A i \in 1..Len(app[p]) : \/ <<app[p][i], mode[p]>> \in dirs
                            \/ \E j \in 1..Len(todo[p]) : todo[p][j] = app[p][i]
MadeAhead(p) == \A j \in 1..Len(todo[p]) : <<todo[p][j], mode[p]>> \in dirs

OnTrack(p) ==
  /\ cwd[p] = Top
  /\ pc[p] \in {"idle", "lock", "dated", "gen", "generating", "cmake", "unlock"} =>
       MadeOrAhead(p)
  /\ pc[p] \in {"generating", "cmake"} => Target(p) \in dirs
  /\ pc[p] = "unlock" => todo[p] = <<>>
  /\ pc[p] = "make" => MadeAhead(p)

AtHome ==
  /\ \A p \in Invocations : {cwd[p], last[p]} \subseteq dirs \cup {Top, Elsewhere}
  /\ \A p \in Invocations : ~failed[p] => OnTrack(p)

\* The elements of a sequence are its head and those of its tail.
LEMMA TailElements ==
  ASSUME NEW S, NEW s \in Seq(S), s # <<>>
  PROVE  /\ \A j \in 1..Len(Tail(s)) : \E i \in 1..Len(s) : s[i] = Tail(s)[j]
         /\ \A i \in 1..Len(s) : s[i] = Head(s) \/ \E j \in 1..Len(Tail(s)) : Tail(s)[j] = s[i]
<1>1. /\ Len(s) \in Nat \ {0} /\ Len(Tail(s)) = Len(s) - 1 /\ Head(s) = s[1]
      /\ \A j \in 1..Len(Tail(s)) : Tail(s)[j] = s[j + 1]
  OBVIOUS
<1>2. \A j \in 1..Len(Tail(s)) : j + 1 \in 1..Len(s)
  BY <1>1
<1>3. \A i \in 1..Len(s) : i # 1 => i - 1 \in 1..Len(Tail(s)) /\ Tail(s)[i - 1] = s[i]
  BY <1>1
<1> QED
  BY <1>1, <1>2, <1>3

LEMMA Home == Spec => []AtHome
<1>1. Init => AtHome
  BY DEF Init, AtHome, OnTrack, MadeOrAhead
<1>2. TypeOK /\ AtHome /\ [Next]_vars => AtHome'
  <2> SUFFICES ASSUME TypeOK, AtHome, [Next]_vars PROVE AtHome'
    OBVIOUS
  <2> USE DEF asked, files, place, bounds
  \* A step that leaves the places and what an invocation asked for, and takes
  \* no build directory away, disturbs none of those that do not move.
  <2>1. ASSUME NEW q \in Invocations, UNCHANGED <<mode, app, cwd[q], todo[q], pc[q], failed[q]>>,
               dirs \subseteq dirs'
        PROVE  (~failed[q] => OnTrack(q))'
    BY <2>1 DEF AtHome, OnTrack, MadeOrAhead, MadeAhead, Target
  <2>2. ASSUME NEW p \in Invocations,
               Refused(p) \/ TestLock(p) \/ WriteLock(p) \/ NameLock(p)
        PROVE  AtHome'
    <3>1. /\ UNCHANGED <<mode, app, todo, dirs, cwd, last, failed>>
          /\ \A q \in Invocations : q # p => pc'[q] = pc[q]
          /\ pc'[p] \in {"refused", "lock", "dated", "gen"}
          /\ pc[p] \in {"idle", "lock", "dated"}
      BY <2>2 DEF Refused, TestLock, WriteLock, NameLock, Step, TypeOK
    <3>2. ASSUME ~failed[p] PROVE OnTrack(p)'
      <4>1. OnTrack(p)
        BY <3>2 DEF AtHome
      <4>2. MadeOrAhead(p) => MadeOrAhead(p)'
        BY <3>1 DEF MadeOrAhead
      <4> QED
        BY <3>1, <4>1, <4>2 DEF OnTrack, Target
    <3> QED
      BY <2>1, <3>1, <3>2 DEF AtHome
  <2>3. ASSUME NEW p \in Invocations, OpenLists(p) PROVE AtHome'
    <3>1. /\ UNCHANGED <<mode, app, todo, cwd, last, failed>> /\ dirs' = dirs \cup {Target(p)}
          /\ \A q \in Invocations : q # p => pc'[q] = pc[q]
          /\ pc'[p] = "generating" /\ pc[p] = "gen"
      BY <2>3 DEF OpenLists, Step, TypeOK
    <3>2. ASSUME ~failed[p] PROVE OnTrack(p)'
      <4>1. OnTrack(p)
        BY <3>2 DEF AtHome
      <4>2. MadeOrAhead(p) => MadeOrAhead(p)'
        BY <3>1 DEF MadeOrAhead
      <4> QED
        BY <3>1, <4>1, <4>2 DEF OnTrack, Target
    <3> QED
      BY <2>1, <3>1, <3>2 DEF AtHome
  <2>4. ASSUME NEW p \in Invocations, WriteLists(p) PROVE AtHome'
    <3>1. /\ UNCHANGED <<mode, app, todo, dirs, cwd, last, failed>>
          /\ \A q \in Invocations : q # p => pc'[q] = pc[q]
          /\ pc'[p] = "cmake" /\ pc[p] = "generating"
      BY <2>4 DEF WriteLists, Step, TypeOK
    <3>2. ASSUME ~failed[p] PROVE OnTrack(p)'
      <4>1. OnTrack(p)
        BY <3>2 DEF AtHome
      <4>2. MadeOrAhead(p) => MadeOrAhead(p)'
        BY <3>1 DEF MadeOrAhead
      <4> QED
        BY <3>1, <4>1, <4>2 DEF OnTrack, Target
    <3> QED
      BY <2>1, <3>1, <3>2 DEF AtHome
  <2>5. ASSUME NEW p \in Invocations, GenFails(p) PROVE AtHome'
    <3>1. /\ UNCHANGED <<mode, app, todo, cwd, last>> /\ dirs \subseteq dirs'
          /\ failed'[p] = TRUE
          /\ \A q \in Invocations : q # p => pc'[q] = pc[q] /\ failed'[q] = failed[q]
      BY <2>5 DEF GenFails, Step, TypeOK
    <3> QED
      BY <2>1, <3>1 DEF AtHome
  \* cd and cd -, of CMake and Make.
  <2>6. ASSUME NEW p \in Invocations, CdBack(p), UNCHANGED <<mode, app, dirs>>
        PROVE  /\ \A q \in Invocations : {cwd'[q], last'[q]} \subseteq dirs' \cup {Top, Elsewhere}
               /\ \A q \in Invocations : q # p => cwd'[q] = cwd[q]
               /\ cwd[p] = Top /\ Target(p) \in dirs => cwd'[p] = Top
    BY <2>6 DEF CdBack, Entered, Dir, AtHome, TypeOK
  <2>7. ASSUME NEW p \in Invocations, CMake(p) PROVE AtHome'
    <3>1. /\ UNCHANGED <<mode, app, dirs, failed>> /\ CdBack(p) /\ pc[p] = "cmake"
          /\ todo[p] # <<>> /\ todo[p] \in Seq(ProjectNames) /\ todo'[p] = Tail(todo[p])
          /\ pc'[p] = IF todo'[p] = <<>> THEN "unlock" ELSE "gen"
          /\ \A q \in Invocations : q # p => pc'[q] = pc[q] /\ todo'[q] = todo[q]
      BY <2>7 DEF CMake, Step, TypeOK, Running
    <3>2. ASSUME ~failed[p] PROVE OnTrack(p)'
      <4>1. OnTrack(p)
        BY <3>2 DEF AtHome
      <4>2. cwd'[p] = Top
        BY <2>6, <3>1, <4>1 DEF OnTrack
      <4>3. MadeOrAhead(p)'
        <5>1. MadeOrAhead(p) /\ <<Head(todo[p]), mode[p]>> \in dirs
          BY <3>1, <4>1 DEF OnTrack, Target
        <5>2. \A j \in 1..Len(todo[p]) :
                \/ todo[p][j] = Head(todo[p])
                \/ \E k \in 1..Len(Tail(todo[p])) : Tail(todo[p])[k] = todo[p][j]
          BY <3>1, TailElements
        <5>3. UNCHANGED <<app, mode, dirs>> /\ todo'[p] = Tail(todo[p])
          BY <3>1
        <5> QED
          BY <5>1, <5>2, <5>3 DEF MadeOrAhead
      <4> QED
        BY <3>1, <4>2, <4>3 DEF OnTrack
    <3> QED
      BY <2>1, <2>6, <3>1, <3>2 DEF AtHome
  <2>8. ASSUME NEW p \in Invocations, RemoveLock(p) PROVE AtHome'
    <3>1. /\ UNCHANGED <<mode, app, dirs, cwd, last, failed>> /\ todo'[p] = app[p]
          /\ pc[p] = "unlock" /\ pc'[p] = "make"
          /\ \A q \in Invocations : q # p => pc'[q] = pc[q] /\ todo'[q] = todo[q]
      BY <2>8 DEF RemoveLock, Step, TypeOK
    <3>2. ASSUME ~failed[p] PROVE OnTrack(p)'
      <4>1. OnTrack(p)
        BY <3>2 DEF AtHome
      <4>2. MadeAhead(p)'
        BY <3>1, <4>1 DEF OnTrack, MadeOrAhead, MadeAhead
      <4> QED
        BY <3>1, <4>1, <4>2 DEF OnTrack
    <3> QED
      BY <2>1, <3>1, <3>2 DEF AtHome
  <2>9. ASSUME NEW p \in Invocations, Make(p) PROVE AtHome'
    <3>1. /\ UNCHANGED <<mode, app, dirs, failed>> /\ CdBack(p) /\ pc[p] = "make"
          /\ todo[p] # <<>> /\ todo[p] \in Seq(ProjectNames) /\ todo'[p] = Tail(todo[p])
          /\ pc'[p] \in {"make", "done"}
          /\ \A q \in Invocations : q # p => pc'[q] = pc[q] /\ todo'[q] = todo[q]
      BY <2>9 DEF Make, Step, TypeOK, Running
    <3>2. ASSUME ~failed[p] PROVE OnTrack(p)'
      <4>1. OnTrack(p)
        BY <3>2 DEF AtHome
      <4>2. Target(p) \in dirs
        <5>1. 1 \in 1..Len(todo[p]) /\ Head(todo[p]) = todo[p][1]
          BY <3>1
        <5> QED
          BY <3>1, <4>1, <5>1 DEF OnTrack, MadeAhead, Target
      <4>3. cwd'[p] = Top
        BY <2>6, <3>1, <4>1, <4>2 DEF OnTrack
      <4>4. MadeAhead(p)'
        BY <3>1, <4>1, TailElements DEF OnTrack, MadeAhead
      <4> QED
        BY <3>1, <4>3, <4>4 DEF OnTrack
    <3> QED
      BY <2>1, <2>6, <3>1, <3>2 DEF AtHome
  <2>10. ASSUME NEW p \in Invocations, Kill(p) PROVE AtHome'
    <3>1. /\ UNCHANGED <<mode, app, todo, dirs, cwd, last, failed>>
          /\ \A q \in Invocations : q # p => pc'[q] = pc[q]
          /\ pc'[p] \in {"killed", "killed_holding"}
      BY <2>10 DEF Kill, TypeOK
    <3>2. ASSUME ~failed[p] PROVE OnTrack(p)'
      <4>1. OnTrack(p)
        BY <3>2 DEF AtHome
      <4>2. MadeOrAhead(p) => MadeOrAhead(p)'
        BY <3>1 DEF MadeOrAhead
      <4> QED
        BY <3>1, <4>1, <4>2 DEF OnTrack, Target
    <3> QED
      BY <2>1, <3>1, <3>2 DEF AtHome
  <2>11. CASE UnlockCommand \/ UNCHANGED vars
    BY <2>11 DEF UnlockCommand, vars, AtHome, OnTrack, MadeOrAhead, MadeAhead, Target
  <2> QED
    BY <2>2, <2>3, <2>4, <2>5, <2>7, <2>8, <2>9, <2>10, <2>11 DEF Next, Ended
<1> QED
  BY <1>1, <1>2, Typing, PTL DEF Spec

\* Wherever the failures of gen_cmake.py lead an invocation, it is a directory
\* that there is, and one whose gen_cmake.py did not fail is at the top.
THEOREM Away == Spec => []AwayAfterFailure
<1>1. AtHome => AwayAfterFailure
  BY DEF AtHome, OnTrack, AwayAfterFailure
<1> QED
  BY <1>1, Home, PTL

-----------------------------------------------------------------------------
(* What an invocation builds that no other one runs beside.                 *)

\* A project whose CMakeLists.txt and build directory are of p's own mode.
Built(p, a) ==
  lists[a] = mode[p] /\ <<a, mode[p]>> \in dirs /\ configured[<<a, mode[p]>>] = mode[p]
BuiltOrAhead(p) ==
  \A i \in 1..Len(app[p]) : \/ Built(p, app[p][i])
                            \/ \E j \in 1..Len(todo[p]) : todo[p][j] = app[p][i]
BuiltAhead(p) == \A j \in 1..Len(todo[p]) : Built(p, todo[p][j])

\* What p's makes have built, of its own mode, and what they have ahead.
Own(p, a) == <<<<a, mode[p]>>, mode[p]>>
OwnMade(p) ==
  /\ \A i \in 1..Len(app[p]) : \/ Own(p, app[p][i]) \in made[p]
                               \/ \E j \in 1..Len(todo[p]) : todo[p][j] = app[p][i]
  /\ \A j \in 1..Len(todo[p]) : \E i \in 1..Len(app[p]) : app[p][i] = todo[p][j]
  /\ \A b \in made[p] : \E i \in 1..Len(app[p]) : b = Own(p, app[p][i])

\* Undisturbed, p's files stay as its loop of cmake leaves them until its makes
\* have used them.
Undisturbed(p) ==
  /\ Running(p) => \A q \in Invocations : q # p => ~Running(q)
  /\ pc[p] \in {"idle", "lock", "dated", "gen", "generating", "cmake", "unlock"} =>
       BuiltOrAhead(p) /\ made[p] = {}
  /\ pc[p] = "cmake" => lists[Head(todo[p])] = mode[p]
  /\ pc[p] = "make" => BuiltAhead(p)
  /\ pc[p] \in {"make", "done"} => OwnMade(p)
  /\ pc[p] = "done" => todo[p] = <<>>

AloneInv ==
  /\ \A p \in Invocations :
       /\ pc[p] \in {"idle", "lock"} => made[p] = {} /\ todo[p] = app[p]
       /\ pc[p] = "idle" => ~alone[p]
  /\ \A p \in Invocations : alone[p] /\ ~failed[p] => Undisturbed(p)

\* What a step of q leaves to the others: theirs is theirs, and it touches the
\* files only if it was at work already.
OthersKept(q) ==
  /\ UNCHANGED <<mode, app>>
  /\ \A p \in Invocations : p # q =>
       /\ pc'[p] = pc[p] /\ made'[p] = made[p] /\ todo'[p] = todo[p]
       /\ failed'[p] = failed[p] /\ (alone'[p] => alone[p])
       /\ alone'[p] /\ Running(p) => Running(q) \/ ~Running(q)'
  /\ Running(q) \/ UNCHANGED <<lists, dirs, configured>>

LEMMA AloneHolds == Spec => []AloneInv
<1>1. Init => AloneInv
  BY DEF Init, AloneInv
<1>2. TypeOK /\ AtHome /\ AloneInv /\ [Next]_vars => AloneInv'
  <2> SUFFICES ASSUME TypeOK, AtHome, AloneInv, [Next]_vars PROVE AloneInv'
    OBVIOUS
  <2> USE DEF asked, files, place, bounds
  \* One that is at work and alone is disturbed by nobody: an invocation that
  \* starts beside it takes its being alone away first.
  <2>1. ASSUME NEW q \in Invocations, OthersKept(q), NEW p \in Invocations, p # q,
               alone'[p], ~failed'[p]
        PROVE  Undisturbed(p)'
    <3>1. Undisturbed(p) /\ pc'[p] = pc[p] /\ made'[p] = made[p] /\ todo'[p] = todo[p]
          /\ UNCHANGED <<mode, app>>
      BY <2>1 DEF OthersKept, AloneInv
    <3>2. CASE ~Running(p)
      <4>1. pc[p] # "idle"
        BY <2>1 DEF OthersKept, AloneInv
      <4>2. OwnMade(p) => OwnMade(p)'
        BY <3>1 DEF OwnMade, Own
      <4> QED
        BY <3>1, <3>2, <4>1, <4>2 DEF Undisturbed, Running
    <3>3. CASE Running(p)
      <4>1. ~Running(q) /\ UNCHANGED <<lists, dirs, configured>>
        BY <2>1, <3>1, <3>3 DEF OthersKept, Undisturbed
      <4>2. \A o \in Invocations : o # p => ~Running(o)'
        BY <2>1, <3>1, <3>3, <4>1 DEF OthersKept, Undisturbed, Running
      <4>3. \A a : Built(p, a) => Built(p, a)'
        BY <3>1, <4>1 DEF Built
      <4>4. BuiltOrAhead(p) => BuiltOrAhead(p)'
        BY <3>1, <4>3 DEF BuiltOrAhead
      <4>5. BuiltAhead(p) => BuiltAhead(p)'
        BY <3>1, <4>3 DEF BuiltAhead
      <4>6. pc[p] = "cmake" => lists'[Head(todo'[p])] = mode'[p]
        BY <3>1, <4>1 DEF Undisturbed
      <4>7. OwnMade(p) => OwnMade(p)'
        BY <3>1 DEF OwnMade, Own
      <4> QED
        BY <3>1, <4>2, <4>4, <4>5, <4>6, <4>7 DEF Undisturbed
    <3> QED
      BY <3>2, <3>3
  \* So that the step of p itself is left to look at.
  <2>2. ASSUME NEW p \in Invocations, OthersKept(p), pc'[p] # "idle",
               pc'[p] = "lock" => made'[p] = {} /\ todo'[p] = app[p],
               alone'[p] /\ ~failed'[p] => Undisturbed(p)'
        PROVE  AloneInv'
    <3>1. \A q \in Invocations : alone'[q] /\ ~failed'[q] => Undisturbed(q)'
      BY <2>1, <2>2
    <3>2. \A q \in Invocations : q # p =>
            /\ pc'[q] \in {"idle", "lock"} => made'[q] = {} /\ todo'[q] = app'[q]
            /\ pc'[q] = "idle" => ~alone'[q]
      BY <2>2 DEF OthersKept, AloneInv
    <3>3. app' = app
      BY <2>2 DEF OthersKept
    <3> QED
      BY <2>2, <3>1, <3>2, <3>3 DEF AloneInv
  <2>3. ASSUME NEW p \in Invocations, Refused(p) PROVE AloneInv'
    <3>1. OthersKept(p) /\ pc'[p] = "refused"
      BY <2>3 DEF Refused, Step, TypeOK, OthersKept, Running
    <3> QED
      BY <2>2, <3>1 DEF Undisturbed, Running
  <2>4. ASSUME NEW p \in Invocations, TestLock(p) PROVE AloneInv'
    <3>1. OthersKept(p)
      BY <2>4 DEF TestLock, Step, TypeOK, OthersKept, Running
    <3>2. /\ pc'[p] = "lock" /\ made'[p] = {} /\ todo'[p] = app[p] /\ UNCHANGED app
          /\ alone'[p] => \A q \in Invocations : q # p => ~Running(q)'
      BY <2>4 DEF TestLock, Step, TypeOK, AloneInv, Running
    <3>3. BuiltOrAhead(p)'
      BY <3>2 DEF BuiltOrAhead
    <3> QED
      BY <2>2, <3>1, <3>2, <3>3 DEF Undisturbed
  \* From here on p was alone before.
  <2>5. ASSUME NEW p \in Invocations, OthersKept(p), Running(p), alone[p], ~failed[p]
        PROVE  /\ Undisturbed(p) /\ OnTrack(p)
               /\ \A q \in Invocations : q # p => ~Running(q)'
    BY <2>5 DEF AloneInv, AtHome, Undisturbed, OthersKept, Running
  <2>6. ASSUME NEW p \in Invocations, WriteLock(p) \/ NameLock(p) PROVE AloneInv'
    <3>1. OthersKept(p) /\ Running(p) /\ alone'[p] = alone[p] /\ failed'[p] = failed[p]
      BY <2>6 DEF WriteLock, NameLock, Step, TypeOK, OthersKept, Running
    <3>2. /\ pc[p] \in {"lock", "dated"} /\ pc'[p] \in {"dated", "gen"}
          /\ UNCHANGED <<mode, app, todo, made, lists, dirs, configured>>
      BY <2>6 DEF WriteLock, NameLock, Step, TypeOK
    <3>3. ASSUME alone[p], ~failed[p] PROVE Undisturbed(p)'
      <4>1. BuiltOrAhead(p) /\ made'[p] = {}
        BY <2>5, <3>1, <3>2, <3>3 DEF Undisturbed
      <4>2. BuiltOrAhead(p) => BuiltOrAhead(p)'
        BY <3>2 DEF BuiltOrAhead, Built
      <4> QED
        BY <2>5, <3>1, <3>2, <3>3, <4>1, <4>2 DEF Undisturbed
    <3> QED
      BY <2>2, <3>1, <3>2, <3>3
  <2>7. ASSUME NEW p \in Invocations, OpenLists(p) PROVE AloneInv'
    <3>1. OthersKept(p) /\ Running(p) /\ alone'[p] = alone[p] /\ failed'[p] = failed[p]
      BY <2>7 DEF OpenLists, Step, TypeOK, OthersKept, Running
    <3>2. /\ pc[p] = "gen" /\ pc'[p] = "generating"
          /\ UNCHANGED <<mode, app, todo, made, configured>> /\ dirs \subseteq dirs'
          /\ lists \in [ProjectNames -> Modes \cup {None, Truncated}]
          /\ lists' = [lists EXCEPT ![Head(todo[p])] = Truncated]
          /\ todo[p] \in Seq(ProjectNames) /\ todo[p] # <<>>
      BY <2>7 DEF OpenLists, Step, TypeOK, Running
    <3>3. ASSUME alone[p], ~failed[p] PROVE Undisturbed(p)'
      <4>1. BuiltOrAhead(p) /\ made[p] = {}
        BY <2>5, <3>1, <3>2, <3>3 DEF Undisturbed
      <4>2. 1 \in 1..Len(todo[p]) /\ todo[p][1] = Head(todo[p])
        BY <3>2
      <4>3. \A a : a # Head(todo[p]) /\ Built(p, a) => Built(p, a)'
        BY <3>2 DEF Built
      <4>4. BuiltOrAhead(p)'
        BY <3>2, <4>1, <4>2, <4>3 DEF BuiltOrAhead
      <4> QED
        BY <2>5, <3>1, <3>2, <3>3, <4>1, <4>4 DEF Undisturbed
    <3> QED
      BY <2>2, <3>1, <3>2, <3>3
  <2>8. ASSUME NEW p \in Invocations, WriteLists(p) PROVE AloneInv'
    <3>1. OthersKept(p) /\ Running(p) /\ alone'[p] = alone[p] /\ failed'[p] = failed[p]
      BY <2>8 DEF WriteLists, Step, TypeOK, OthersKept, Running
    <3>2. /\ pc[p] = "generating" /\ pc'[p] = "cmake"
          /\ UNCHANGED <<mode, app, todo, made, dirs, configured>>
          /\ lists \in [ProjectNames -> Modes \cup {None, Truncated}]
          /\ lists' = [lists EXCEPT ![Head(todo[p])] = mode[p]]
          /\ todo[p] \in Seq(ProjectNames) /\ todo[p] # <<>>
      BY <2>8 DEF WriteLists, Step, TypeOK, Running
    <3>3. ASSUME alone[p], ~failed[p] PROVE Undisturbed(p)'
      <4>1. BuiltOrAhead(p) /\ made[p] = {}
        BY <2>5, <3>1, <3>2, <3>3 DEF Undisturbed
      <4>2. \A a : Built(p, a) => Built(p, a)'
        BY <3>2 DEF Built
      <4>3. BuiltOrAhead(p)'
        BY <3>2, <4>1, <4>2 DEF BuiltOrAhead
      <4>4. lists'[Head(todo'[p])] = mode'[p]
        BY <3>2, HeadTail
      <4> QED
        BY <2>5, <3>1, <3>2, <3>3, <4>1, <4>3, <4>4 DEF Undisturbed
    <3> QED
      BY <2>2, <3>1, <3>2, <3>3
  <2>9. ASSUME NEW p \in Invocations, GenFails(p) PROVE AloneInv'
    <3>1. OthersKept(p) /\ pc'[p] = "cmake" /\ failed'[p] = TRUE
      BY <2>9 DEF GenFails, Step, TypeOK, OthersKept, Running
    <3> QED
      BY <2>2, <3>1
  <2>10. ASSUME NEW p \in Invocations, CMake(p) PROVE AloneInv'
    <3>1. OthersKept(p) /\ Running(p) /\ alone'[p] = alone[p] /\ failed'[p] = failed[p]
      BY <2>10 DEF CMake, Step, TypeOK, OthersKept, Running
    <3>2. /\ pc[p] = "cmake" /\ pc'[p] \in {"gen", "unlock"}
          /\ UNCHANGED <<mode, app, made, dirs, lists>>
          /\ configured' = [d \in BuildDirs |-> IF d = Dir(p) THEN SetUp(d) ELSE configured[d]]
          /\ todo'[p] = Tail(todo[p]) /\ todo[p] \in Seq(ProjectNames) /\ todo[p] # <<>>
          /\ dirs \subseteq BuildDirs /\ mode[p] \in Modes
      BY <2>10 DEF CMake, Step, TypeOK, Running
    <3>3. ASSUME alone[p], ~failed[p] PROVE Undisturbed(p)'
      <4>1. /\ BuiltOrAhead(p) /\ made[p] = {} /\ lists[Head(todo[p])] = mode[p]
            /\ cwd[p] = Top /\ Target(p) \in dirs
        BY <2>5, <3>1, <3>2, <3>3 DEF Undisturbed, OnTrack
      <4>2. Dir(p) = <<Head(todo[p]), mode[p]>> /\ Dir(p) \in dirs
        BY <4>1 DEF Dir, Entered, Target
      <4>3. \A a : a = Head(todo[p]) => Built(p, a)'
        BY <3>2, <4>1, <4>2 DEF Built, SetUp
      <4>4. \A a : Built(p, a) => Built(p, a)'
        BY <3>2, <4>2, <4>3 DEF Built, SetUp
      <4>5. \A j \in 1..Len(todo[p]) :
              \/ todo[p][j] = Head(todo[p])
              \/ \E k \in 1..Len(Tail(todo[p])) : Tail(todo[p])[k] = todo[p][j]
        BY <3>2, TailElements
      <4>6. BuiltOrAhead(p)'
        <5>1. ASSUME NEW i \in 1..Len(app[p]), NEW a, a = app[p][i]
              PROVE  \/ Built(p, a)'
                     \/ \E k \in 1..Len(Tail(todo[p])) : Tail(todo[p])[k] = a
          <6>1. \/ Built(p, a)
                \/ \E j \in 1..Len(todo[p]) : todo[p][j] = a
            BY <4>1, <5>1 DEF BuiltOrAhead
          <6> QED
            BY <4>3, <4>4, <4>5, <6>1
        <5>2. app' = app /\ todo'[p] = Tail(todo[p])
          BY <3>2
        <5>3. \A i \in 1..Len(app'[p]) : \A a : a = app'[p][i] =>
                Built(p, a)' \/ \E k \in 1..Len(todo'[p]) : todo'[p][k] = a
          BY <5>1, <5>2
        <5> QED
          BY <5>3 DEF BuiltOrAhead
      <4> QED
        BY <2>5, <3>1, <3>2, <3>3, <4>1, <4>6 DEF Undisturbed
    <3> QED
      BY <2>2, <3>1, <3>2, <3>3
  <2>11. ASSUME NEW p \in Invocations, RemoveLock(p) PROVE AloneInv'
    <3>1. OthersKept(p) /\ Running(p) /\ alone'[p] = alone[p] /\ failed'[p] = failed[p]
      BY <2>11 DEF RemoveLock, Step, TypeOK, OthersKept, Running
    <3>2. /\ pc[p] = "unlock" /\ pc'[p] = "make" /\ todo'[p] = app[p]
          /\ UNCHANGED <<mode, app, made, dirs, lists, configured>>
      BY <2>11 DEF RemoveLock, Step, TypeOK
    <3>3. ASSUME alone[p], ~failed[p] PROVE Undisturbed(p)'
      <4>1. BuiltOrAhead(p) /\ made[p] = {} /\ todo[p] = <<>>
        BY <2>5, <3>1, <3>2, <3>3 DEF Undisturbed, OnTrack
      <4>2. BuiltAhead(p)'
        BY <3>2, <4>1 DEF BuiltOrAhead, BuiltAhead, Built
      <4>3. OwnMade(p)'
        BY <3>2, <4>1 DEF OwnMade
      <4> QED
        BY <2>5, <3>1, <3>2, <3>3, <4>1, <4>2, <4>3 DEF Undisturbed
    <3> QED
      BY <2>2, <3>1, <3>2, <3>3
  <2>12. ASSUME NEW p \in Invocations, Make(p) PROVE AloneInv'
    <3>1. OthersKept(p) /\ Running(p) /\ alone'[p] = alone[p] /\ failed'[p] = failed[p]
      BY <2>12 DEF Make, Step, TypeOK, OthersKept, Running
    <3>2. /\ pc[p] = "make" /\ pc'[p] \in {"make", "done"}
          /\ UNCHANGED <<mode, app, dirs, lists>>
          /\ \/ UNCHANGED configured
             \/ configured' = [d \in BuildDirs |-> IF d = Dir(p) THEN SetUp(d) ELSE configured[d]]
          /\ made'[p] = made[p] \cup {<<d, configured'[d]>> : d \in {Dir(p)} \cap BuildDirs}
          /\ pc'[p] = "done" => todo'[p] = <<>>
          /\ todo'[p] = Tail(todo[p]) /\ todo[p] \in Seq(ProjectNames) /\ todo[p] # <<>>
          /\ dirs \subseteq BuildDirs /\ mode[p] \in Modes
      BY <2>12 DEF Make, Step, TypeOK, Running
    <3>3. ASSUME alone[p], ~failed[p] PROVE Undisturbed(p)'
      <4>1. BuiltAhead(p) /\ OwnMade(p) /\ cwd[p] = Top
        BY <2>5, <3>1, <3>2, <3>3 DEF Undisturbed, OnTrack
      <4>2. Built(p, Head(todo[p]))
        <5>1. 1 \in 1..Len(todo[p]) /\ todo[p][1] = Head(todo[p])
          BY <3>2
        <5> QED
          BY <4>1, <5>1 DEF BuiltAhead
      <4>3. Dir(p) = <<Head(todo[p]), mode[p]>> /\ Dir(p) \in BuildDirs
        BY <3>2, <4>1, <4>2 DEF Built, Dir, Entered, Target
      <4>4. configured'[Dir(p)] = mode[p]
        BY <3>2, <4>2, <4>3 DEF Built, SetUp
      <4>5. made'[p] = made[p] \cup {Own(p, Head(todo[p]))}
        BY <3>2, <4>3, <4>4 DEF Own
      <4>6. OwnMade(p)'
        <5>1. /\ 1 \in 1..Len(todo[p]) /\ todo[p][1] = Head(todo[p])
              /\ \E i \in 1..Len(app[p]) : app[p][i] = Head(todo[p])
          BY <3>2, <4>1 DEF OwnMade
        <5>2. \A b \in made'[p] : \E i \in 1..Len(app[p]) : b = Own(p, app[p][i])
          BY <4>1, <4>5, <5>1 DEF OwnMade
        <5>3. \A i \in 1..Len(app[p]) :
                \/ Own(p, app[p][i]) \in made'[p]
                \/ \E j \in 1..Len(Tail(todo[p])) : Tail(todo[p])[j] = app[p][i]
          <6> SUFFICES ASSUME NEW i \in 1..Len(app[p]), NEW a, a = app[p][i]
                       PROVE  \/ Own(p, a) \in made'[p]
                              \/ \E j \in 1..Len(Tail(todo[p])) : Tail(todo[p])[j] = a
            OBVIOUS
          <6>1. Own(p, a) \in made[p] \/ \E j \in 1..Len(todo[p]) : todo[p][j] = a
            BY <4>1 DEF OwnMade
          <6>2. CASE \E j \in 1..Len(todo[p]) : todo[p][j] = a
            <7>1. a = Head(todo[p]) \/ \E j \in 1..Len(Tail(todo[p])) : Tail(todo[p])[j] = a
              BY <3>2, <6>2, TailElements
            <7> QED
              BY <4>5, <7>1
          <6> QED
            BY <4>5, <6>1, <6>2
        <5>4. \A j \in 1..Len(Tail(todo[p])) : \E i \in 1..Len(app[p]) :
                app[p][i] = Tail(todo[p])[j]
          BY <3>2, <4>1, TailElements DEF OwnMade
        <5>5. app' = app /\ mode' = mode /\ todo'[p] = Tail(todo[p])
          BY <3>2
        <5>6. \A i \in 1..Len(app'[p]) :
                \/ <<<<app'[p][i], mode'[p]>>, mode'[p]>> \in made'[p]
                \/ \E j \in 1..Len(todo'[p]) : todo'[p][j] = app'[p][i]
          BY <5>3, <5>5 DEF Own
        <5>7. \A b \in made'[p] : \E i \in 1..Len(app'[p]) :
                b = <<<<app'[p][i], mode'[p]>>, mode'[p]>>
          BY <5>2, <5>5 DEF Own
        <5>8. \A j \in 1..Len(todo'[p]) : \E i \in 1..Len(app'[p]) :
                app'[p][i] = todo'[p][j]
          BY <5>4, <5>5
        <5> QED
          BY <5>6, <5>7, <5>8 DEF OwnMade, Own
      <4>7. \A a : Built(p, a) => Built(p, a)'
        BY <3>2, <4>3, <4>4 DEF Built
      <4>8. BuiltAhead(p)'
        BY <3>2, <4>1, <4>7, TailElements DEF BuiltAhead
      <4> QED
        BY <2>5, <3>1, <3>2, <3>3, <4>6, <4>8 DEF Undisturbed
    <3> QED
      BY <2>2, <3>1, <3>2, <3>3
  <2>13. ASSUME NEW p \in Invocations, Kill(p) PROVE AloneInv'
    <3>1. OthersKept(p) /\ pc'[p] \in {"killed", "killed_holding"}
      BY <2>13 DEF Kill, TypeOK, OthersKept, Running
    <3> QED
      BY <2>2, <3>1 DEF Undisturbed, Running
  <2>14. CASE UnlockCommand \/ UNCHANGED vars
    <3>1. UNCHANGED <<pc, mode, app, todo, lists, dirs, configured, failed, made, alone>>
      BY <2>14 DEF UnlockCommand, vars
    <3>2. ASSUME NEW p \in Invocations, Undisturbed(p) PROVE Undisturbed(p)'
      <4>1. /\ BuiltOrAhead(p) => BuiltOrAhead(p)'
            /\ BuiltAhead(p) => BuiltAhead(p)'
        BY <3>1 DEF BuiltOrAhead, BuiltAhead, Built
      <4>2. OwnMade(p) => OwnMade(p)'
        BY <3>1 DEF OwnMade, Own
      <4> QED
        BY <3>1, <3>2, <4>1, <4>2 DEF Undisturbed, Running
    <3> QED
      BY <3>1, <3>2 DEF AloneInv
  <2> QED
    BY <2>3, <2>4, <2>6, <2>7, <2>8, <2>9, <2>10, <2>11, <2>12, <2>13, <2>14
       DEF Next, Ended
<1> QED
  BY <1>1, <1>2, Typing, Home, PTL DEF Spec

\* An invocation that no other one ran beside builds every project it was asked
\* for, each of its own mode, and nothing else, whatever was left behind before it.
THEOREM OwnMode == Spec => []AloneBuildsOwnMode
<1>1. AloneInv => AloneBuildsOwnMode
  <2> SUFFICES ASSUME AloneInv, NEW p \in Invocations, pc[p] = "done", alone[p], ~failed[p]
               PROVE  made[p] = {Own(p, app[p][i]) : i \in 1..Len(app[p])}
    BY DEF AloneBuildsOwnMode, Own
  <2>1. OwnMade(p) /\ todo[p] = <<>>
    BY DEF AloneInv, Undisturbed
  <2>2. \A i \in 1..Len(app[p]) : Own(p, app[p][i]) \in made[p]
    BY <2>1 DEF OwnMade
  <2>3. \A b \in made[p] : \E i \in 1..Len(app[p]) : b = Own(p, app[p][i])
    BY <2>1 DEF OwnMade
  <2> QED
    BY <2>2, <2>3
<1> QED
  BY <1>1, AloneHolds, PTL

-----------------------------------------------------------------------------
(* The lock.                                                                *)

\* make.lock never outlives those who wrote it, except behind a killed or a failed
\* one that is among them itself.
THEOREM LockHeld == Spec => []LockHasHolder
<1> DEFINE Answers(p) == Holds(p) \/ pc[p] = "killed_holding" \/ failed[p]
<1>1. Init => LockHasHolder
  BY DEF Init, LockHasHolder
<1>2. TypeOK /\ TypeOK' /\ AtHome /\ LockHasHolder /\ [Next]_vars => LockHasHolder'
  <2> SUFFICES ASSUME TypeOK, AtHome, LockHasHolder, [Next]_vars,
                      NEW q \in Invocations, q \in make_lock'
               PROVE  Answers(q)'
    BY DEF LockHasHolder, TypeOK
  <2> USE DEF TypeOK, Holds, asked, files, place, bounds
  \* A step that takes no writer's place.
  <2>1. ASSUME q \in make_lock, Answers(q) => Answers(q)' PROVE Answers(q)'
    BY <2>1 DEF LockHasHolder
  <2>2. ASSUME NEW p \in Invocations, WriteLock(p) \/ NameLock(p) PROVE Answers(q)'
    <3>1. CASE q = p
      BY <2>2, <3>1 DEF WriteLock, NameLock, Step
    <3>2. CASE q # p
      BY <2>1, <2>2, <3>2 DEF WriteLock, NameLock, Step
    <3> QED
      BY <3>1, <3>2
  <2>3. ASSUME NEW p \in Invocations, Refused(p) \/ TestLock(p) PROVE Answers(q)'
    BY <2>1, <2>3 DEF Refused, TestLock, Step
  <2>4. ASSUME NEW p \in Invocations, OpenLists(p) \/ WriteLists(p) PROVE Answers(q)'
    BY <2>1, <2>4 DEF OpenLists, WriteLists, Step
  <2>5. ASSUME NEW p \in Invocations, GenFails(p) PROVE Answers(q)'
    BY <2>1, <2>5 DEF GenFails, Step
  <2>6. ASSUME NEW p \in Invocations, CMake(p) PROVE Answers(q)'
    BY <2>1, <2>6 DEF CMake, Step
  \* It is still there only if p was away, after a failure.
  <2>7. ASSUME NEW p \in Invocations, RemoveLock(p) PROVE Answers(q)'
    BY <2>1, <2>7 DEF RemoveLock, Step, AtHome, OnTrack
  <2>8. ASSUME NEW p \in Invocations, Make(p) PROVE Answers(q)'
    BY <2>1, <2>8 DEF Make, Step
  <2>9. ASSUME NEW p \in Invocations, Kill(p) PROVE Answers(q)'
    BY <2>1, <2>9 DEF Kill, Running
  <2>10. CASE UnlockCommand
    BY <2>10 DEF UnlockCommand
  <2>11. CASE UNCHANGED vars
    BY <2>1, <2>11 DEF vars
  <2> QED
    BY <2>2, <2>3, <2>4, <2>5, <2>6, <2>7, <2>8, <2>9, <2>10, <2>11 DEF Next, Ended
<1> QED
  BY <1>1, <1>2, Typing, Home, PTL DEF Spec
=============================================================================
