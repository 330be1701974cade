------------------------ MODULE ServerLifecycleProofs ------------------------
(***************************************************************************)
(* Proofs about ServerLifecycle, for any number of starts.  What the three *)
(* tables of steps have to satisfy is stated once (LogComesFirst,          *)
(* LogGoesLast, ServiceGoesAfter); the rest holds of any servers that are  *)
(* started and stopped by tables like these.                               *)
(***************************************************************************)
EXTENDS ServerLifecycle, TLAPS

\* What s can have up.
Parts(s) == ToSet(StartSteps[s])

TypeOK ==
  /\ phase \in [Servers -> {"down", "starting", "running", "stopping", "leaving"}]
  /\ next \in [Servers -> Nat \ {0}]
  /\ up \in [Servers -> SUBSET UNION {Parts(s) : s \in Servers}]
  /\ \A s \in Servers : up[s] \subseteq Parts(s)
  /\ starts \in [Servers -> 0..MaxStarts]

\* The steps of OnStart before the next one have brought up what they bring up,
\* but for a configuration that was not found.
Begun(s) == \A i \in 1..Len(StartSteps[s]) :
  i < next[s] /\ StartSteps[s][i] # "config" => StartSteps[s][i] \in up[s]

\* The steps of OnStop before the next one have taken down what they take down,
\* and the others have it before them.
Ended(s) == \A i \in 1..Len(StopSteps[s]) : StopSteps[s][i] \in up[s] <=> i >= next[s]

Complete(s) == Parts(s) \ {"config"} \subseteq up[s]

LogUnder(s) == up[s] \ {"config"} # {} => "log" \in up[s]

\* What is up of one server in each phase.
ServerInv(s) ==
  /\ phase[s] = "starting" => Begun(s)
  /\ phase[s] = "running" => Complete(s)
  /\ phase[s] = "stopping" => Ended(s)
  /\ LogUnder(s)

Inv == TypeOK /\ \A s \in Servers : ServerInv(s)

-----------------------------------------------------------------------------
(* The tables.                                                              *)

\* OnStart brings up nothing but the configuration before the log system.
LEMMA LogComesFirst ==
  ASSUME NEW s \in Servers
  PROVE  /\ Len(StartSteps[s]) \in Nat
         /\ \A i \in 1..Len(StartSteps[s]) :
              \/ StartSteps[s][i] \in {"config", "log"}
              \/ \E j \in 1..i - 1 : StartSteps[s][j] = "log"
<1>1. CASE s = "Report"
  BY <1>1 DEF StartSteps, ReportStart
<1>2. CASE s = "Gate"
  BY <1>2 DEF StartSteps, GateStart
<1>3. CASE s = "Game"
  BY <1>3 DEF StartSteps, GameStart
<1> QED
  BY <1>1, <1>2, <1>3 DEF Servers

\* OnStop takes every part down at most once, and the log system when nothing
\* but the configuration is left.
LEMMA LogGoesLast ==
  ASSUME NEW s \in Servers
  PROVE  /\ Len(StopSteps[s]) \in Nat
         /\ \A i \in 1..Len(StopSteps[s]) : StopSteps[s][i] \in Parts(s) \ {"config"}
         /\ \A i, j \in 1..Len(StopSteps[s]) : StopSteps[s][i] = StopSteps[s][j] => i = j
         /\ \A i \in 1..Len(StopSteps[s]) : StopSteps[s][i] = "log" =>
              \A p \in Parts(s) \ {"config", "log"} :
                \E j \in 1..i - 1 : StopSteps[s][j] = p
<1>1. CASE s = "Report"
  <2>1. Parts(s) = {"config", "log", "io", "dispatcher", "service"}
    BY <1>1 DEF Parts, ToSet, StartSteps, ReportStart
  <2>2. StopSteps[s] = <<"io", "dispatcher", "service", "log">>
    BY <1>1 DEF StopSteps
  <2> QED
    BY <2>1, <2>2
<1>2. CASE s \in {"Gate", "Game"}
  <2>1. StopSteps[s] = <<>>
    BY <1>2 DEF StopSteps
  <2> QED
    BY <2>1
<1> QED
  BY <1>1, <1>2 DEF Servers

\* OnStop of ReportServer takes the service down behind what brings records.
LEMMA ServiceGoesAfter ==
  /\ 3 \in 1..Len(StopSteps["Report"]) /\ StopSteps["Report"][3] = "service"
  /\ \A p \in {"io", "dispatcher"} : \E i \in 1..2 :
       i \in 1..Len(StopSteps["Report"]) /\ StopSteps["Report"][i] = p
BY DEF StopSteps

\* What StartSteps lists is what a server can have up.
LEMMA PartsAre ==
  ASSUME NEW s \in Servers
  PROVE  /\ Parts(s) = {StartSteps[s][i] : i \in 1..Len(StartSteps[s])}
         /\ Parts(s) \subseteq UNION {Parts(o) : o \in Servers}
<1>1. CASE s = "Report"
  BY <1>1 DEF Parts, ToSet, StartSteps, ReportStart
<1>2. CASE s = "Gate"
  BY <1>2 DEF Parts, ToSet, StartSteps, GateStart
<1>3. CASE s = "Game"
  BY <1>3 DEF Parts, ToSet, StartSteps, GameStart
<1> QED
  BY <1>1, <1>2, <1>3 DEF Servers

USE DEF Enter

-----------------------------------------------------------------------------
(* The steps.                                                               *)

\* A step of s leaves the other servers alone.
LEMMA OthersStay ==
  ASSUME TypeOK, NEW s \in Servers, NEW o \in Servers \ {s}, ServerInv(o),
         phase'[o] = phase[o], next'[o] = next[o], up'[o] = up[o]
  PROVE  ServerInv(o)'
BY DEF ServerInv, Begun, Ended, Complete, LogUnder

\* A step of s, to phase p, its step n and what is up of it, u.
Moves(s, p, n, u) ==
  /\ phase' = [phase EXCEPT ![s] = p]
  /\ next' = [next EXCEPT ![s] = n]
  /\ up' = [up EXCEPT ![s] = u]
  /\ starts' \in [Servers -> 0..MaxStarts]

LEMMA MoveKeeps ==
  ASSUME Inv, NEW s \in Servers,
         NEW p \in {"down", "starting", "running", "stopping", "leaving"},
         NEW n \in Nat \ {0}, NEW u \in SUBSET Parts(s), Moves(s, p, n, u),
         phase'[s] = p /\ next'[s] = n /\ up'[s] = u => ServerInv(s)'
  PROVE  Inv'
<1>1. /\ TypeOK /\ starts' \in [Servers -> 0..MaxStarts]
      /\ phase' = [phase EXCEPT ![s] = p]
      /\ next' = [next EXCEPT ![s] = n]
      /\ up' = [up EXCEPT ![s] = u]
  BY DEF Inv, Moves
<1>2. /\ phase'[s] = p /\ next'[s] = n /\ up'[s] = u
      /\ \A o \in Servers \ {s} :
           phase'[o] = phase[o] /\ next'[o] = next[o] /\ up'[o] = up[o]
  BY <1>1 DEF TypeOK
<1>3. TypeOK'
  <2>1. u \in SUBSET UNION {Parts(o) : o \in Servers}
    BY PartsAre
  <2>2. \A o \in Servers : up'[o] \subseteq Parts(o)
    BY <1>1, <1>2 DEF TypeOK
  <2> QED
    BY <1>1, <2>1, <2>2 DEF TypeOK
<1>4. \A o \in Servers \ {s} : ServerInv(o)'
  BY <1>1, <1>2, OthersStay DEF Inv
<1> QED
  BY <1>2, <1>3, <1>4 DEF Inv

\* main, the phases, and the end of the process: what is up stays, or all goes.
LEMMA PhaseKeeps ==
  ASSUME Inv, NEW s \in Servers,
         \/ Launch(s) \/ StartThrows(s) \/ Started(s) \/ StopSignal(s)
         \/ StopThrows(s) \/ Stopped(s) \/ Exit(s)
  PROVE  Inv'
<1>1. /\ next[s] \in Nat \ {0} /\ up[s] \in SUBSET Parts(s) /\ LogUnder(s)
      /\ up = [up EXCEPT ![s] = up[s]] /\ starts \in [Servers -> 0..MaxStarts]
  BY DEF Inv, TypeOK, ServerInv
<1>2. CASE Launch(s)
  <2>1. starts' \in [Servers -> 0..MaxStarts]
    BY <1>1, <1>2, LifecycleAssumption DEF Launch
  <2>2. Moves(s, "starting", 1, up[s])
    BY <1>1, <1>2, <2>1 DEF Launch, Moves
  <2>3. phase'[s] = "starting" /\ next'[s] = 1 /\ up'[s] = up[s] => ServerInv(s)'
    BY <1>1 DEF ServerInv, Begun, LogUnder
  <2> QED
    BY <1>1, <2>2, <2>3, MoveKeeps
<1>3. CASE StartThrows(s) \/ StopThrows(s) \/ Stopped(s)
  <2>1. Moves(s, "leaving", 1, up[s])
    BY <1>1, <1>3 DEF StartThrows, StopThrows, Stopped, Moves
  <2>2. phase'[s] = "leaving" /\ next'[s] = 1 /\ up'[s] = up[s] => ServerInv(s)'
    BY <1>1 DEF ServerInv, LogUnder
  <2> QED
    BY <1>1, <2>1, <2>2, MoveKeeps
<1>4. CASE Started(s)
  <2>1. Moves(s, "running", 1, up[s])
    BY <1>1, <1>4 DEF Started, Moves
  <2>2. Complete(s)
    <3>1. Begun(s) /\ next[s] > Len(StartSteps[s])
      BY <1>4 DEF Started, Inv, ServerInv
    <3>2. ASSUME NEW i \in 1..Len(StartSteps[s]), StartSteps[s][i] # "config"
          PROVE  StartSteps[s][i] \in up[s]
      BY <1>1, <3>1, <3>2, LogComesFirst DEF Begun
    <3> QED
      BY <3>2, PartsAre DEF Complete
  <2>3. phase'[s] = "running" /\ next'[s] = 1 /\ up'[s] = up[s] => ServerInv(s)'
    BY <1>1, <2>2 DEF ServerInv, LogUnder, Complete
  <2> QED
    BY <1>1, <2>1, <2>3, MoveKeeps
<1>5. CASE StopSignal(s)
  <2>1. Moves(s, "stopping", 1, up[s])
    BY <1>1, <1>5 DEF StopSignal, Moves
  <2>2. \A i \in 1..Len(StopSteps[s]) : StopSteps[s][i] \in up[s]
    BY <1>5, LogGoesLast DEF StopSignal, Inv, ServerInv, Complete
  <2>3. phase'[s] = "stopping" /\ next'[s] = 1 /\ up'[s] = up[s] => ServerInv(s)'
    BY <1>1, <2>2, LogGoesLast DEF ServerInv, LogUnder, Ended
  <2> QED
    BY <1>1, <2>1, <2>3, MoveKeeps
<1>6. CASE Exit(s)
  <2>1. Moves(s, "down", 1, {})
    BY <1>1, <1>6 DEF Exit, Moves
  <2>2. phase'[s] = "down" /\ next'[s] = 1 /\ up'[s] = {} => ServerInv(s)'
    BY DEF ServerInv, LogUnder
  <2> QED
    BY <2>1, <2>2, MoveKeeps
<1> QED
  BY <1>2, <1>3, <1>4, <1>5, <1>6

\* A step of OnStart that needs the log system finds it up.
LEMMA StartKeeps ==
  ASSUME Inv, NEW s \in Servers, StartStep(s)
  PROVE  Inv'
<1>1. PICK n, step : n = next[s] /\ step = StartSteps[s][n]
  OBVIOUS
<1>2. /\ n \in Nat \ {0} /\ up[s] \in SUBSET Parts(s) /\ LogUnder(s) /\ Begun(s)
      /\ up = [up EXCEPT ![s] = up[s]] /\ starts \in [Servers -> 0..MaxStarts]
      /\ phase = [phase EXCEPT ![s] = "starting"]
  BY <1>1 DEF Inv, TypeOK, ServerInv, StartStep
<1>3. /\ n <= Len(StartSteps[s])
      /\ \/ up' = [up EXCEPT ![s] = up[s] \cup {step}]
         \/ step = "config" /\ up' = up
      /\ next' = [next EXCEPT ![s] = n + 1] /\ UNCHANGED <<phase, starts>>
  BY <1>1 DEF StartStep, NotLoaded
<1>4. n \in 1..Len(StartSteps[s])
  BY <1>2, <1>3, LogComesFirst
<1>5. step \in Parts(s)
  BY <1>1, <1>4, PartsAre
<1>6. PICK u \in SUBSET Parts(s) :
        /\ up' = [up EXCEPT ![s] = u]
        /\ u \in {up[s], up[s] \cup {step}} /\ (step # "config" => step \in u)
  <2>1. CASE up' = [up EXCEPT ![s] = up[s] \cup {step}]
    BY <1>2, <1>5, <2>1
  <2>2. CASE step = "config" /\ up' = up
    BY <1>2, <2>2
  <2> QED
    BY <1>3, <2>1, <2>2
<1>7. step \in {"config", "log"} \/ "log" \in up[s]
  <2>1. ASSUME NEW j \in 1..n - 1, StartSteps[s][j] = "log"
        PROVE  "log" \in up[s]
    <3>1. j \in 1..Len(StartSteps[s]) /\ j < n
      BY <1>4, LogComesFirst
    <3> QED
      BY <1>1, <1>2, <2>1, <3>1 DEF Begun
  <2> QED
    BY <1>1, <1>4, <2>1, LogComesFirst
<1>8. Moves(s, "starting", n + 1, u)
  BY <1>2, <1>3, <1>6 DEF Moves
<1>9. ASSUME phase'[s] = "starting", next'[s] = n + 1, up'[s] = u
      PROVE  ServerInv(s)'
  <2>1. ASSUME NEW i \in 1..Len(StartSteps[s]), i < n + 1, StartSteps[s][i] # "config"
        PROVE  StartSteps[s][i] \in u
    <3>1. CASE i = n
      BY <1>1, <1>6, <2>1, <3>1
    <3>2. CASE i < n
      BY <1>1, <1>2, <1>6, <2>1, <3>2 DEF Begun
    <3> QED
      BY <1>2, <2>1, <3>1, <3>2, LogComesFirst
  <2>2. Begun(s)'
    BY <1>9, <2>1 DEF Begun
  <2>3. LogUnder(s)'
    BY <1>2, <1>6, <1>7, <1>9 DEF LogUnder
  <2> QED
    BY <1>9, <2>2, <2>3 DEF ServerInv
<1> QED
  BY <1>2, <1>6, <1>8, <1>9, MoveKeeps

\* A step of OnStop takes down what nothing that is up needs any more.
LEMMA StopKeeps ==
  ASSUME Inv, NEW s \in Servers, StopStep(s)
  PROVE  Inv'
<1>1. PICK n, step, u : n = next[s] /\ step = StopSteps[s][n] /\ u = up[s] \ {step}
  OBVIOUS
<1>2. /\ n \in Nat \ {0} /\ up[s] \in SUBSET Parts(s) /\ LogUnder(s) /\ Ended(s)
      /\ starts \in [Servers -> 0..MaxStarts]
      /\ phase = [phase EXCEPT ![s] = "stopping"]
  BY <1>1 DEF Inv, TypeOK, ServerInv, StopStep
<1>3. n \in 1..Len(StopSteps[s])
  BY <1>1, <1>2, LogGoesLast DEF StopStep
<1>4. Moves(s, "stopping", n + 1, u)
  BY <1>1, <1>2 DEF StopStep, Moves
<1>5. ASSUME phase'[s] = "stopping", next'[s] = n + 1, up'[s] = u
      PROVE  ServerInv(s)'
  <2>1. ASSUME NEW i \in 1..Len(StopSteps[s])
        PROVE  StopSteps[s][i] \in u <=> i >= n + 1
    <3>1. StopSteps[s][i] \in up[s] <=> i >= n
      BY <1>1, <1>2 DEF Ended
    <3>2. StopSteps[s][i] = step <=> i = n
      BY <1>1, <1>3, LogGoesLast
    <3> QED
      BY <1>1, <1>2, <3>1, <3>2, LogGoesLast
  <2>2. Ended(s)'
    BY <1>5, <2>1 DEF Ended
  <2>3. LogUnder(s)'
    <3>1. CASE step = "log"
      <4>1. ASSUME NEW p \in Parts(s) \ {"config", "log"}
            PROVE  p \notin up[s]
        <5>1. PICK j \in 1..n - 1 : StopSteps[s][j] = p
          <6>1. StopSteps[s][n] = "log"
            BY <1>1, <3>1
          <6>2. \A i \in 1..Len(StopSteps[s]) : StopSteps[s][i] = "log" =>
                  \A q \in Parts(s) \ {"config", "log"} :
                    \E j \in 1..i - 1 : StopSteps[s][j] = q
            BY LogGoesLast
          <6> QED
            BY <1>3, <6>1, <6>2
        <5>2. j \in 1..Len(StopSteps[s]) /\ j < n
          BY <1>3, LogGoesLast
        <5> QED
          BY <1>1, <1>2, <5>1, <5>2 DEF Ended
      <4>2. u \subseteq {"config"}
        BY <1>1, <1>2, <3>1, <4>1
      <4> QED
        BY <1>5, <4>2 DEF LogUnder
    <3>2. CASE step # "log"
      BY <1>1, <1>2, <1>5, <3>2 DEF LogUnder
    <3> QED
      BY <3>1, <3>2
  <2> QED
    BY <1>5, <2>2, <2>3 DEF ServerInv
<1> QED
  BY <1>1, <1>2, <1>4, <1>5, MoveKeeps

LEMMA InitInv == Init => Inv
<1> SUFFICES ASSUME Init PROVE Inv
  OBVIOUS
<1>1. TypeOK
  BY LifecycleAssumption DEF Init, TypeOK
<1> QED
  BY <1>1 DEF Init, Inv, ServerInv, LogUnder

LEMMA InvStep == Inv /\ [Next]_vars => Inv'
<1> SUFFICES ASSUME Inv, [Next]_vars PROVE Inv'
  OBVIOUS
<1>1. CASE UNCHANGED vars
  BY <1>1 DEF vars, Inv, TypeOK, ServerInv, Begun, Ended, Complete, LogUnder
<1> QED
  BY <1>1, PhaseKeeps, StartKeeps, StopKeeps DEF Next

LEMMA Invariance == Spec => []Inv
BY InitInv, InvStep, PTL DEF Spec

-----------------------------------------------------------------------------
(* The properties.                                                          *)

\* The log system is up under whatever else a server has up, over every start
\* and stop, failed ones included.
THEOREM LogUnderAll == Spec => []LogOutlivesItsUsers
<1>1. Inv => LogOutlivesItsUsers
  BY DEF Inv, ServerInv, LogUnder, LogOutlivesItsUsers
<1> QED
  BY <1>1, Invariance, PTL

\* A server that runs has all that its OnStart brings up, but perhaps its
\* configuration.
THEOREM RunningIsComplete == Spec => []RunsComplete
<1>1. Inv => RunsComplete
  BY DEF Inv, ServerInv, Complete, Parts, RunsComplete
<1> QED
  BY <1>1, Invariance, PTL

\* While ReportServer stops, the service is up as long as the network or a
\* dispatcher may call insert().
THEOREM ServiceOutlivesSources == Spec => []RecordsEndBeforeService
<1>1. Inv => RecordsEndBeforeService
  <2> SUFFICES ASSUME Inv, phase["Report"] = "stopping",
                      NEW p \in {"io", "dispatcher"}, p \in up["Report"]
               PROVE  "service" \in up["Report"]
    BY DEF RecordsEndBeforeService
  <2>1. PICK n : n = next["Report"]
    OBVIOUS
  <2>2. n \in Nat /\ Ended("Report")
    BY <2>1 DEF Inv, TypeOK, ServerInv, Servers
  <2>3. PICK i \in 1..2 :
          i \in 1..Len(StopSteps["Report"]) /\ StopSteps["Report"][i] = p
    BY ServiceGoesAfter
  <2>4. i >= n
    BY <2>1, <2>2, <2>3 DEF Ended
  <2>5. 3 >= n
    BY <2>2, <2>4
  <2> QED
    BY <2>1, <2>2, <2>5, ServiceGoesAfter DEF Ended
<1> QED
  BY <1>1, Invariance, PTL
=============================================================================
