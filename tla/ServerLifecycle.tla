--------------------------- MODULE ServerLifecycle ---------------------------
(***************************************************************************)
(* Start and stop of ReportServer, GateServer and GameServer on one host.  *)
(*                                                                         *)
(* The three follow one template.  OnStart runs its steps in one try and   *)
(* returns false at the first exception, taking nothing down.  Only        *)
(* ReportServer has an OnStop, whose steps share one try as well.  What is *)
(* up when main returns goes with the process; a Windows build waits for a *)
(* key before that, with everything up as it is.                           *)
(***************************************************************************)
EXTENDS Integers, Sequences, SequencesExt

CONSTANT MaxStarts   \* bound on the starts of each server

ASSUME LifecycleAssumption == MaxStarts \in Nat

Servers == {"Report", "Gate", "Game"}

\* What each step of OnStart brings up, in order; "config" stands for
\* AppConfig filled from ServerConf.json, "port" for 0.0.0.0:5001.
ReportStart == <<"config", "log", "io", "dispatcher", "service">>
GateStart   == <<"log", "io", "client", "other", "responder", "port", "service">>
GameStart   == <<"log", "io", "client", "other", "responder", "port">>
StartSteps  == [Report |-> ReportStart, Gate |-> GateStart, Game |-> GameStart]

\* What each step of OnStop takes down, in order.
LogFirst ==                                    \* mutant: the log goes first
  [Report |-> <<"log", "io", "dispatcher", "service">>, Gate |-> <<>>, Game |-> <<>>]
ServiceFirst ==                                \* mutant: the order of creation
  [Report |-> <<"service", "io", "dispatcher", "log">>, Gate |-> <<>>, Game |-> <<>>]
StopSteps ==
  [Report |-> <<"io", "dispatcher", "service", "log">>, Gate |-> <<>>, Game |-> <<>>]

VARIABLES
  phase,    \* per server: "down", "starting", "running", "stopping", "leaving"
  next,     \* per server: index of the next step of OnStart or OnStop
  up,       \* per server: what is up
  starts    \* per server: how often it has been started

vars == <<phase, next, up, starts>>

Init ==
  /\ phase = [s \in Servers |-> "down"]
  /\ next = [s \in Servers |-> 1]
  /\ up = [s \in Servers |-> {}]
  /\ starts = [s \in Servers |-> 0]

\* s goes from one phase to another, at the first step of it.
Enter(s, from, to) ==
  /\ phase[s] = from /\ phase' = [phase EXCEPT ![s] = to]
  /\ next' = [next EXCEPT ![s] = 1]

\* main: Start(argc, argv)
Launch(s) ==
  /\ starts[s] < MaxStarts /\ starts' = [starts EXCEPT ![s] = @ + 1]
  /\ Enter(s, "down", "starting")
  /\ UNCHANGED up

\* The port is free on this host.  That the responder's start() throws if it is
\* not is an assumption about the framework: its result is not looked at.
Free(step) == step = "port" => \A o \in Servers : "port" \notin up[o]

\* JsonConfig::Load finds no file, or cannot parse it: loadConfig returns true
\* and leaves AppConfig empty.
NotLoaded(step) == step = "config" /\ UNCHANGED up

\* A step of OnStart succeeds.
StartStep(s) ==
  /\ phase[s] = "starting" /\ next[s] <= Len(StartSteps[s])
  /\ LET step == StartSteps[s][next[s]]
     IN /\ Free(step)
        /\ \/ up' = [up EXCEPT ![s] = @ \cup {step}]
           \/ NotLoaded(step)
  /\ next' = [next EXCEPT ![s] = @ + 1]
  /\ UNCHANGED <<phase, starts>>

\* A step of OnStart throws: caught, logged, and OnStart returns false.
StartGoesOn(s) ==                              \* mutant: the catch goes on
  /\ phase[s] = "starting" /\ next[s] <= Len(StartSteps[s])
  /\ next' = [next EXCEPT ![s] = @ + 1]
  /\ UNCHANGED <<phase, up, starts>>
StartThrows(s) ==
  /\ next[s] <= Len(StartSteps[s])
  /\ Enter(s, "starting", "leaving")
  /\ UNCHANGED <<up, starts>>

\* OnStart returns true: Run().
Started(s) ==
  /\ next[s] > Len(StartSteps[s])
  /\ Enter(s, "starting", "running")
  /\ UNCHANGED <<up, starts>>

\* The application is told to stop: OnStop.
StopSignal(s) == Enter(s, "running", "stopping") /\ UNCHANGED <<up, starts>>

StopStep(s) ==
  /\ phase[s] = "stopping" /\ next[s] <= Len(StopSteps[s])
  /\ up' = [up EXCEPT ![s] = @ \ {StopSteps[s][next[s]]}]
  /\ next' = [next EXCEPT ![s] = @ + 1]
  /\ UNCHANGED <<phase, starts>>

\* A step of OnStop throws: the ones after it are skipped.
StopThrows(s) ==
  /\ next[s] <= Len(StopSteps[s])
  /\ Enter(s, "stopping", "leaving")
  /\ UNCHANGED <<up, starts>>

Stopped(s) ==
  /\ next[s] > Len(StopSteps[s])
  /\ Enter(s, "stopping", "leaving")
  /\ UNCHANGED <<up, starts>>

\* main returns, and the process ends.
Exit(s) ==
  /\ Enter(s, "leaving", "down")
  /\ up' = [up EXCEPT ![s] = {}]
  /\ UNCHANGED starts

Next ==
  \/ \E s \in Servers :
       \/ Launch(s) \/ StartStep(s) \/ StartThrows(s) \/ Started(s)
       \/ StopSignal(s) \/ StopStep(s) \/ StopThrows(s) \/ Stopped(s)
       \/ Exit(s)
  \/ (\A s \in Servers : phase[s] = "down" /\ starts[s] = MaxStarts) /\ UNCHANGED vars

Spec == Init /\ [][Next]_vars

-----------------------------------------------------------------------------
(* Properties.                                                              *)

\* Whatever a server has brought up has the log system under it until it is
\* down, over failed starts and failed stops: the pool threads of ReportServer
\* write to it through Clog.
LogOutlivesItsUsers ==
  \A s \in Servers : up[s] \ {"config"} # {} => "log" \in up[s]

\* A server that runs has everything it was written to have, whichever other
\* server came first to the port; ReportServer may lack its configuration.
RunsComplete ==
  \A s \in Servers :
    phase[s] = "running" => ToSet(StartSteps[s]) \ {"config"} \subseteq up[s]

\* While ReportServer stops, whatever could bring it records is down before the
\* service that takes them is: insert() never finds a stopped service.
RecordsEndBeforeService ==
  phase["Report"] = "stopping" /\ up["Report"] \cap {"io", "dispatcher"} # {}
    => "service" \in up["Report"]
=============================================================================
