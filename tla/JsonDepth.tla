------------------------------ MODULE JsonDepth ------------------------------
(***************************************************************************)
(* stackDepth_g: the one counter by which every Json::Reader of the        *)
(* process limits its recursion.  parse() sets it to 0, readValue() tests, *)
(* increments and decrements it, none of them atomically or under a lock,  *)
(* and ReportServer parses answers in the ten threads of its pool.         *)
(*                                                                         *)
(* JsonReader says what a reader does with the counter on a text.          *)
(***************************************************************************)
EXTENDS JsonReader

CONSTANTS
  Threads,      \* the pool threads
  Texts,        \* the texts they may be given, as sequences of tokens
  stackLimit_g, \* the limit (1000)
  MaxParses     \* bound on the texts parsed by each thread

ASSUME JsonDepthAssumption ==
  /\ stackLimit_g \in Nat /\ MaxParses \in Nat
  /\ \A x \in Texts : Len(x) \in Nat

VARIABLES
  stackDepth_g,
  pc,     \* per thread: "value", "load", "store"; "idle", "parsed" or "thrown"
  text,   \* per thread: what its reader does with the counter on its text
  step,   \* per thread: where in the text it is
  reg,    \* per thread: what it has loaded of stackDepth_g
  alone,  \* history: per thread, no other thread has parsed since it began
  parses  \* per thread: the texts it has begun

vars == <<stackDepth_g, pc, text, step, reg, alone, parses>>

Parsing(t) == pc[t] \in {"value", "load", "store"}

Init ==
  /\ stackDepth_g = 0
  /\ pc = [t \in Threads |-> "idle"]
  /\ text \in [Threads -> {<<0>>}]
  /\ step = [t \in Threads |-> 1]
  /\ reg = [t \in Threads |-> 0]
  /\ alone = [t \in Threads |-> FALSE]
  /\ parses = [t \in Threads |-> 0]

Goto(t, from, to) == pc[t] = from /\ pc' = [pc EXCEPT ![t] = to]

\* stackDepth_g = 0
NotReset == UNCHANGED stackDepth_g              \* mutant: parse() does not reset
Reset == stackDepth_g' = 0

\* parse() up to its first readValue().
BeginParse(t) ==
  /\ ~Parsing(t) /\ parses[t] < MaxParses
  /\ parses' = [parses EXCEPT ![t] = @ + 1]
  /\ \E x \in Texts : text' = [text EXCEPT ![t] = Parse(x).depth]
  /\ step' = [step EXCEPT ![t] = 1]
  /\ pc' = [pc EXCEPT ![t] = "value"]
  /\ Reset
  /\ alone' = [o \in Threads |-> IF o = t THEN \A u \in Threads : ~Parsing(u)
                                          ELSE alone[o] /\ ~Parsing(o)]
  /\ UNCHANGED reg

\* The text goes up from here: the next thing is a call of readValue().
EntersBeyond(t) ==                              \* mutant: a value after the last one
  IF step[t] = Len(text[t]) THEN TRUE ELSE text[t][step[t] + 1] > text[t][step[t]]
Enters(t) == step[t] < Len(text[t]) /\ text[t][step[t] + 1] > text[t][step[t]]
Leaves(t) == step[t] < Len(text[t]) /\ text[t][step[t] + 1] < text[t][step[t]]

\* if (stackDepth_g >= stackLimit_g) throwRuntimeError(...)
AtLimit == stackDepth_g >= stackLimit_g

Throw(t) ==
  /\ Enters(t) /\ AtLimit /\ Goto(t, "value", "thrown")
  /\ UNCHANGED <<stackDepth_g, text, step, reg, alone, parses>>

Enter(t) ==
  /\ Enters(t) /\ ~AtLimit /\ Goto(t, "value", "load")
  /\ UNCHANGED <<stackDepth_g, text, step, reg, alone, parses>>

Leave(t) ==
  /\ Leaves(t) /\ Goto(t, "value", "load")
  /\ UNCHANGED <<stackDepth_g, text, step, reg, alone, parses>>

\* ++stackDepth_g or --stackDepth_g, a load and a store.
Load(t) ==
  /\ Goto(t, "load", "store")
  /\ reg' = [reg EXCEPT ![t] = stackDepth_g]
  /\ UNCHANGED <<stackDepth_g, text, step, alone, parses>>

Store(t) ==
  /\ Goto(t, "store", "value")
  /\ stackDepth_g' = reg[t] + (text[t][step[t] + 1] - text[t][step[t]])
  /\ step' = [step EXCEPT ![t] = @ + 1]
  /\ UNCHANGED <<text, reg, alone, parses>>

\* parse() returns, having read the text or refused it.
Return(t) ==
  /\ step[t] = Len(text[t]) /\ Goto(t, "value", "parsed")
  /\ UNCHANGED <<stackDepth_g, text, step, reg, alone, parses>>

Stopped ==
  /\ \A t \in Threads : ~Parsing(t) /\ parses[t] = MaxParses
  /\ UNCHANGED vars

Next ==
  \/ \E t \in Threads :
       \/ BeginParse(t) \/ Throw(t) \/ Enter(t) \/ Leave(t) \/ Load(t) \/ Store(t)
       \/ Return(t)
  \/ Stopped

Spec == Init /\ [][Next]_vars

-----------------------------------------------------------------------------
(* Properties.                                                              *)

Courses == {Parse(x).depth : x \in Texts} \cup {<<0>>}

\* A reader takes the counter from 0 up or down by one, and never below.
Course(depth) ==
  /\ depth \in Seq(Nat) /\ depth # <<>> /\ depth[1] = 0
  /\ \A i \in 1..Len(depth) - 1 : depth[i + 1] \in {depth[i] - 1, depth[i] + 1}

\* Every variable has its type; no reader steps behind the end of its text.
TypeOK ==
  /\ stackDepth_g \in Int
  /\ pc \in [Threads -> {"idle", "value", "load", "store", "parsed", "thrown"}]
  /\ text \in [Threads -> Courses]
  /\ \A t \in Threads : Course(text[t])
  /\ step \in [Threads -> Nat \ {0}]
  /\ \A t \in Threads :
       /\ step[t] <= Len(text[t])
       /\ pc[t] \in {"load", "store"} => step[t] < Len(text[t])
  /\ reg \in [Threads -> Int]
  /\ alone \in [Threads -> BOOLEAN]
  /\ parses \in [Threads -> 0..MaxParses]

\* A text that a thread parsed with no other thread parsing beside it is held
\* to the limit exactly, whatever the texts before it, refused half way, thrown
\* out of, or parsed by several threads at once, have left in stackDepth_g.
AloneKeepsLimit ==
  \A t \in Threads : alone[t] =>
    /\ pc[t] = "thrown" => \E i \in 1..Len(text[t]) : text[t][i] > stackLimit_g
    /\ pc[t] = "parsed" => \A i \in 1..Len(text[t]) : text[t][i] <= stackLimit_g

\* Whatever the text, and however deep in it the reader gives it up: a thread that
\* is alone with the counter leaves it as it was, or one higher.
AloneIsBalanced ==
  \A t \in Threads :
    alone[t] /\ pc[t] = "value" /\ step[t] = Len(text[t]) => stackDepth_g \in {0, 1}
=============================================================================
