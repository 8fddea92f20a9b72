-------------------------------- MODULE Startup --------------------------------
(***************************************************************************)
(* ModuleManager: the order in which modules are initialised, and the      *)
(* sequencer that releases them one by one, from the main loop, once their *)
(* delay is over, what they depend on is released and they can start.  A   *)
(* task that cannot be created ends the start-up for good.  An application *)
(* just installed is confirmed when all modules are released, and only     *)
(* then (Bootstrap::loop).                                                 *)
(*                                                                         *)
(* Modules are numbered in the order of their registration.  What their    *)
(* init, onConfigLoaded and onStart do is left out.                        *)
(*                                                                         *)
(* The operators that no action uses (OnePass, OrderedBefore...) are       *)
(* mistakes easily made here, kept beside the definition they would        *)
(* replace: each breaks a property below.                                  *)
(***************************************************************************)
EXTENDS Integers, SequencesExt

CONSTANTS
    Count,     \* registered modules
    Gated,     \* those whose canStart asks for the network
    TaskCount  \* tasks of each module

Registered == 1..Count
Unregistered == Count + 1

ASSUME StartupAssumption ==
    Count \in Nat \ {0} /\ Gated \subseteq Registered /\ TaskCount \in [Registered -> Nat]

VARIABLES
    needs,     \* the dependencies of each module
    ordered,   \* what buildInitOrder made of them
    phase,     \* startupFlags_, and whether setup is over
    due,       \* modules whose delay was over when the pass began
    at,        \* the place of the pass in ordered[], or 0
    delayed,   \* allStarted is false: the pass found a module it could not release
    elapsed,   \* modules whose delay is over
    reachable, \* the network
    released,  \* how often onStart was called
    tasks,     \* the tasks created
    started,   \* startupStartedMask_
    confirmed  \* gPendingApplicationConfirmed

startupVars == <<needs, ordered, phase, due, at, delayed, elapsed, reachable, released, tasks,
                 started, confirmed>>
sequencerVars == <<phase, due, at, delayed, released, tasks, started>>

(* Kahn's sort: a pass places, in the order of registration, the modules   *)
(* whose dependencies are placed, also by the pass itself.                 *)
Place(placed, m) ==
    IF m \notin ToSet(placed) /\ needs[m] \subseteq ToSet(placed) THEN Append(placed, m)
    ELSE placed

Pass(placed) ==
    LET upTo[m \in 0..Count] == IF m = 0 THEN placed ELSE Place(upTo[m - 1], m)
    IN  upTo[Count]

OnePass == Pass(<<>>)

(* The order after each pass.  One that places nothing ends the sort: the  *)
(* next ones would not either.                                             *)
passes[n \in 0..Count] == IF n = 0 THEN <<>> ELSE Pass(passes[n - 1])

buildInitOrder == passes[Count]

OrderExists == Len(ordered) = Count
-----------------------------------------------------------------------------
OrderedBefore(m) == TRUE

dependenciesStarted(m) == needs[m] \subseteq started

canStart(m) == m \in Gated => reachable

BeginPass ==
    /\ phase \in {"Setup", "Active"} /\ at = 0
    /\ at' = 1 /\ due' = elapsed /\ delayed' = FALSE
    /\ UNCHANGED <<needs, ordered, phase, elapsed, reachable, released, tasks,
                   started, confirmed>>

Here == ordered[at]
Passed == phase \in {"Setup", "Active"} /\ at > 0 /\ at <= Count

SkipStarted ==
    /\ Passed /\ Here \in started
    /\ at' = at + 1
    /\ UNCHANGED <<needs, ordered, phase, due, delayed, elapsed, reachable, released, tasks,
                   started, confirmed>>

(* Any module not released keeps the start-up going, due or not.           *)
DueOnes == delayed \/ Here \in due

NotYet == TRUE

Postpone ==
    /\ Passed /\ Here \notin started
    /\ ~(Here \in due /\ dependenciesStarted(Here) /\ canStart(Here))
    /\ at' = at + 1 /\ delayed' = NotYet
    /\ UNCHANGED <<needs, ordered, phase, due, elapsed, reachable, released, tasks,
                   started, confirmed>>

Ready ==
    /\ Passed /\ Here \notin started
    /\ Here \in due /\ dependenciesStarted(Here) /\ canStart(Here)

startModule ==
    /\ Ready
    /\ released' = [released EXCEPT ![Here] = @ + 1]
    /\ tasks' = [tasks EXCEPT ![Here] = TaskCount[Here]]
    /\ started' = started \cup {Here}
    /\ at' = at + 1
    /\ UNCHANGED <<needs, ordered, phase, due, delayed, elapsed, reachable, confirmed>>

(* Task n + 1 cannot be created: the n first ones run, and go on.          *)
TriedAgain == IF phase = "Setup" THEN "Halted" ELSE "Active"

AfterFailure == IF phase = "Setup" THEN "Halted" ELSE "Failed"

FailAtTask ==
    /\ Ready
    /\ released' = [released EXCEPT ![Here] = @ + 1]
    /\ \E n \in 0..(TaskCount[Here] - 1) : tasks' = [tasks EXCEPT ![Here] = n]
    /\ phase' = AfterFailure /\ at' = 0
    /\ UNCHANGED <<needs, ordered, due, delayed, elapsed, reachable, started, confirmed>>

WaitingFails == IF delayed THEN "Failed" ELSE "Complete"

AfterPass == IF delayed THEN "Active" ELSE "Complete"

EndPass ==
    /\ at > Count
    /\ at' = 0
    /\ phase' = AfterPass
    /\ UNCHANGED <<needs, ordered, due, delayed, elapsed, reachable, released, tasks,
                   started, confirmed>>
-----------------------------------------------------------------------------
(* Once all is released: the application is confirmed, tried at each loop. *)
Confirm ==
    /\ phase = "Complete" /\ ~confirmed
    /\ confirmed' = TRUE
    /\ UNCHANGED <<needs, ordered, elapsed, reachable, sequencerVars>>

(* The delays pass; the network comes and goes.                            *)
Elapse(m) ==
    /\ phase \in {"Setup", "Active"} /\ m \notin elapsed
    /\ elapsed' = elapsed \cup {m}
    /\ UNCHANGED <<needs, ordered, reachable, confirmed, sequencerVars>>

Network ==
    /\ phase \in {"Setup", "Active"}
    /\ reachable' = ~reachable
    /\ UNCHANGED <<needs, ordered, elapsed, confirmed, sequencerVars>>

(* The sequencer is at rest.                                               *)
LoopOn ==
    /\ phase \in {"Failed", "Halted"} \/ confirmed
    /\ UNCHANGED startupVars

(* Without an order initAll returns false, and setup halts.                *)
StartupInit ==
    /\ needs \in [Registered -> SUBSET (Registered \cup {Unregistered})]
    /\ \E order \in {buildInitOrder} : ordered = order
    /\ phase = IF OrderExists THEN "Setup" ELSE "Halted"
    /\ due = {} /\ at = 0 /\ delayed = FALSE /\ elapsed = {} /\ reachable = FALSE
    /\ released = [m \in Registered |-> 0] /\ tasks = [m \in Registered |-> 0]
    /\ started = {} /\ confirmed = FALSE

Sequencer ==
    \/ BeginPass \/ SkipStarted \/ Postpone \/ startModule \/ FailAtTask \/ EndPass

StartupNext ==
    \/ Sequencer \/ Confirm \/ Network \/ LoopOn
    \/ \E m \in Registered : Elapse(m)

(* The main loop goes on, and so does time.                                *)
StartupFairness ==
    /\ WF_startupVars(Sequencer) /\ WF_startupVars(Confirm)
    /\ \A m \in Registered : WF_startupVars(Elapse(m))

StartupSpec == StartupInit /\ [][StartupNext]_startupVars /\ StartupFairness
-----------------------------------------------------------------------------
(* The sequencer keeps its types, and releases no module twice.            *)
StartupTypeOK ==
    /\ needs \in [Registered -> SUBSET (Registered \cup {Unregistered})]
    /\ ordered \in UNION {[1..n -> Registered] : n \in 0..Count}
    /\ phase \in {"Setup", "Active", "Complete", "Failed", "Halted"}
    /\ {due, elapsed, started} \subseteq SUBSET Registered
    /\ at \in 0..(Count + 1) /\ {delayed, reachable, confirmed} \subseteq BOOLEAN
    /\ released \in [Registered -> 0..1]
    /\ \A m \in Registered : tasks[m] \in 0..TaskCount[m]

(* No chain of dependencies ends in a circle or in a module that nobody    *)
(* registered.                                                             *)
Orderable ==
    /\ \A m \in Registered : Unregistered \notin needs[m]
    /\ \A ms \in (SUBSET Registered) \ {{}} : \E m \in ms : needs[m] \cap ms = {}

(* Modules are ordered exactly when they can be, in whatever order they    *)
(* were registered.                                                        *)
OrderSound == OrderExists <=> Orderable

(* A module is told to start only when all that it depends on runs, with   *)
(* every task, also when what it depends on has the longer delay.          *)
DependenciesRun ==
    \A m \in Registered : released[m] > 0 =>
        \A d \in needs[m] : d \in started /\ tasks[d] = TaskCount[d]

(* An application is confirmed only with every module running: else the    *)
(* next restart goes back to the application before.                       *)
ConfirmedWhenAll ==
    confirmed => \A m \in Registered : released[m] = 1 /\ tasks[m] = TaskCount[m]

(* The start-up: an order when there is one, dependencies first, and an    *)
(* application confirmed only when all of it runs.                         *)
StartupSound == StartupTypeOK /\ OrderSound /\ DependenciesRun /\ ConfirmedWhenAll

(* If the network comes to stay, every module is released in the end and   *)
(* the application confirmed, unless a task could not be created.          *)
HalfStarted == \E m \in Registered \ started : released[m] > 0

ComesUp == <>[]reachable => <>(confirmed \/ HalfStarted \/ ~OrderExists)
=============================================================================
