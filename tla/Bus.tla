--------------------------------- MODULE Bus ---------------------------------
(***************************************************************************)
(* The life of the shared bus of one CAN interface: the registry of live   *)
(* buses, the MotorDrive handles that hold a bus, and the loop thread that *)
(* owns its CanopenApplication.  Buses of other interfaces share nothing   *)
(* with it but the registry's mutex.                                       *)
(*                                                                         *)
(* An action is what a thread does between two points where another thread *)
(* can see it: a critical section, an atomic load or store, a wait.  What  *)
(* the application does until its loop stops is CanopenApplication's       *)
(* matter; here the loop stops once it was asked to.                       *)
(***************************************************************************)
EXTENDS FiniteSets

CONSTANTS
    Threads,        \* the application's threads
    Drives,         \* MotorDrive objects, each with a node of its own
    Buses,          \* Bus objects that exist at once (a bound)
    None,           \* no bus, no thread
    Overlapping,    \* calls of different threads overlap
    Tooling,        \* shutdownBus and forceStopBus are used
    Mismatches,     \* a drive may be constructed with other bus-level settings
    StartFails      \* constructing the application may throw

ASSUME BusAssumption ==
    /\ None \notin Threads \cup Drives \cup Buses
    /\ Threads \cap Drives = {}
    /\ {Overlapping, Tooling, Mismatches, StartFails} \subseteq BOOLEAN

VARIABLES
    registry,   \* registry()[interface], a weak reference
    mutex,      \* the thread that holds registryMutex()
    bus,        \* the Bus objects
    loop,       \* where the loop thread of each bus is
    handle,     \* bus_ of each MotorDrive, None if there is no such object
    thread,     \* what each thread is doing
    booted      \* the drives whose start() has returned (history)

vars == <<registry, mutex, bus, loop, handle, thread, booted>>

Object == [nodes : SUBSET Drives,   \* node_configs_
           started : BOOLEAN,       \* started_
           joinable : BOOLEAN,      \* loop_thread_.joinable()
           asked : BOOLEAN]         \* requestShutdown or stop reached the loop
Fresh == [nodes |-> {}, started |-> FALSE, joinable |-> FALSE, asked |-> FALSE]

\* "left": run() returned; "detached": app_ is null but the application still
\* exists; "ended": it is destroyed; "failed": it was never constructed.
LoopPC == {"none", "constructing", "failed", "running", "left", "detached", "ended"}
ThreadPC == {"idle", "validate", "register", "ready", "post", "await", "force",
             "shutdown", "ask", "join", "erase"}
\* `then`: what follows a call that is part of another one.
Thread == [pc : ThreadPC, drive : Drives \cup {None}, bus : Buses \cup {None},
           then : {"return", "await", "release", "erase"}]
Resting == [pc |-> "idle", drive |-> None, bus |-> None, then |-> "return"]

\* A thread holds the mutex only inside a call.
TypeOK ==
    /\ thread \in [Threads -> Thread]
    /\ registry \in Buses \cup {None}
    /\ mutex \in {None} \cup {t \in Threads : thread[t].pc # "idle"}
    /\ bus \in [Buses -> Object]
    /\ loop \in [Buses -> LoopPC]
    /\ handle \in [Drives -> Buses \cup {None}]
    /\ booted \in SUBSET Drives

Init ==
    /\ registry = None /\ mutex = None
    /\ bus = [b \in Buses |-> Fresh]
    /\ loop = [b \in Buses |-> "none"]
    /\ handle = [d \in Drives |-> None]
    /\ thread = [t \in Threads |-> Resting]
    /\ booted = {}
-----------------------------------------------------------------------------
At(t, pc) == thread[t].pc = pc
Goes(t, pc) == thread' = [thread EXCEPT ![t].pc = pc]
Rests(t) == thread' = [thread EXCEPT ![t] = Resting]
Begins(t, pc, d, b, then) ==
    thread' = [thread EXCEPT ![t] = [pc |-> pc, drive |-> d, bus |-> b, then |-> then]]

\* A thread that does nothing may call; the others wait for it unless calls overlap.
MayCall(t) == At(t, "idle") /\ (Overlapping \/ \A u \in Threads : At(u, "idle"))

\* app_, and whether what it points to exists.
AppVisible(b) == loop[b] \in {"running", "left"}
AppExists(b) == loop[b] \in {"running", "left", "detached"}
running(b) == loop[b] = "running"

\* The strong references: the handles, and one local to getOrCreate.
Holds(b) == {d \in Drives : handle[d] = b}
                \cup {t \in Threads : At(t, "validate") /\ thread[t].bus = b}
Live(b) == b \in Buses /\ Holds(b) # {}
Unused(b) == bus[b] = Fresh /\ loop[b] = "none" /\ ~Live(b) /\ registry # b
             /\ \A t \in Threads : thread[t].bus # b
-----------------------------------------------------------------------------
(* The constructor of MotorDrive: getOrCreate, then registerNode.          *)

\* Mutant: every drive gets a bus of its own.
getOrCreate_Unshared(t, d) ==
    /\ MayCall(t) /\ handle[d] = None /\ \A u \in Threads : thread[u].drive # d
    /\ \E b \in Buses : /\ Unused(b)
                        /\ registry' = b /\ handle' = [handle EXCEPT ![d] = b]
                        /\ Begins(t, "register", d, b, "return")
    /\ UNCHANGED <<mutex, bus, loop, booted>>

\* The registry has a live bus: it is locked, and its settings are compared
\* while the mutex is held; or it has none, and a bus is created.
getOrCreate(t, d) ==
    /\ MayCall(t) /\ handle[d] = None /\ mutex = None
    /\ \A u \in Threads : thread[u].drive # d
    /\ \/ /\ Live(registry)
          /\ mutex' = t
          /\ Begins(t, "validate", d, registry, "return")
          /\ UNCHANGED <<registry, handle>>
       \/ /\ ~Live(registry)
          /\ \E b \in Buses :
                 /\ Unused(b)
                 /\ registry' = b
                 /\ handle' = [handle EXCEPT ![d] = b]
                 /\ Begins(t, "register", d, b, "return")
          /\ UNCHANGED mutex
    /\ UNCHANGED <<bus, loop, booted>>

validateBusMatch(t) ==
    /\ At(t, "validate")
    /\ mutex' = None
    /\ handle' = [handle EXCEPT ![thread[t].drive] = thread[t].bus]
    /\ Goes(t, "register")
    /\ UNCHANGED <<registry, bus, loop, booted>>

\* A mismatch throws.  The local reference goes first, then the mutex: if the
\* reference was the last one, ~Bus runs while the mutex is held.
MismatchThrows(t) ==
    /\ Mismatches /\ At(t, "validate")
    /\ IF Holds(thread[t].bus) = {t}
       THEN Begins(t, "shutdown", None, thread[t].bus, "erase") /\ UNCHANGED mutex
       ELSE Rests(t) /\ mutex' = None
    /\ UNCHANGED <<registry, bus, loop, handle, booted>>

\* Mutant: the first drive to go destroys the bus.
Release_Eager(t, d) ==
    /\ handle' = [handle EXCEPT ![d] = None]
    /\ booted' = booted \ {d}
    /\ Begins(t, "shutdown", None, handle[d], "erase")

\* bus_ of drive `d` is released; the last reference destroys the bus.
Release(t, d) ==
    /\ handle' = [handle EXCEPT ![d] = None]
    /\ booted' = booted \ {d}
    /\ IF Holds(handle[d]) = {d}
       THEN Begins(t, "shutdown", None, handle[d], "erase")
       ELSE Rests(t)

\* Mutant: a drive may join a chain that has started.
registerNode_Late(t) ==
    LET b == thread[t].bus
        d == thread[t].drive
    IN  /\ At(t, "register")
        /\ \/ d \in bus[b].nodes /\ Release(t, d) /\ UNCHANGED bus
           \/ /\ d \notin bus[b].nodes
              /\ bus' = [bus EXCEPT ![b].nodes = IF bus[b].started THEN @ ELSE @ \cup {d}]
              /\ Rests(t) /\ UNCHANGED <<handle, booted>>
        /\ UNCHANGED <<registry, mutex, loop>>

\* Refused once the chain has started, and for a node that was registered
\* before: the constructor throws, and its bus_ is released.
registerNode(t) ==
    LET b == thread[t].bus
        d == thread[t].drive
    IN  /\ At(t, "register")
        /\ \/ /\ bus[b].started \/ d \in bus[b].nodes
              /\ Release(t, d) /\ UNCHANGED bus
           \/ /\ ~bus[b].started /\ d \notin bus[b].nodes
              /\ bus' = [bus EXCEPT ![b].nodes = @ \cup {d}]
              /\ Rests(t) /\ UNCHANGED <<handle, booted>>
        /\ UNCHANGED <<registry, mutex, loop>>
-----------------------------------------------------------------------------
(* Calls on a drive.                                                       *)

\* A drive is called between its constructor and its destructor.
Constructed(d) ==
    /\ handle[d] # None
    /\ \A t \in Threads : thread[t].drive = d =>
           ~At(t, "register") /\ thread[t].then # "release"

\* Bus::start: the first call launches the loop thread and waits for it, every
\* other call returns.
start(t, d) ==
    LET b == handle[d]
    IN  /\ MayCall(t) /\ Constructed(d)
        /\ \/ /\ bus[b].started
              /\ booted' = booted \cup {d}
              /\ UNCHANGED <<bus, loop, thread>>
           \/ /\ ~bus[b].started
              /\ bus' = [bus EXCEPT ![b].started = TRUE, ![b].joinable = TRUE]
              /\ loop' = [loop EXCEPT ![b] = "constructing"]
              /\ Begins(t, "ready", d, b, "return")
              /\ UNCHANGED booted
        /\ UNCHANGED <<registry, mutex, handle>>

StartReturns(t) ==
    LET b == thread[t].bus
    IN  /\ At(t, "ready") /\ loop[b] # "constructing"
        /\ IF loop[b] = "failed"
           THEN bus' = [bus EXCEPT ![b].joinable = FALSE] /\ UNCHANGED booted
           ELSE booted' = booted \cup {thread[t].drive} /\ UNCHANGED bus
        /\ Rests(t)
        /\ UNCHANGED <<registry, mutex, loop, handle>>

\* postToDriver and invokeOnDriver: without an application nothing happens, or
\* the call throws; otherwise the pointer is used in a second step.
Call(t, d) ==
    /\ MayCall(t) /\ Constructed(d) /\ AppVisible(handle[d])
    /\ \E then \in {"return", "await"} : Begins(t, "post", d, handle[d], then)
    /\ UNCHANGED <<registry, mutex, bus, loop, handle, booted>>

Post(t) ==
    /\ At(t, "post") /\ thread[t].then # "release"
    /\ IF thread[t].then = "await" /\ AppExists(thread[t].bus)
       THEN Goes(t, "await") ELSE Rests(t)
    /\ UNCHANGED <<registry, mutex, bus, loop, handle, booted>>

\* The loop runs the call; or the loop is gone and the call with it, and the
\* caller may learn it from a broken promise.
Answered(t) ==
    /\ At(t, "await") /\ (running(thread[t].bus) \/ ~AppExists(thread[t].bus))
    /\ Rests(t)
    /\ UNCHANGED <<registry, mutex, bus, loop, handle, booted>>

\* ~MotorDrive: stop() of this drive, then bus_ is released.
Destroy(t, d) ==
    /\ MayCall(t) /\ Constructed(d)
    /\ \A u \in Threads : thread[u].drive # d
    /\ \/ /\ running(handle[d])
          /\ Begins(t, "post", d, handle[d], "release")
          /\ UNCHANGED <<handle, booted>>
       \/ ~running(handle[d]) /\ Release(t, d)
    /\ UNCHANGED <<registry, mutex, bus, loop>>

PostAndRelease(t) ==
    /\ At(t, "post") /\ thread[t].then = "release"
    /\ Release(t, thread[t].drive)
    /\ UNCHANGED <<registry, mutex, bus, loop>>

\* Of two calls of shutdownBus at once, or one during start(), both would use
\* loop_thread_: the application does not make them.
shutdownBus(t, d) ==
    /\ Tooling /\ MayCall(t) /\ Constructed(d)
    /\ \A u \in Threads : thread[u].bus = handle[d] =>
           thread[u].pc \notin {"ready", "shutdown", "ask", "join"}
    /\ Begins(t, "shutdown", d, handle[d], "return")
    /\ UNCHANGED <<registry, mutex, bus, loop, handle, booted>>

forceStopBus(t, d) ==
    /\ Tooling /\ MayCall(t) /\ Constructed(d) /\ AppVisible(handle[d])
    /\ Begins(t, "force", d, handle[d], "return")
    /\ UNCHANGED <<registry, mutex, bus, loop, handle, booted>>

ForceStops(t) ==
    /\ At(t, "force")
    /\ bus' = [bus EXCEPT ![thread[t].bus].asked = @ \/ AppExists(thread[t].bus)]
    /\ Rests(t)
    /\ UNCHANGED <<registry, mutex, loop, handle, booted>>
-----------------------------------------------------------------------------
(* Bus::shutdown and ~Bus.                                                 *)

ShutdownReturns(t) ==
    IF thread[t].then = "erase" THEN Goes(t, "erase") ELSE Rests(t)

shutdown(t) ==
    LET b == thread[t].bus
    IN  /\ At(t, "shutdown")
        /\ CASE ~bus[b].joinable -> ShutdownReturns(t)
             [] bus[b].joinable /\ AppVisible(b) -> Goes(t, "ask")
             [] OTHER -> Goes(t, "join")
        /\ UNCHANGED <<registry, mutex, bus, loop, handle, booted>>

\* Mutant: the application is expected to go by itself.
Ask_Polls(t) ==
    /\ At(t, "ask") /\ Goes(t, "shutdown")
    /\ UNCHANGED <<registry, mutex, bus, loop, handle, booted>>

Ask(t) ==
    /\ At(t, "ask")
    /\ bus' = [bus EXCEPT ![thread[t].bus].asked = @ \/ AppExists(thread[t].bus)]
    /\ Goes(t, "join")
    /\ UNCHANGED <<registry, mutex, loop, handle, booted>>

Join(t) ==
    /\ At(t, "join") /\ loop[thread[t].bus] \in {"ended", "failed"}
    /\ bus' = [bus EXCEPT ![thread[t].bus].joinable = FALSE]
    /\ ShutdownReturns(t)
    /\ UNCHANGED <<registry, mutex, loop, handle, booted>>

\* Mutant: the entry goes, whichever bus it is of.
Erase_Always(t) ==
    /\ At(t, "erase") /\ mutex = None
    /\ registry' = None
    /\ bus' = [bus EXCEPT ![thread[t].bus] = Fresh]
    /\ loop' = [loop EXCEPT ![thread[t].bus] = "none"]
    /\ Rests(t)
    /\ UNCHANGED <<mutex, handle, booted>>

\* The entry goes if it has expired; the bus is no more.
Erase(t) ==
    /\ At(t, "erase") /\ mutex = None
    /\ registry' = IF Live(registry) THEN registry ELSE None
    /\ bus' = [bus EXCEPT ![thread[t].bus] = Fresh]
    /\ loop' = [loop EXCEPT ![thread[t].bus] = "none"]
    /\ Rests(t)
    /\ UNCHANGED <<mutex, handle, booted>>
-----------------------------------------------------------------------------
(* The loop thread.                                                        *)

LoopGoes(b, from, to) ==
    /\ loop[b] = from
    /\ loop' = [loop EXCEPT ![b] = to]
    /\ UNCHANGED <<registry, mutex, bus, handle, thread, booted>>

LoopStarts(b) ==
    \/ LoopGoes(b, "constructing", "running")
    \/ StartFails /\ LoopGoes(b, "constructing", "failed")
LoopLeaves(b) == bus[b].asked /\ LoopGoes(b, "running", "left")
AppDetached(b) == LoopGoes(b, "left", "detached")
AppDestroyed(b) == LoopGoes(b, "detached", "ended")
-----------------------------------------------------------------------------
Proceeds(t) ==
    \/ validateBusMatch(t) \/ MismatchThrows(t) \/ registerNode(t) \/ StartReturns(t)
    \/ Post(t) \/ Answered(t) \/ PostAndRelease(t) \/ ForceStops(t)
    \/ shutdown(t) \/ Ask(t) \/ Join(t) \/ Erase(t)
Calls(t) == \E d \in Drives :
    \/ getOrCreate(t, d) \/ start(t, d) \/ Call(t, d) \/ Destroy(t, d)
    \/ shutdownBus(t, d) \/ forceStopBus(t, d)
LoopStep(b) ==
    LoopStarts(b) \/ LoopLeaves(b) \/ AppDetached(b) \/ AppDestroyed(b)

Next ==
    \/ \E t \in Threads : Calls(t) \/ Proceeds(t)
    \/ \E b \in Buses : LoopStep(b)

Spec == Init /\ [][Next]_vars

\* Threads run, and the loop, once asked, stops (CanopenApplication's
\* ShutdownEnds).  Nobody has to make a call, and the
\* registry's mutex need not be fair.
Fairness ==
    /\ \A t \in Threads : WF_vars(Proceeds(t))
    /\ \A b \in Buses : WF_vars(LoopStep(b))
FairSpec == Spec /\ Fairness
-----------------------------------------------------------------------------
\* All drives of an interface hold the same bus, the registered one, also
\* while an earlier bus of the interface is still being torn down.
RegistryHoldsLive == \A d \in Drives : handle[d] \in {None, registry}

\* The interface has one master at a time.
OneMaster ==
    \A a, b \in Buses : AppExists(a) /\ AppExists(b) => a = b

\* A drive that exists is a node of its chain: a call on it finds its driver.
NodesKnown ==
    \A d \in Drives : Constructed(d) => d \in bus[handle[d]].nodes

\* A start() that returned has left a chain whose application was constructed.
StartedMeansConstructed ==
    \A d \in booted : loop[handle[d]] \notin {"none", "constructing", "failed"}

\* Nobody is left with a pointer to an application that was destroyed.
AppOutlivesCallers ==
    \A t \in Threads : thread[t].pc \in {"post", "force", "ask"} =>
        AppExists(thread[t].bus)

\* Every start returns, every blocking call is answered, and every shutdown
\* gets its loop thread to join.
Waiting(t) == thread[t].pc \in {"ready", "await", "shutdown", "ask", "join"}
CallsReturn == \A t \in Threads : Waiting(t) ~> ~Waiting(t)
==============================================================================
