------------------------------ MODULE BusProofs ------------------------------
(***************************************************************************)
(* Proofs about Bus, for any number of threads, drives and buses: every    *)
(* drive holds the registered bus and is a node of it, whatever calls      *)
(* overlap; nobody uses an application that is gone, if the bus goes only  *)
(* with its drives; and an interface has one master, if calls do not       *)
(* overlap.                                                                *)
(***************************************************************************)
EXTENDS Bus, TLAPS

(* --------------------- the inductive invariant ------------------------- *)

\* A thread in ~Bus, which is no call on a drive.
Erasing(t) == thread[t].then = "erase"
\* A thread that constructs or destroys its drive is the only one to know it.
Owning(t) == thread[t].pc \in {"validate", "register"} \/ thread[t].then = "release"

\* Where a thread can be, and that a call keeps its drive on its bus.
Attached ==
    \A t \in Threads :
        /\ At(t, "idle") => thread[t].bus = None /\ thread[t].then = "return"
        /\ ~At(t, "idle") => thread[t].bus \in Buses
        /\ thread[t].drive = None <=> At(t, "idle") \/ Erasing(t)
        /\ thread[t].then = "release" => At(t, "post")
        /\ Erasing(t) => thread[t].pc \in {"shutdown", "ask", "join", "erase"}
        /\ At(t, "erase") => Erasing(t)
        /\ thread[t].drive # None /\ ~At(t, "validate") =>
               handle[thread[t].drive] = thread[t].bus
Exclusive ==
    \A t, u \in Threads : Owning(t) /\ u # t => thread[u].drive # thread[t].drive

\* getOrCreate compares the settings of the registered bus, under the mutex, which
\* only it holds, or a ~Bus that it caused.
Locked ==
    /\ \A t \in Threads : At(t, "validate") =>
           mutex = t /\ thread[t].bus = registry /\ handle[thread[t].drive] = None
    /\ \A t \in Threads : mutex = t => At(t, "validate") \/ Erasing(t)

\* Some reference holds bus `b`.
Held(b) ==
    \/ \E d \in Drives : handle[d] = b
    \/ \E t \in Threads : At(t, "validate") /\ thread[t].bus = b
\* ~Bus runs once, without a reference left, and no reference comes again.
Abandoned ==
    \A t \in Threads : Erasing(t) =>
        /\ ~Held(thread[t].bus)
        /\ \A u \in Threads : Erasing(u) /\ u # t => thread[u].bus # thread[t].bus

\* A drive is registered unless its constructor is about to.
Joined ==
    \A d \in Drives : handle[d] # None =>
        \/ d \in bus[handle[d]].nodes
        \/ \E t \in Threads : At(t, "register") /\ thread[t].drive = d

IInv ==
    /\ TypeOK /\ Attached /\ Exclusive /\ Locked /\ Abandoned /\ Joined
    /\ RegistryHoldsLive

\* Without shutdownBus and forceStopBus the loop of a bus is asked to stop by
\* ~Bus alone, after the last call.
Calling == {"post", "ask"}
Asked ==
    /\ \A t \in Threads :
           /\ ~At(t, "force")
           /\ thread[t].pc \in {"shutdown", "ask", "join", "erase"} => Erasing(t)
           /\ At(t, "shutdown") \/ At(t, "ask") => ~bus[thread[t].bus].asked
           /\ thread[t].pc \in Calling =>
                  loop[thread[t].bus] \notin {"none", "constructing", "failed"}
    /\ \A b \in Buses :
           /\ bus[b].asked => ~Held(b)
           /\ loop[b] \in {"left", "detached", "ended"} => bus[b].asked
           /\ ~bus[b].started => loop[b] = "none"

\* If calls do not overlap, the loop that runs is the registered bus's, or that
\* of the one thread's that destroys it.
Alone == \A t, u \in Threads : ~At(t, "idle") /\ ~At(u, "idle") => t = u
Owned ==
    \A b \in Buses : loop[b] # "none" =>
        /\ b = registry
        /\ Held(b) \/ \E t \in Threads : Erasing(t) /\ thread[t].bus = b
-----------------------------------------------------------------------------
USE DEF At

LEMMA HeldLive == \A b : Live(b) <=> b \in Buses /\ Held(b)
BY DEF Live, Holds, Held

\* The last of the references, of a drive and of a thread.
LEMMA LastDrive ==
    ASSUME NEW d \in Drives, NEW b \in Buses, handle[d] = b
    PROVE  /\ Holds(b) = {d} =>
                  /\ \A e \in Drives : handle[e] = b => e = d
                  /\ \A u \in Threads : ~(At(u, "validate") /\ thread[u].bus = b)
           /\ Holds(b) # {d} =>
                  \/ \E e \in Drives : handle[e] = b /\ e # d
                  \/ \E u \in Threads : At(u, "validate") /\ thread[u].bus = b
BY BusAssumption DEF Holds

LEMMA LastThread ==
    ASSUME NEW t \in Threads, NEW b \in Buses, At(t, "validate"), thread[t].bus = b
    PROVE  /\ Holds(b) = {t} =>
                  /\ \A e \in Drives : handle[e] # b
                  /\ \A u \in Threads : At(u, "validate") /\ thread[u].bus = b => u = t
           /\ Holds(b) # {t} =>
                  \/ \E e \in Drives : handle[e] = b
                  \/ \E u \in Threads : u # t /\ At(u, "validate") /\ thread[u].bus = b
BY BusAssumption DEF Holds

\* What a thread is doing after each of its moves.
LEMMA Moves ==
    ASSUME TypeOK, NEW t \in Threads
    PROVE  /\ \A pc \in ThreadPC : Goes(t, pc) =>
                  /\ thread' \in [Threads -> Thread]
                  /\ \A u \in Threads \ {t} : thread'[u] = thread[u]
                  /\ thread'[t].pc = pc /\ thread'[t].drive = thread[t].drive
                  /\ thread'[t].bus = thread[t].bus /\ thread'[t].then = thread[t].then
           /\ Rests(t) =>
                  /\ thread' \in [Threads -> Thread]
                  /\ \A u \in Threads \ {t} : thread'[u] = thread[u]
                  /\ thread'[t].pc = "idle" /\ thread'[t].drive = None
                  /\ thread'[t].bus = None /\ thread'[t].then = "return"
           /\ \A pc \in ThreadPC, d \in Drives \cup {None}, b \in Buses \cup {None},
                 then \in {"return", "await", "release", "erase"} : Begins(t, pc, d, b, then) =>
                  /\ thread' \in [Threads -> Thread]
                  /\ \A u \in Threads \ {t} : thread'[u] = thread[u]
                  /\ thread'[t].pc = pc /\ thread'[t].drive = d
                  /\ thread'[t].bus = b /\ thread'[t].then = then
<1>1. thread \in [Threads -> Thread]
  BY DEF TypeOK
<1>2. ASSUME NEW pc \in ThreadPC, Goes(t, pc)
      PROVE  /\ thread' \in [Threads -> Thread]
             /\ \A u \in Threads \ {t} : thread'[u] = thread[u]
             /\ thread'[t].pc = pc /\ thread'[t].drive = thread[t].drive
             /\ thread'[t].bus = thread[t].bus /\ thread'[t].then = thread[t].then
  BY <1>1, <1>2 DEF Goes, Thread
<1>3. ASSUME NEW r \in Thread, thread' = [thread EXCEPT ![t] = r]
      PROVE  /\ thread' \in [Threads -> Thread] /\ thread'[t] = r
             /\ \A u \in Threads \ {t} : thread'[u] = thread[u]
  BY <1>1, <1>3
<1>4. Resting \in Thread
  BY DEF Resting, Thread, ThreadPC
<1>5. ASSUME Rests(t)
      PROVE  /\ thread' \in [Threads -> Thread]
             /\ \A u \in Threads \ {t} : thread'[u] = thread[u]
             /\ thread'[t].pc = "idle" /\ thread'[t].drive = None
             /\ thread'[t].bus = None /\ thread'[t].then = "return"
  BY <1>3, <1>4, <1>5 DEF Rests, Resting
<1>6. ASSUME NEW pc \in ThreadPC, NEW d \in Drives \cup {None}, NEW b \in Buses \cup {None},
             NEW then \in {"return", "await", "release", "erase"}, Begins(t, pc, d, b, then)
      PROVE  /\ thread' \in [Threads -> Thread]
             /\ \A u \in Threads \ {t} : thread'[u] = thread[u]
             /\ thread'[t].pc = pc /\ thread'[t].drive = d
             /\ thread'[t].bus = b /\ thread'[t].then = then
  <2> DEFINE r == [pc |-> pc, drive |-> d, bus |-> b, then |-> then]
  <2>1. r \in Thread
    BY DEF Thread
  <2>2. r.pc = pc /\ r.drive = d /\ r.bus = b /\ r.then = then
    OBVIOUS
  <2>3. thread' = [thread EXCEPT ![t] = r]
    BY <1>6 DEF Begins
  <2> HIDE DEF r
  <2>4. QED
    BY <1>3, <2>1, <2>2, <2>3
<1>7. QED
  BY <1>2, <1>5, <1>6

\* A step of a thread that neither takes nor releases a reference.
LEMMA QuietStep ==
    ASSUME IInv, TypeOK', NEW t \in Threads, \A u \in Threads \ {t} : thread'[u] = thread[u],
           UNCHANGED <<registry, mutex, handle>>,
           \A b \in Buses : bus'[b].nodes = bus[b].nodes,
           thread[t].pc \notin {"validate", "register"},
           thread'[t].pc \notin {"validate", "register"},
           At(t, "idle")' => thread'[t].bus = None /\ thread'[t].then = "return",
           ~At(t, "idle")' => thread'[t].bus \in Buses,
           thread'[t].drive = None <=> At(t, "idle")' \/ Erasing(t)',
           thread'[t].then = "release" =>
               At(t, "post")' /\ \A u \in Threads \ {t} : thread[u].drive # thread'[t].drive,
           Erasing(t) => Erasing(t)', At(t, "erase")' => Erasing(t)',
           Erasing(t)' =>
               /\ thread'[t].pc \in {"shutdown", "ask", "join", "erase"}
               /\ Erasing(t) /\ thread'[t].bus = thread[t].bus,
           thread'[t].drive # None =>
               /\ handle[thread'[t].drive] = thread'[t].bus
               /\ thread[t].drive = thread'[t].drive
                  \/ \A u \in Threads \ {t} : Owning(u) => thread[u].drive # thread'[t].drive
    PROVE  IInv'
<1> USE DEF IInv
<1>1. Attached'
  BY DEF Attached, Erasing
<1>2. Exclusive'
  BY DEF Exclusive, Owning, Attached, Erasing
<1>3. Locked'
  BY DEF Locked, Erasing
<1>4. Abandoned'
  BY DEF Abandoned, Erasing, Held
<1>5. Joined'
  BY DEF Joined, TypeOK
<1>6. RegistryHoldsLive'
  BY DEF RegistryHoldsLive
<1>7. QED
  BY <1>1, <1>2, <1>3, <1>4, <1>5, <1>6

\* A step that releases the reference of drive `d`, by the only thread to know it.
LEMMA ReleaseStep ==
    ASSUME IInv, NEW t \in Threads, NEW d \in Drives, handle[d] # None, Release(t, d),
           \A u \in Threads \ {t} : thread[u].drive # d,
           thread[t].drive \in {None, d}, ~At(t, "validate"), ~Erasing(t),
           UNCHANGED <<registry, mutex, bus, loop>>
    PROVE  IInv'
<1>0. PICK b \in Buses : b = handle[d]
  BY DEF IInv, TypeOK
<1>1. /\ TypeOK /\ Attached /\ Exclusive /\ Locked /\ Abandoned /\ Joined
      /\ RegistryHoldsLive /\ b \in Buses /\ handle[d] = b /\ mutex # t
  BY <1>0 DEF IInv, TypeOK, Locked
<1>2. /\ handle' \in [Drives -> Buses \cup {None}] /\ handle'[d] = None
      /\ \A e \in Drives \ {d} : handle'[e] = handle[e]
      /\ booted' = booted \ {d}
  BY <1>1 DEF Release, TypeOK
<1>3. /\ thread' \in [Threads -> Thread]
      /\ \A u \in Threads \ {t} : thread'[u] = thread[u]
      /\ \/ /\ At(t, "shutdown")' /\ thread'[t].drive = None /\ thread'[t].bus = b
            /\ Erasing(t)' /\ Holds(b) = {d}
         \/ /\ At(t, "idle")' /\ thread'[t].drive = None /\ thread'[t].bus = None
            /\ thread'[t].then = "return"
  <2>1. CASE Holds(b) = {d}
    <3>1. Begins(t, "shutdown", None, b, "erase")
      BY <1>0, <2>1 DEF Release
    <3>2. QED
      BY <1>1, <2>1, <3>1, Moves DEF ThreadPC, Erasing
  <2>2. CASE Holds(b) # {d}
    BY <1>1, <2>2, Moves DEF Release
  <2>3. QED
    BY <2>1, <2>2
<1>4. TypeOK'
  BY <1>1, <1>2, <1>3 DEF TypeOK
<1>5. Attached'
  BY <1>1, <1>2, <1>3, BusAssumption DEF Attached, Erasing, TypeOK, Thread
<1>6. Exclusive'
  BY <1>1, <1>3 DEF Exclusive, Owning, Attached, Erasing
<1>7. Locked'
  <2>1. \A u \in Threads : At(u, "validate") => u # t /\ thread[u].drive \in Drives \ {d}
    BY <1>1 DEF Attached, TypeOK, Thread, Erasing
  <2>2. QED
    BY <1>1, <1>2, <1>3, <2>1 DEF Locked, Erasing
<1>8. Abandoned'
  <2>1. \A c \in Buses : Held(c)' => Held(c)
    BY <1>2, <1>3, BusAssumption DEF Held
  <2>2. Held(b)
    BY <1>0 DEF Held
  <2>3. ASSUME Holds(b) = {d} PROVE ~Held(b)'
    <3>1. /\ \A e \in Drives : handle[e] = b => e = d
          /\ \A u \in Threads : ~(At(u, "validate") /\ thread[u].bus = b)
      BY <1>1, <2>3, LastDrive
    <3>2. \A e \in Drives : handle'[e] # b
      BY <1>1, <1>2, <3>1, BusAssumption
    <3>3. \A u \in Threads : ~(At(u, "validate")' /\ thread'[u].bus = b)
      BY <1>3, <3>1
    <3>4. QED
      BY <3>2, <3>3 DEF Held
  <2>4. \A u \in Threads : Erasing(u) => thread[u].bus \in Buses
    BY <1>1 DEF Attached, Erasing
  <2>5. \A u \in Threads \ {t} : Erasing(u)' =>
            Erasing(u) /\ thread'[u].bus = thread[u].bus
    BY <1>3 DEF Erasing
  <2>6. Erasing(t)' => thread'[t].bus = b /\ Holds(b) = {d}
    BY <1>3 DEF Erasing
  <2>7. QED
    BY <1>1, <2>1, <2>2, <2>3, <2>4, <2>5, <2>6 DEF Abandoned
<1>9. Joined'
  <2>1. ASSUME NEW e \in Drives, handle'[e] # None
        PROVE  \/ e \in bus'[handle'[e]].nodes
               \/ \E u \in Threads : At(u, "register")' /\ thread'[u].drive = e
    <3>1. e # d /\ handle'[e] = handle[e]
      BY <1>2, <2>1
    <3>2. \A u \in Threads : thread[u].drive = e => u # t
      BY <3>1, BusAssumption
    <3>3. QED
      BY <1>1, <1>3, <2>1, <3>1, <3>2 DEF Joined
  <2>2. QED
    BY <2>1 DEF Joined
<1>10. RegistryHoldsLive'
  BY <1>1, <1>2 DEF RegistryHoldsLive
<1>11. QED
  BY <1>1, <1>4, <1>5, <1>6, <1>7, <1>8, <1>9, <1>10 DEF IInv
-----------------------------------------------------------------------------
(* The constructor. *)

LEMMA CreateInv == ASSUME IInv, NEW t \in Threads, NEW d \in Drives, getOrCreate(t, d) PROVE IInv'
<1>1. /\ TypeOK /\ Attached /\ Exclusive /\ Locked /\ Abandoned /\ Joined
      /\ RegistryHoldsLive
      /\ At(t, "idle") /\ handle[d] = None /\ mutex = None /\ UNCHANGED <<bus, loop, booted>>
      /\ \A u \in Threads : thread[u].drive # d /\ ~At(u, "validate")
      /\ d # None
  BY BusAssumption DEF IInv, getOrCreate, MayCall, Locked
<1>2. CASE /\ Live(registry) /\ mutex' = t /\ UNCHANGED <<registry, handle>>
           /\ Begins(t, "validate", d, registry, "return")
  <2>1. registry \in Buses /\ Held(registry)
    BY <1>2, HeldLive
  <2>2. /\ thread' \in [Threads -> Thread]
        /\ \A u \in Threads \ {t} : thread'[u] = thread[u]
        /\ At(t, "validate")' /\ thread'[t].drive = d /\ thread'[t].bus = registry
        /\ thread'[t].then = "return"
    BY <1>1, <1>2, <2>1, Moves DEF ThreadPC
  <2>3. TypeOK'
    BY <1>1, <1>2, <2>2 DEF TypeOK
  <2>4. Attached' /\ Exclusive'
    BY <1>1, <1>2, <2>1, <2>2 DEF Attached, Exclusive, Owning, Erasing
  <2>5. Locked'
    BY <1>1, <1>2, <2>2 DEF Locked
  <2>6. Abandoned'
    BY <1>1, <1>2, <2>1, <2>2 DEF Abandoned, Erasing, Held
  <2>7. Joined' /\ RegistryHoldsLive'
    BY <1>1, <1>2, <2>2 DEF Joined, RegistryHoldsLive
  <2>8. QED
    BY <2>3, <2>4, <2>5, <2>6, <2>7 DEF IInv
<1>3. ASSUME ~Live(registry), UNCHANGED mutex, NEW b \in Buses, Unused(b), registry' = b,
             handle' = [handle EXCEPT ![d] = b], Begins(t, "register", d, b, "return")
      PROVE  IInv'
  <2>1. \A e \in Drives : handle[e] = None
    BY <1>1, <1>3, HeldLive DEF RegistryHoldsLive, Held, TypeOK
  <2>2. /\ thread' \in [Threads -> Thread]
        /\ \A u \in Threads \ {t} : thread'[u] = thread[u]
        /\ At(t, "register")' /\ thread'[t].drive = d /\ thread'[t].bus = b
        /\ thread'[t].then = "return"
    BY <1>1, <1>3, Moves DEF ThreadPC
  <2>3. /\ handle' \in [Drives -> Buses \cup {None}] /\ handle'[d] = b
        /\ \A e \in Drives \ {d} : handle'[e] = None
    BY <1>1, <1>3, <2>1 DEF TypeOK
  <2>4. TypeOK'
    BY <1>1, <1>3, <2>2, <2>3 DEF TypeOK
  <2>5. Attached' /\ Exclusive'
    BY <1>1, <2>1, <2>2, <2>3 DEF Attached, Exclusive, Owning, Erasing, TypeOK, Thread
  <2>6. Locked'
    BY <1>1, <1>3, <2>2, BusAssumption DEF Locked
  <2>7. Abandoned'
    BY <1>1, <1>3, <2>2, <2>3, BusAssumption DEF Abandoned, Erasing, Held, Unused, Attached
  <2>8. Joined' /\ RegistryHoldsLive'
    BY <1>3, <2>2, <2>3 DEF Joined, RegistryHoldsLive
  <2>9. QED
    BY <2>4, <2>5, <2>6, <2>7, <2>8 DEF IInv
<1>4. QED
  BY <1>2, <1>3 DEF getOrCreate

LEMMA ValidateInv == ASSUME IInv, NEW t \in Threads, validateBusMatch(t) PROVE IInv'
<1> DEFINE b == thread[t].bus
           d == thread[t].drive
<1>1. /\ TypeOK /\ Attached /\ Exclusive /\ Locked /\ Abandoned /\ Joined
      /\ RegistryHoldsLive
      /\ At(t, "validate") /\ mutex' = None /\ UNCHANGED <<registry, bus, loop, booted>>
      /\ handle' = [handle EXCEPT ![d] = b] /\ Goes(t, "register")
  BY DEF IInv, validateBusMatch
<1>2. /\ b \in Buses /\ d \in Drives /\ d # None /\ b = registry /\ mutex = t /\ handle[d] = None
      /\ thread[t].then # "erase" /\ thread[t].then # "release"
  BY <1>1 DEF Attached, Locked, TypeOK, Thread, Erasing
<1>3. \A u \in Threads : (At(u, "validate") => u = t) /\ (u # t => thread[u].drive # d)
  BY <1>1, <1>2 DEF Locked, Exclusive, Owning
<1>4. /\ thread' \in [Threads -> Thread]
      /\ \A u \in Threads \ {t} : thread'[u] = thread[u]
      /\ At(t, "register")' /\ thread'[t].drive = d /\ thread'[t].bus = b
      /\ thread'[t].then = thread[t].then
  BY <1>1, Moves DEF ThreadPC
<1>5. Held(b)
  BY <1>1 DEF Held
<1> HIDE DEF b, d
<1>6. /\ handle' \in [Drives -> Buses \cup {None}] /\ handle'[d] = b
      /\ \A e \in Drives \ {d} : handle'[e] = handle[e]
  BY <1>1, <1>2 DEF TypeOK
<1>7. TypeOK'
  BY <1>1, <1>4, <1>6 DEF TypeOK
<1>8. Attached' /\ Exclusive'
  BY <1>1, <1>2, <1>3, <1>4, <1>6 DEF Attached, Exclusive, Owning, Erasing, TypeOK, Thread
<1>9. Locked'
  BY <1>1, <1>3, <1>4, BusAssumption DEF Locked
<1>10. Abandoned'
  BY <1>1, <1>2, <1>4, <1>5, <1>6 DEF Abandoned, Erasing, Held
<1>11. Joined' /\ RegistryHoldsLive'
  BY <1>1, <1>2, <1>4, <1>6 DEF Joined, RegistryHoldsLive
<1>12. QED
  BY <1>7, <1>8, <1>9, <1>10, <1>11 DEF IInv

LEMMA MismatchInv == ASSUME IInv, NEW t \in Threads, MismatchThrows(t) PROVE IInv'
<1>0. PICK b \in Buses : b = thread[t].bus
  BY DEF IInv, Attached, MismatchThrows
<1>1. /\ TypeOK /\ Attached /\ Exclusive /\ Locked /\ Abandoned /\ Joined
      /\ RegistryHoldsLive
      /\ At(t, "validate") /\ UNCHANGED <<registry, bus, loop, handle, booted>>
  BY DEF IInv, MismatchThrows
<1>2. /\ b = thread[t].bus /\ mutex = t /\ \A u \in Threads : At(u, "validate") => u = t
  BY <1>0, <1>1 DEF Locked
<1>3. /\ thread' \in [Threads -> Thread]
      /\ \A u \in Threads \ {t} : thread'[u] = thread[u]
      /\ \/ /\ At(t, "shutdown")' /\ thread'[t].drive = None /\ thread'[t].bus = b
            /\ Erasing(t)' /\ Holds(b) = {t} /\ mutex' = mutex
         \/ /\ At(t, "idle")' /\ thread'[t].drive = None /\ thread'[t].bus = None
            /\ thread'[t].then = "return" /\ mutex' = None
  <2>1. CASE Holds(b) = {t}
    <3>1. Begins(t, "shutdown", None, b, "erase") /\ UNCHANGED mutex
      BY <1>0, <2>1 DEF MismatchThrows
    <3>2. QED
      BY <1>1, <1>2, <2>1, <3>1, Moves DEF ThreadPC, Erasing
  <2>2. CASE Holds(b) # {t}
    BY <1>0, <1>1, <2>2, Moves DEF MismatchThrows
  <2>3. QED
    BY <2>1, <2>2
<1>4. TypeOK'
  BY <1>1, <1>2, <1>3 DEF TypeOK
<1>5. Attached' /\ Exclusive'
  BY <1>1, <1>2, <1>3 DEF Attached, Exclusive, Owning, Erasing
<1>6. Locked'
  BY <1>1, <1>2, <1>3, BusAssumption DEF Locked, Erasing
<1>7. Abandoned'
  <2>1. \A c \in Buses : Held(c)' => Held(c)
    BY <1>1, <1>3 DEF Held
  <2>2. Held(b)
    BY <1>0, <1>1 DEF Held
  <2>3. ASSUME Holds(b) = {t} PROVE ~Held(b)'
    <3>1. \A e \in Drives : handle[e] # b
      BY <1>1, <1>2, <2>3, LastThread
    <3>2. \A u \in Threads : ~At(u, "validate")'
      BY <1>2, <1>3
    <3>3. QED
      BY <1>1, <3>1, <3>2 DEF Held
  <2>4. \A u \in Threads : Erasing(u) => thread[u].bus \in Buses
    BY <1>1 DEF Attached, Erasing
  <2>5. \A u \in Threads \ {t} : Erasing(u)' =>
            Erasing(u) /\ thread'[u].bus = thread[u].bus
    BY <1>3 DEF Erasing
  <2>6. Erasing(t)' => thread'[t].bus = b /\ Holds(b) = {t}
    BY <1>3 DEF Erasing
  <2>7. QED
    BY <1>1, <2>1, <2>2, <2>3, <2>4, <2>5, <2>6 DEF Abandoned
<1>8. Joined' /\ RegistryHoldsLive'
  BY <1>1, <1>3 DEF Joined, RegistryHoldsLive
<1>9. QED
  BY <1>4, <1>5, <1>6, <1>7, <1>8 DEF IInv

LEMMA RegisterInv == ASSUME IInv, NEW t \in Threads, registerNode(t) PROVE IInv'
<1> DEFINE b == thread[t].bus
           d == thread[t].drive
<1>1. /\ TypeOK /\ Attached /\ Exclusive /\ Locked /\ Abandoned /\ Joined
      /\ RegistryHoldsLive
      /\ At(t, "register") /\ UNCHANGED <<registry, mutex, loop>>
  BY DEF IInv, registerNode
<1>2. /\ b \in Buses /\ d \in Drives /\ d # None /\ handle[d] = b /\ ~Erasing(t) /\ b # None
      /\ \A u \in Threads \ {t} : thread[u].drive # d
  BY <1>1, BusAssumption DEF Attached, Exclusive, Owning, TypeOK, Thread, Erasing
<1>3. CASE Release(t, d) /\ UNCHANGED bus
  BY <1>1, <1>2, <1>3, ReleaseStep
<1>4. CASE /\ bus' = [bus EXCEPT ![b].nodes = @ \cup {d}]
           /\ Rests(t) /\ UNCHANGED <<handle, booted>>
  <2>1. /\ thread' \in [Threads -> Thread]
        /\ \A u \in Threads \ {t} : thread'[u] = thread[u]
        /\ At(t, "idle")' /\ thread'[t].drive = None /\ thread'[t].bus = None
        /\ thread'[t].then = "return"
    BY <1>1, <1>4, Moves
  <2>2. /\ bus' \in [Buses -> Object] /\ bus'[b].nodes = bus[b].nodes \cup {d}
        /\ \A c \in Buses \ {b} : bus'[c] = bus[c]
    BY <1>1, <1>2, <1>4 DEF TypeOK, Object
  <2>3. mutex # t
    BY <1>1, <1>2 DEF Locked
  <2>4. TypeOK'
    BY <1>1, <1>4, <2>1, <2>2, <2>3 DEF TypeOK
  <2>5. Attached' /\ Exclusive'
    BY <1>1, <1>4, <2>1 DEF Attached, Exclusive, Owning, Erasing
  <2>6. Locked' /\ RegistryHoldsLive'
    BY <1>1, <1>4, <2>1, <2>3 DEF Locked, Erasing, RegistryHoldsLive
  <2>7. Abandoned'
    BY <1>1, <1>4, <2>1 DEF Abandoned, Erasing, Held
  <2>8. Joined'
    <3>1. \A c \in Buses : bus[c].nodes \subseteq bus'[c].nodes
      BY <2>2
    <3>2. d \in bus'[handle'[d]].nodes
      BY <1>2, <1>4, <2>2
    <3> HIDE DEF b, d
    <3>3. QED
      <4>1. ASSUME NEW e \in Drives, handle'[e] # None
            PROVE  \/ e \in bus'[handle'[e]].nodes
                   \/ \E u \in Threads : At(u, "register")' /\ thread'[u].drive = e
        <5>1. handle'[e] = handle[e] /\ handle[e] \in Buses
          BY <1>1, <1>4, <4>1 DEF TypeOK
        <5>2. CASE e = d
          BY <3>2, <5>2
        <5>3. CASE e # d
          BY <1>1, <1>2, <2>1, <3>1, <4>1, <5>1, <5>3 DEF Joined, d
        <5>4. QED
          BY <5>2, <5>3
      <4>2. QED
        BY <4>1 DEF Joined
  <2>9. QED
    BY <2>4, <2>5, <2>6, <2>7, <2>8 DEF IInv
<1>5. QED
  BY <1>3, <1>4 DEF registerNode
-----------------------------------------------------------------------------
(* Calls and what follows them. *)

\* A call on drive `d` by a thread that did nothing: no other thread owns it.
LEMMA CallStep ==
    ASSUME IInv, NEW t \in Threads, NEW d \in Drives, At(t, "idle"), handle[d] # None,
           NEW pc \in {"ready", "post", "shutdown", "force"},
           NEW then \in {"return", "await", "release"},
           Begins(t, pc, d, handle[d], then),
           \A u \in Threads : thread[u].drive = d =>
               ~At(u, "register") /\ thread[u].then # "release",
           then = "release" => pc = "post" /\ \A u \in Threads : thread[u].drive # d,
           UNCHANGED <<registry, mutex, handle>>, bus' \in [Buses -> Object],
           \A b \in Buses : bus'[b].nodes = bus[b].nodes,
           loop' \in [Buses -> LoopPC], booted' \in SUBSET Drives
    PROVE  IInv'
<1>1. TypeOK /\ Attached /\ Locked /\ handle[d] \in Buses /\ mutex # t /\ d # None
  BY BusAssumption DEF IInv, TypeOK, Locked, Attached, Erasing
<1>2. /\ thread' \in [Threads -> Thread]
      /\ \A u \in Threads \ {t} : thread'[u] = thread[u]
      /\ thread'[t].pc = pc /\ thread'[t].drive = d
      /\ thread'[t].bus = handle[d] /\ thread'[t].then = then
  BY <1>1, Moves DEF ThreadPC
<1>3. TypeOK'
  BY <1>1, <1>2 DEF TypeOK
<1>4. \A u \in Threads \ {t} : Owning(u) => thread[u].drive # d
  BY <1>1 DEF Owning, Locked
<1>5. ~Erasing(t) /\ ~Erasing(t)' /\ ~At(t, "idle")'
  BY <1>1, <1>2 DEF Attached, Erasing
<1>6. thread[t].pc \notin {"validate", "register"} /\ thread'[t].pc \notin {"validate", "register"}
  BY <1>2
<1>7. ~At(t, "erase")'
  BY <1>2
<1>8. QED
  BY <1>1, <1>2, <1>3, <1>4, <1>5, <1>6, <1>7, QuietStep

\* The end of a call, or a step of it to another place.
LEMMA ReturnStep ==
    ASSUME IInv, NEW t \in Threads,
           \/ Rests(t) /\ ~Erasing(t)
           \/ \E pc \in {"await", "ask", "join", "erase"} :
                  /\ Goes(t, pc)
                  /\ thread[t].then = "release" => FALSE
                  /\ pc = "await" => ~Erasing(t)
                  /\ pc = "erase" => Erasing(t),
           ~At(t, "idle"), thread[t].pc \notin {"validate", "register"},
           UNCHANGED <<registry, mutex, handle>>, bus' \in [Buses -> Object],
           \A b \in Buses : bus'[b].nodes = bus[b].nodes,
           loop' \in [Buses -> LoopPC], booted' \in SUBSET Drives
    PROVE  IInv'
<1>1. TypeOK /\ Attached /\ Locked
  BY DEF IInv
<1>2. CASE Rests(t) /\ ~Erasing(t)
  <2>1. /\ thread' \in [Threads -> Thread]
        /\ \A u \in Threads \ {t} : thread'[u] = thread[u]
        /\ At(t, "idle")' /\ thread'[t].drive = None
        /\ thread'[t].bus = None /\ thread'[t].then = "return"
    BY <1>1, <1>2, Moves
  <2>2. mutex # t
    BY <1>1, <1>2 DEF Locked
  <2>3. TypeOK'
    BY <1>1, <2>1, <2>2 DEF TypeOK
  <2>4. QED
    BY <1>2, <2>1, <2>3, QuietStep DEF Erasing
<1>3. ASSUME NEW pc \in {"await", "ask", "join", "erase"}, Goes(t, pc),
             thread[t].then # "release", pc = "await" => ~Erasing(t), pc = "erase" => Erasing(t)
      PROVE  IInv'
  <2>1. /\ thread' \in [Threads -> Thread]
        /\ \A u \in Threads \ {t} : thread'[u] = thread[u]
        /\ thread'[t].pc = pc /\ thread'[t].drive = thread[t].drive
        /\ thread'[t].bus = thread[t].bus /\ thread'[t].then = thread[t].then
    BY <1>1, <1>3, Moves DEF ThreadPC
  <2>2. TypeOK'
    BY <1>1, <2>1 DEF TypeOK
  <2>3. /\ thread[t].drive # None => handle[thread[t].drive] = thread[t].bus
        /\ thread[t].drive = None <=> Erasing(t)
        /\ thread[t].bus \in Buses
    BY <1>1 DEF Attached
  <2>4. Erasing(t)' <=> Erasing(t)
    BY <2>1 DEF Erasing
  <2>5. /\ ~At(t, "idle")' /\ thread'[t].pc \notin {"validate", "register"}
        /\ At(t, "erase")' => Erasing(t)
    BY <1>3, <2>1
  <2>6. QED
    BY <1>3, <2>1, <2>2, <2>3, <2>4, <2>5, QuietStep
<1>4. QED
  BY <1>2, <1>3

LEMMA CallsInv ==
    ASSUME IInv, NEW t \in Threads, NEW d \in Drives,
           start(t, d) \/ Call(t, d) \/ shutdownBus(t, d) \/ forceStopBus(t, d) \/ Destroy(t, d)
    PROVE  IInv'
<1>1. /\ TypeOK /\ Attached /\ At(t, "idle") /\ handle[d] \in Buses /\ handle[d] # None
      /\ \A u \in Threads : thread[u].drive = d => ~At(u, "register") /\ thread[u].then # "release"
      /\ UNCHANGED <<registry, mutex>>
      /\ d # None
  BY BusAssumption DEF IInv, TypeOK, start, Call, shutdownBus, forceStopBus, Destroy,
     MayCall, Constructed
<1>2. CASE start(t, d)
  <2>1. CASE bus[handle[d]].started
    <3>1. booted' \in SUBSET Drives /\ UNCHANGED <<registry, mutex, bus, loop, handle, thread>>
      BY <1>1, <1>2, <2>1 DEF start, TypeOK
    <3>2. TypeOK'
      BY <1>1, <3>1 DEF TypeOK
    <3>3. QED
      BY <3>1, <3>2 DEF IInv, Attached, Exclusive, Locked, Abandoned, Joined, RegistryHoldsLive,
         Erasing, Owning, Held
  <2>2. CASE ~bus[handle[d]].started
    <3> DEFINE b == handle[d]
    <3>1. /\ bus' = [bus EXCEPT ![b].started = TRUE, ![b].joinable = TRUE]
          /\ loop' = [loop EXCEPT ![b] = "constructing"]
          /\ Begins(t, "ready", d, b, "return") /\ UNCHANGED <<booted, handle>>
      BY <1>2, <2>2 DEF start
    <3>2. /\ bus' \in [Buses -> Object] /\ \A c \in Buses : bus'[c].nodes = bus[c].nodes
          /\ loop' \in [Buses -> LoopPC] /\ booted' \in SUBSET Drives
      <4> DEFINE o == [bus[b] EXCEPT !.started = TRUE, !.joinable = TRUE]
      <4>1. bus' = [bus EXCEPT ![b] = o] /\ b \in Buses
        BY <1>1, <3>1 DEF TypeOK
      <4>2. o \in Object /\ o.nodes = bus[b].nodes
        BY <1>1 DEF TypeOK, Object
      <4> HIDE DEF o, b
      <4>3. bus' \in [Buses -> Object] /\ \A c \in Buses : bus'[c].nodes = bus[c].nodes
        BY <1>1, <4>1, <4>2 DEF TypeOK
      <4>4. loop' \in [Buses -> LoopPC]
        BY <1>1, <3>1, <4>1 DEF TypeOK, LoopPC
      <4>5. QED
        BY <1>1, <3>1, <4>3, <4>4 DEF TypeOK
    <3>3. QED
      BY ZenonT(60), <1>1, <3>1, <3>2, CallStep
  <2>3. QED
    BY <2>1, <2>2
<1>3. CASE Call(t, d)
  <2>1. PICK then \in {"return", "await"} : Begins(t, "post", d, handle[d], then)
    BY <1>3 DEF Call
  <2>2. QED
    BY <1>1, <1>3, <2>1, CallStep DEF Call, TypeOK
<1>4. CASE shutdownBus(t, d)
  BY <1>1, <1>4, CallStep DEF shutdownBus, TypeOK
<1>5. CASE forceStopBus(t, d)
  BY <1>1, <1>5, CallStep DEF forceStopBus, TypeOK
<1>6. CASE Destroy(t, d)
  <2>1. UNCHANGED <<bus, loop>> /\ \A u \in Threads : thread[u].drive # d
    BY <1>6 DEF Destroy
  <2>2. CASE Begins(t, "post", d, handle[d], "release") /\ UNCHANGED <<handle, booted>>
    BY <1>1, <2>1, <2>2, CallStep DEF TypeOK
  <2>3. CASE Release(t, d)
    BY <1>1, <2>1, <2>3, ReleaseStep DEF Attached, Erasing
  <2>4. QED
    BY <1>6, <2>2, <2>3 DEF Destroy
<1>7. QED
  BY <1>2, <1>3, <1>4, <1>5, <1>6

LEMMA StepsInv ==
    ASSUME IInv, NEW t \in Threads,
           \/ StartReturns(t) \/ Post(t) \/ Answered(t) \/ ForceStops(t) \/ shutdown(t)
           \/ Ask(t) \/ Join(t)
    PROVE  IInv'
<1>1. /\ TypeOK /\ Attached /\ ~At(t, "idle") /\ thread[t].pc \notin {"validate", "register"}
      /\ thread[t].bus \in Buses /\ UNCHANGED <<registry, mutex, handle>>
      /\ thread[t].then = "release" => At(t, "post")
      /\ Erasing(t) => thread[t].pc \in {"shutdown", "ask", "join", "erase"}
  BY DEF IInv, StartReturns, Post, Answered, ForceStops, shutdown, Ask, Join, Attached
<1>2. /\ bus' \in [Buses -> Object] /\ \A b \in Buses : bus'[b].nodes = bus[b].nodes
      /\ loop' \in [Buses -> LoopPC] /\ booted' \in SUBSET Drives
  <2>1. \/ UNCHANGED bus \/ bus' = [bus EXCEPT ![thread[t].bus].joinable = FALSE]
        \/ bus' = [bus EXCEPT ![thread[t].bus].asked = @ \/ AppExists(thread[t].bus)]
    BY DEF StartReturns, Post, Answered, ForceStops, shutdown, Ask, Join
  <2>2. ASSUME NEW v \in BOOLEAN, bus' = [bus EXCEPT ![thread[t].bus].asked = v]
        PROVE  bus' \in [Buses -> Object] /\ \A b \in Buses : bus'[b].nodes = bus[b].nodes
    <3> DEFINE o == [bus[thread[t].bus] EXCEPT !.asked = v]
    <3>1. bus' = [bus EXCEPT ![thread[t].bus] = o]
      BY <1>1, <2>2 DEF TypeOK
    <3>2. o \in Object /\ o.nodes = bus[thread[t].bus].nodes
      BY <1>1 DEF TypeOK, Object
    <3> HIDE DEF o
    <3>3. QED
      BY <1>1, <3>1, <3>2 DEF TypeOK
  <2>3. bus' \in [Buses -> Object] /\ \A b \in Buses : bus'[b].nodes = bus[b].nodes
    <3> DEFINE v == bus[thread[t].bus].asked \/ AppExists(thread[t].bus)
    <3>1. CASE UNCHANGED bus
      BY <1>1, <3>1 DEF TypeOK
    <3>2. CASE bus' = [bus EXCEPT ![thread[t].bus].joinable = FALSE]
      <4> DEFINE o == [bus[thread[t].bus] EXCEPT !.joinable = FALSE]
      <4>1. bus' = [bus EXCEPT ![thread[t].bus] = o]
        BY <1>1, <3>2 DEF TypeOK
      <4>2. o \in Object /\ o.nodes = bus[thread[t].bus].nodes
        BY ZenonT(60), <1>1 DEF TypeOK, Object
      <4> HIDE DEF o
      <4>3. QED
        BY <1>1, <4>1, <4>2 DEF TypeOK
    <3>3. CASE bus' = [bus EXCEPT ![thread[t].bus].asked = @ \/ AppExists(thread[t].bus)]
      <4>1. v \in BOOLEAN /\ bus' = [bus EXCEPT ![thread[t].bus].asked = v]
        BY <1>1, <3>3 DEF TypeOK
      <4> HIDE DEF v
      <4>2. QED
        BY <2>2, <4>1
    <3>4. QED
      BY <2>1, <3>1, <3>2, <3>3
  <2>4. loop' \in [Buses -> LoopPC] /\ booted' \in SUBSET Drives
    <3>1. thread[t].drive \in Drives \/ Erasing(t)
      BY <1>1 DEF Attached, TypeOK, Thread
    <3>2. QED
      BY <1>1, <3>1 DEF StartReturns, Post, Answered, ForceStops, shutdown, Ask, Join, TypeOK
  <2>5. QED
    BY <2>3, <2>4
<1>3. CASE StartReturns(t) \/ Answered(t) \/ ForceStops(t)
  <2>1. Rests(t) /\ ~Erasing(t)
    BY <1>1, <1>3 DEF StartReturns, Answered, ForceStops
  <2>2. QED
    BY <1>1, <1>2, <2>1, ReturnStep
<1>4. CASE Post(t)
  <2>1. ~Erasing(t) /\ thread[t].then # "release" /\ (Rests(t) \/ Goes(t, "await"))
    BY <1>1, <1>4 DEF Post
  <2>2. QED
    BY <1>1, <1>2, <2>1, ReturnStep
<1>5. CASE shutdown(t) \/ Join(t) \/ Ask(t)
  <2>1. thread[t].then # "release" /\ (ShutdownReturns(t) \/ Goes(t, "ask") \/ Goes(t, "join"))
    BY <1>1, <1>5 DEF shutdown, Join, Ask
  <2>2. \/ Rests(t) /\ ~Erasing(t)
        \/ Goes(t, "erase") /\ Erasing(t)
        \/ Goes(t, "ask") \/ Goes(t, "join")
    BY <2>1 DEF ShutdownReturns, Erasing
  <2>3. QED
    BY <1>1, <1>2, <2>1, <2>2, ReturnStep
<1>6. QED
  BY <1>3, <1>4, <1>5

LEMMA PostAndReleaseInv == ASSUME IInv, NEW t \in Threads, PostAndRelease(t) PROVE IInv'
<1> DEFINE d == thread[t].drive
<1>1. /\ d \in Drives /\ handle[d] # None /\ ~Erasing(t) /\ Release(t, d)
      /\ UNCHANGED <<registry, mutex, bus, loop>> /\ ~At(t, "validate")
      /\ \A u \in Threads \ {t} : thread[u].drive # d
  BY BusAssumption DEF IInv, PostAndRelease, Attached, Exclusive, Owning, Erasing, TypeOK, Thread
<1>2. QED
  BY <1>1, ReleaseStep

LEMMA EraseInv == ASSUME IInv, NEW t \in Threads, Erase(t) PROVE IInv'
<1>1. PICK b \in Buses : b = thread[t].bus
  BY DEF IInv, Attached, Erase
<1>2. /\ TypeOK /\ Attached /\ Exclusive /\ Locked /\ Abandoned /\ Joined
      /\ RegistryHoldsLive
      /\ At(t, "erase") /\ mutex = None /\ UNCHANGED <<mutex, handle, booted>>
      /\ registry' = IF Live(registry) THEN registry ELSE None
      /\ bus' = [bus EXCEPT ![b] = Fresh]
      /\ loop' = [loop EXCEPT ![b] = "none"]
      /\ Rests(t)
  BY <1>1 DEF IInv, Erase
<1>3. /\ thread' \in [Threads -> Thread]
      /\ \A u \in Threads \ {t} : thread'[u] = thread[u]
      /\ At(t, "idle")' /\ thread'[t].drive = None /\ thread'[t].bus = None
      /\ thread'[t].then = "return"
  BY <1>2, Moves
<1>4. Erasing(t) /\ ~Held(b) /\ \A u \in Threads : ~At(u, "validate")
  <2>1. \A u \in Threads : ~At(u, "validate")
    BY <1>2, BusAssumption DEF Locked
  <2>2. thread[t].drive = None \/ handle[thread[t].drive] = b
    BY <1>1, <1>2 DEF Attached
  <2>3. Erasing(t)
    BY <1>2 DEF Attached
  <2>4. QED
    BY <1>1, <1>2, <2>1, <2>3 DEF Abandoned
<1>5. TypeOK'
  <2>1. bus' \in [Buses -> Object] /\ loop' \in [Buses -> LoopPC]
    BY <1>2 DEF TypeOK, Object, Fresh, LoopPC
  <2>2. registry' \in Buses \cup {None}
    BY <1>2 DEF TypeOK
  <2>3. QED
    BY <1>2, <1>3, <2>1, <2>2 DEF TypeOK
<1>6. Attached' /\ Exclusive'
  BY <1>2, <1>3 DEF Attached, Exclusive, Owning, Erasing
<1>7. Locked'
  BY <1>2, <1>3, <1>4, BusAssumption DEF Locked
<1>8. Abandoned'
  BY <1>2, <1>3 DEF Abandoned, Erasing, Held
<1>9. Joined'
  <2>1. \A e \in Drives : handle[e] # b
    BY <1>4 DEF Held
  <2>2. \A c \in Buses : c # b => bus'[c] = bus[c]
    BY <1>2 DEF TypeOK
  <2>3. QED
    BY <1>2, <1>3, <2>1, <2>2 DEF Joined, TypeOK
<1>10. RegistryHoldsLive'
  BY <1>2, HeldLive DEF RegistryHoldsLive, Held, TypeOK
<1>11. QED
  BY <1>5, <1>6, <1>7, <1>8, <1>9, <1>10 DEF IInv

LEMMA LoopInv == ASSUME IInv, NEW b \in Buses, LoopStep(b) PROVE IInv'
<1>1. UNCHANGED <<registry, mutex, bus, handle, thread, booted>> /\ loop' \in [Buses -> LoopPC]
  BY DEF IInv, TypeOK, LoopStep, LoopStarts, LoopLeaves, AppDetached, AppDestroyed, LoopGoes, LoopPC
<1>2. TypeOK'
  BY <1>1 DEF IInv, TypeOK
<1>3. QED
  BY <1>1, <1>2 DEF IInv, Attached, Exclusive, Locked, Abandoned, Joined, RegistryHoldsLive,
     Erasing, Owning, Held
-----------------------------------------------------------------------------
LEMMA InitInv == ASSUME Init PROVE IInv
<1> USE DEF Init
<1>1. TypeOK
  BY DEF TypeOK, Object, Fresh, LoopPC, Thread, ThreadPC, Resting
<1>2. Attached /\ Exclusive
  BY DEF Attached, Exclusive, Owning, Erasing, Resting
<1>3. Locked /\ Abandoned /\ Joined /\ RegistryHoldsLive
  BY BusAssumption DEF Locked, Abandoned, Joined, RegistryHoldsLive, Erasing, Resting
<1>4. QED
  BY <1>1, <1>2, <1>3 DEF IInv

LEMMA NextInv == ASSUME IInv, [Next]_vars PROVE IInv'
<1>1. CASE UNCHANGED vars
  BY <1>1 DEF vars, IInv, TypeOK, Attached, Exclusive, Locked, Abandoned, Joined,
     RegistryHoldsLive, Erasing, Owning, Held
<1>2. ASSUME NEW t \in Threads, Calls(t) PROVE IInv'
  BY <1>2, CreateInv, CallsInv DEF Calls
<1>3. ASSUME NEW t \in Threads, Proceeds(t) PROVE IInv'
  BY <1>3, ValidateInv, MismatchInv, RegisterInv, StepsInv, PostAndReleaseInv, EraseInv
     DEF Proceeds
<1>4. ASSUME NEW b \in Buses, LoopStep(b) PROVE IInv'
  BY <1>4, LoopInv
<1>5. QED
  BY <1>1, <1>2, <1>3, <1>4 DEF Next

\* The invariant holds whatever calls overlap, may fail or force the bus down.
THEOREM LifecycleSound == Spec => []IInv
<1>1. Init => IInv
  BY InitInv
<1>2. IInv /\ [Next]_vars => IInv'
  BY NextInv
<1>3. QED
  BY <1>1, <1>2, PTL DEF Spec

\* Every drive that exists holds the bus that the registry names.
THEOREM RegistryHoldsLiveTheorem == Spec => []RegistryHoldsLive
<1>1. IInv => RegistryHoldsLive
  BY DEF IInv
<1>2. QED
  BY <1>1, LifecycleSound, PTL

\* A drive between its constructor and its destructor is a node of the chain,
\* so a call on it finds its driver: also when constructors race with start().
THEOREM NodesKnownTheorem == Spec => []NodesKnown
<1>1. IInv => NodesKnown
  BY DEF IInv, Joined, NodesKnown, Constructed
<1>2. QED
  BY <1>1, LifecycleSound, PTL
-----------------------------------------------------------------------------
(* Who uses the application. *)

\* Nothing moves but one thread, and it begins no more than a ~Bus of a bus
\* that nobody asked, or a call that saw the application.
LEMMA AskedKept ==
    ASSUME IInv, Asked, NEW t \in Threads, \A u \in Threads \ {t} : thread'[u] = thread[u],
           \A b \in Buses : bus'[b].asked = bus[b].asked /\ bus'[b].started = bus[b].started,
           UNCHANGED loop,
           \A b \in Buses : Held(b)' => Held(b) \/ ~bus[b].asked,
           ~At(t, "force")',
           ~At(t, "idle")' => thread'[t].bus \in Buses,
           thread'[t].pc \in {"shutdown", "ask", "join", "erase"} => Erasing(t)',
           thread'[t].pc \in {"shutdown", "ask"} => ~bus[thread'[t].bus].asked,
           thread'[t].pc \in Calling =>
               loop[thread'[t].bus] \notin {"none", "constructing", "failed"}
    PROVE  Asked'
<1>1. \A u \in Threads : ~At(u, "idle") => thread[u].bus \in Buses
  BY DEF IInv, Attached
<1>2. ASSUME NEW u \in Threads
      PROVE  /\ ~At(u, "force")'
             /\ thread'[u].pc \in {"shutdown", "ask", "join", "erase"} => Erasing(u)'
             /\ At(u, "shutdown")' \/ At(u, "ask")' => ~bus'[thread'[u].bus].asked
             /\ thread'[u].pc \in Calling =>
                    loop'[thread'[u].bus] \notin {"none", "constructing", "failed"}
  <2>1. CASE u = t
    BY <2>1 DEF Calling
  <2>2. CASE u # t
    BY <1>1, <2>2 DEF Asked, Erasing, Calling
  <2>3. QED
    BY <2>1, <2>2
<1>3. \A b \in Buses :
          /\ bus'[b].asked => ~Held(b)'
          /\ loop'[b] \in {"left", "detached", "ended"} => bus'[b].asked
          /\ ~bus'[b].started => loop'[b] = "none"
  BY DEF Asked
<1>4. QED
  BY <1>2, <1>3 DEF Asked, Calling

LEMMA ReleaseAsked ==
    ASSUME IInv, Asked, NEW t \in Threads, NEW d \in Drives, handle[d] # None, Release(t, d),
           UNCHANGED <<registry, mutex, bus, loop>>
    PROVE  Asked'
<1>0. PICK b \in Buses : b = handle[d]
  BY DEF IInv, TypeOK
<1>1. TypeOK /\ Held(b) /\ ~bus[b].asked
  BY <1>0 DEF IInv, Asked, Held
<1>2. /\ \A u \in Threads \ {t} : thread'[u] = thread[u]
      /\ \/ At(t, "shutdown")' /\ thread'[t].bus = b /\ Erasing(t)'
         \/ At(t, "idle")'
  <2>1. CASE Holds(b) = {d}
    <3>1. Begins(t, "shutdown", None, b, "erase")
      BY <1>0, <2>1 DEF Release
    <3>2. QED
      BY <1>1, <3>1, Moves DEF ThreadPC, Erasing
  <2>2. CASE Holds(b) # {d}
    BY <1>0, <1>1, <2>2, Moves DEF Release
  <2>3. QED
    BY <2>1, <2>2
<1>3. \A c \in Buses : Held(c)' => Held(c)
  <2>1. \A e \in Drives : handle'[e] \in {handle[e], None}
    BY <1>1 DEF Release, TypeOK
  <2>2. QED
    BY <1>2, <2>1, BusAssumption DEF Held
<1>4. QED
  BY <1>1, <1>2, <1>3, AskedKept DEF Calling

LEMMA AskedCalls ==
    ASSUME IInv, Asked, ~Tooling, NEW t \in Threads, Calls(t)
    PROVE  Asked'
<1>1. TypeOK /\ Attached
  BY DEF IInv
<1>2. PICK d \in Drives : getOrCreate(t, d) \/ start(t, d) \/ Call(t, d) \/ Destroy(t, d)
  BY DEF Calls, shutdownBus, forceStopBus
<1>3. CASE getOrCreate(t, d)
  <2>1. UNCHANGED <<bus, loop>>
    BY <1>3 DEF getOrCreate
  <2>2. CASE /\ Live(registry) /\ UNCHANGED handle
             /\ Begins(t, "validate", d, registry, "return")
    <3>1. Held(registry) /\ registry \in Buses
      BY <2>2, HeldLive
    <3>2. /\ \A u \in Threads \ {t} : thread'[u] = thread[u]
          /\ At(t, "validate")' /\ thread'[t].bus = registry
      BY <1>1, <2>2, <3>1, Moves DEF ThreadPC
    <3>3. \A b \in Buses : Held(b)' => Held(b)
      BY <2>2, <3>1, <3>2 DEF Held
    <3>4. QED
      BY <2>1, <3>1, <3>2, <3>3, AskedKept DEF Calling
  <2>3. ASSUME NEW b \in Buses, Unused(b), handle' = [handle EXCEPT ![d] = b],
               Begins(t, "register", d, b, "return")
        PROVE  Asked'
    <3>1. ~bus[b].asked
      BY <2>3 DEF Unused, Fresh
    <3>2. /\ \A u \in Threads \ {t} : thread'[u] = thread[u]
          /\ At(t, "register")' /\ thread'[t].bus = b
      BY <1>1, <2>3, Moves DEF ThreadPC
    <3>3. \A c \in Buses : Held(c)' => Held(c) \/ ~bus[c].asked
      <4>1. \A e \in Drives : handle'[e] = handle[e] \/ handle'[e] = b
        BY <1>1, <2>3 DEF TypeOK
      <4>2. QED
        BY <3>1, <3>2, <4>1 DEF Held
    <3>4. QED
      BY <2>1, <3>1, <3>2, <3>3, AskedKept DEF Calling
  <2>4. QED
    BY <1>3, <2>2, <2>3 DEF getOrCreate
<1>4. CASE start(t, d) /\ bus[handle[d]].started
  BY <1>4 DEF start, Asked, Erasing, Held
<1>5. CASE start(t, d) /\ ~bus[handle[d]].started
  <2>1. PICK b \in Buses : b = handle[d]
    BY <1>1, <1>5 DEF start, Constructed, TypeOK
  <2>2. /\ bus' = [bus EXCEPT ![b].started = TRUE, ![b].joinable = TRUE]
        /\ loop' = [loop EXCEPT ![b] = "constructing"] /\ UNCHANGED handle
        /\ Begins(t, "ready", d, b, "return")
    BY <1>5, <2>1 DEF start
  <2>3. /\ \A u \in Threads \ {t} : thread'[u] = thread[u]
        /\ At(t, "ready")' /\ thread'[t].bus = b
    BY <1>1, <2>2, Moves DEF ThreadPC
  <2>4. /\ \A c \in Buses : bus'[c].asked = bus[c].asked
        /\ bus'[b].started /\ \A c \in Buses \ {b} : bus'[c].started = bus[c].started
        /\ loop'[b] = "constructing" /\ \A c \in Buses \ {b} : loop'[c] = loop[c]
    BY <1>1, <2>2 DEF TypeOK, Object
  <2>5. loop[b] = "none"
    BY <1>5, <2>1 DEF Asked
  <2>6. \A c \in Buses : Held(c)' => Held(c)
    BY <2>2, <2>3 DEF Held
  <2>7. \A u \in Threads : ~At(u, "idle") => thread[u].bus \in Buses
    BY <1>1 DEF Attached
  <2>8. ASSUME NEW u \in Threads
        PROVE  /\ ~At(u, "force")'
               /\ thread'[u].pc \in {"shutdown", "ask", "join", "erase"} => Erasing(u)'
               /\ At(u, "shutdown")' \/ At(u, "ask")' => ~bus'[thread'[u].bus].asked
               /\ thread'[u].pc \in Calling =>
                      loop'[thread'[u].bus] \notin {"none", "constructing", "failed"}
    <3>1. CASE u = t
      BY <2>3, <3>1 DEF Calling
    <3>2. CASE u # t
      BY <2>3, <2>4, <2>5, <2>7, <3>2 DEF Asked, Erasing, Calling
    <3>3. QED
      BY <3>1, <3>2
  <2>9. \A c \in Buses :
            /\ bus'[c].asked => ~Held(c)'
            /\ loop'[c] \in {"left", "detached", "ended"} => bus'[c].asked
            /\ ~bus'[c].started => loop'[c] = "none"
    BY <2>4, <2>6 DEF Asked
  <2>10. QED
    BY <2>8, <2>9 DEF Asked
<1>6. CASE Call(t, d)
  <2>1. PICK then \in {"return", "await"} : Begins(t, "post", d, handle[d], then)
    BY <1>6 DEF Call
  <2>2. handle[d] \in Buses /\ loop[handle[d]] \in {"running", "left"}
    BY <1>1, <1>6 DEF Call, Constructed, TypeOK, AppVisible
  <2>3. /\ \A u \in Threads \ {t} : thread'[u] = thread[u]
        /\ At(t, "post")' /\ thread'[t].bus = handle[d]
    BY <1>1, <2>1, <2>2, Moves DEF ThreadPC
  <2>4. UNCHANGED <<bus, loop, handle>> /\ \A c \in Buses : Held(c)' => Held(c)
    BY <1>6, <2>3 DEF Call, Held
  <2>5. QED
    BY <2>2, <2>3, <2>4, AskedKept
<1>7. CASE Destroy(t, d)
  <2>1. handle[d] \in Buses /\ handle[d] # None /\ UNCHANGED <<registry, mutex, bus, loop>>
    BY <1>1, <1>7 DEF Destroy, Constructed, TypeOK
  <2>2. CASE Release(t, d)
    BY <2>1, <2>2, ReleaseAsked
  <2>3. CASE running(handle[d]) /\ Begins(t, "post", d, handle[d], "release") /\ UNCHANGED handle
    <3>1. /\ \A u \in Threads \ {t} : thread'[u] = thread[u]
          /\ At(t, "post")' /\ thread'[t].bus = handle[d]
      BY <1>1, <2>1, <2>3, Moves DEF ThreadPC
    <3>2. \A c \in Buses : Held(c)' => Held(c)
      BY <2>3, <3>1 DEF Held
    <3>3. QED
      BY <2>1, <2>3, <3>1, <3>2, AskedKept DEF running
  <2>4. QED
    BY <1>7, <2>2, <2>3 DEF Destroy
<1>8. QED
  BY <1>2, <1>3, <1>4, <1>5, <1>6, <1>7

LEMMA AskedProceeds ==
    ASSUME IInv, Asked, NEW t \in Threads, Proceeds(t)
    PROVE  Asked'
<1>1. TypeOK /\ Attached /\ Locked /\ Abandoned
  BY DEF IInv
<1>2. PICK b \in Buses : b = thread[t].bus
  BY <1>1 DEF Attached, Proceeds, validateBusMatch, MismatchThrows, registerNode, StartReturns,
     Post, Answered, PostAndRelease, ForceStops, shutdown, Ask, Join, Erase
<1>3. CASE validateBusMatch(t)
  <2>1. /\ UNCHANGED <<bus, loop>> /\ At(t, "validate") /\ Goes(t, "register")
        /\ handle' = [handle EXCEPT ![thread[t].drive] = b]
    BY <1>2, <1>3 DEF validateBusMatch
  <2>2. /\ \A u \in Threads \ {t} : thread'[u] = thread[u]
        /\ At(t, "register")' /\ thread'[t].bus = b
    BY <1>1, <1>2, <2>1, Moves DEF ThreadPC
  <2>3. Held(b) /\ \A e \in Drives : handle'[e] = handle[e] \/ handle'[e] = b
    BY <1>1, <1>2, <2>1 DEF Held, TypeOK
  <2>4. \A c \in Buses : Held(c)' => Held(c)
    BY <2>2, <2>3 DEF Held
  <2>5. QED
    BY <2>1, <2>2, <2>4, AskedKept DEF Calling
<1>4. CASE MismatchThrows(t)
  <2>1. UNCHANGED <<bus, loop, handle>> /\ At(t, "validate")
    BY <1>4 DEF MismatchThrows
  <2>2. Held(b) /\ ~bus[b].asked
    BY <1>2, <2>1 DEF Held, Asked
  <2>3. Begins(t, "shutdown", None, b, "erase") \/ Rests(t)
    BY <1>2, <1>4 DEF MismatchThrows
  <2>4. /\ \A u \in Threads \ {t} : thread'[u] = thread[u]
        /\ \/ At(t, "shutdown")' /\ thread'[t].bus = b /\ Erasing(t)'
           \/ At(t, "idle")'
    BY <1>1, <2>3, Moves DEF ThreadPC, Erasing
  <2>5. \A c \in Buses : Held(c)' => Held(c)
    BY <2>1, <2>4 DEF Held
  <2>6. QED
    BY <2>1, <2>2, <2>4, <2>5, AskedKept DEF Calling
<1>5. CASE registerNode(t) \/ PostAndRelease(t)
  <2>1. /\ thread[t].drive \in Drives /\ handle[thread[t].drive] = b /\ b # None
        /\ UNCHANGED <<registry, mutex, loop>>
    BY <1>1, <1>2, <1>5, BusAssumption DEF Attached, registerNode, PostAndRelease, TypeOK, Thread,
       Erasing
  <2>2. CASE Release(t, thread[t].drive) /\ UNCHANGED bus
    BY <2>1, <2>2, ReleaseAsked
  <2>3. CASE Rests(t) /\ UNCHANGED handle
             /\ bus' = [bus EXCEPT ![b].nodes = @ \cup {thread[t].drive}]
    <3>1. \A u \in Threads \ {t} : thread'[u] = thread[u]
      BY <1>1, <2>3, Moves
    <3>2. At(t, "idle")'
      BY <1>1, <2>3, Moves
    <3>3. \A c \in Buses : bus'[c].asked = bus[c].asked /\ bus'[c].started = bus[c].started
      BY <1>1, <2>3 DEF TypeOK, Object
    <3>4. \A c \in Buses : Held(c)' => Held(c)
      BY <2>3, <3>1, <3>2 DEF Held
    <3>5. QED
      BY <2>1, <3>1, <3>2, <3>3, <3>4, AskedKept DEF Calling
  <2>4. QED
    BY <1>2, <1>5, <2>2, <2>3 DEF registerNode, PostAndRelease
<1>6. CASE StartReturns(t) \/ Post(t) \/ Answered(t)
  <2>1. UNCHANGED <<loop, handle>> /\ (Rests(t) \/ (Goes(t, "await") /\ ~At(t, "validate")))
    BY <1>6 DEF StartReturns, Post, Answered
  <2>2. /\ \A u \in Threads \ {t} : thread'[u] = thread[u]
        /\ At(t, "idle")' \/ (At(t, "await")' /\ thread'[t].bus = b)
    BY <1>1, <1>2, <2>1, Moves DEF ThreadPC
  <2>3. \A c \in Buses : bus'[c].asked = bus[c].asked /\ bus'[c].started = bus[c].started
    <3>1. UNCHANGED bus \/ bus' = [bus EXCEPT ![b].joinable = FALSE]
      BY <1>2, <1>6 DEF StartReturns, Post, Answered
    <3>2. QED
      BY <1>1, <3>1 DEF TypeOK, Object
  <2>4. \A c \in Buses : Held(c)' => Held(c)
    BY <2>1, <2>2 DEF Held
  <2>5. QED
    BY <2>1, <2>2, <2>3, <2>4, AskedKept DEF Calling
<1>7. CASE shutdown(t) \/ Join(t)
  <2>1. Erasing(t) /\ UNCHANGED <<loop, handle>>
    BY <1>7 DEF shutdown, Join, Asked
  <2>2. \/ Goes(t, "erase") \/ Goes(t, "join")
        \/ Goes(t, "ask") /\ At(t, "shutdown") /\ AppVisible(b)
    BY <1>2, <1>7, <2>1 DEF shutdown, Join, ShutdownReturns, Erasing
  <2>3. /\ \A u \in Threads \ {t} : thread'[u] = thread[u]
        /\ thread'[t].bus = b /\ Erasing(t)'
        /\ \/ thread'[t].pc \in {"erase", "join"}
           \/ At(t, "ask")' /\ At(t, "shutdown") /\ AppVisible(b)
    BY <1>1, <1>2, <2>1, <2>2, Moves DEF ThreadPC, Erasing
  <2>4. \A c \in Buses : bus'[c].asked = bus[c].asked /\ bus'[c].started = bus[c].started
    <3>1. UNCHANGED bus \/ bus' = [bus EXCEPT ![b].joinable = FALSE]
      BY <1>2, <1>7 DEF shutdown, Join
    <3>2. QED
      BY <1>1, <3>1 DEF TypeOK, Object
  <2>5. \A c \in Buses : Held(c)' => Held(c)
    BY <2>1, <2>3 DEF Held
  <2>6. At(t, "shutdown") => ~bus[b].asked
    BY <1>2 DEF Asked
  <2>7. QED
    BY <2>1, <2>3, <2>4, <2>5, <2>6, AskedKept DEF Calling, AppVisible
<1>8. CASE Ask(t)
  <2> DEFINE v == bus[b].asked \/ AppExists(b)
  <2>1. /\ Erasing(t) /\ UNCHANGED <<loop, handle>> /\ Goes(t, "join") /\ At(t, "ask")
        /\ bus' = [bus EXCEPT ![b].asked = v]
    BY <1>1, <1>2, <1>8 DEF Ask, Asked, TypeOK
  <2>2. v \in BOOLEAN /\ (bus[b].asked => v)
    OBVIOUS
  <2> HIDE DEF v
  <2>3. /\ \A u \in Threads \ {t} : thread'[u] = thread[u]
        /\ thread'[t].bus = b /\ Erasing(t)' /\ At(t, "join")'
    BY <1>1, <1>2, <2>1, Moves DEF ThreadPC, Erasing
  <2>4. /\ \A c \in Buses \ {b} : bus'[c] = bus[c]
        /\ bus[b].asked => bus'[b].asked
        /\ bus'[b].started = bus[b].started
    BY <1>1, <2>1, <2>2 DEF TypeOK, Object
  <2>5. ~Held(b) /\ \A u \in Threads \ {t} : Erasing(u) => thread[u].bus # b
    BY <1>1, <1>2, <2>1 DEF Abandoned
  <2>6. \A c \in Buses : Held(c)' => Held(c)
    BY <2>1, <2>3 DEF Held
  <2>7. \A u \in Threads : ~At(u, "idle") => thread[u].bus \in Buses
    BY <1>1 DEF Attached
  <2>8. ASSUME NEW u \in Threads
        PROVE  /\ ~At(u, "force")'
               /\ thread'[u].pc \in {"shutdown", "ask", "join", "erase"} => Erasing(u)'
               /\ At(u, "shutdown")' \/ At(u, "ask")' => ~bus'[thread'[u].bus].asked
               /\ thread'[u].pc \in Calling =>
                      loop'[thread'[u].bus] \notin {"none", "constructing", "failed"}
    <3>1. CASE u = t
      BY <2>3, <3>1 DEF Calling
    <3>2. CASE u # t
      BY <2>1, <2>3, <2>4, <2>5, <2>7, <3>2 DEF Asked, Erasing, Calling
    <3>3. QED
      BY <3>1, <3>2
  <2>9. \A c \in Buses :
            /\ bus'[c].asked => ~Held(c)'
            /\ loop'[c] \in {"left", "detached", "ended"} => bus'[c].asked
            /\ ~bus'[c].started => loop'[c] = "none"
    BY <2>1, <2>4, <2>5, <2>6 DEF Asked
  <2>10. QED
    BY <2>8, <2>9 DEF Asked
<1>9. CASE Erase(t)
  <2>1. /\ Erasing(t) /\ UNCHANGED handle /\ Rests(t)
        /\ bus' = [bus EXCEPT ![b] = Fresh] /\ loop' = [loop EXCEPT ![b] = "none"]
    BY <1>1, <1>2, <1>9 DEF Erase, Attached
  <2>2. /\ \A u \in Threads \ {t} : thread'[u] = thread[u]
        /\ At(t, "idle")'
    BY <1>1, <2>1, Moves
  <2>3. /\ \A c \in Buses \ {b} : bus'[c] = bus[c] /\ loop'[c] = loop[c]
        /\ bus'[b] = Fresh /\ loop'[b] = "none"
    BY <1>1, <2>1 DEF TypeOK
  <2>4. ~Held(b) /\ \A u \in Threads \ {t} : Erasing(u) => thread[u].bus # b
    BY <1>1, <1>2, <2>1 DEF Abandoned
  <2>5. \A c \in Buses : Held(c)' => Held(c)
    BY <2>1, <2>2 DEF Held
  <2>6. \A u \in Threads \ {t} : ~At(u, "idle") /\ thread[u].bus = b => ~(thread[u].pc \in Calling)
    BY <1>1, <2>4, BusAssumption DEF Attached, Held, Calling, Asked, Erasing, TypeOK, Thread
  <2>7. \A u \in Threads : ~At(u, "idle") => thread[u].bus \in Buses
    BY <1>1 DEF Attached
  <2>8. ASSUME NEW u \in Threads
        PROVE  /\ ~At(u, "force")'
               /\ thread'[u].pc \in {"shutdown", "ask", "join", "erase"} => Erasing(u)'
               /\ At(u, "shutdown")' \/ At(u, "ask")' => ~bus'[thread'[u].bus].asked
               /\ thread'[u].pc \in Calling =>
                      loop'[thread'[u].bus] \notin {"none", "constructing", "failed"}
    <3>1. CASE u = t
      BY <2>2, <3>1 DEF Calling
    <3>2. CASE u # t
      BY <2>2, <2>3, <2>4, <2>6, <2>7, <3>2 DEF Asked, Erasing, Calling
    <3>3. QED
      BY <3>1, <3>2
  <2>9. \A c \in Buses :
            /\ bus'[c].asked => ~Held(c)'
            /\ loop'[c] \in {"left", "detached", "ended"} => bus'[c].asked
            /\ ~bus'[c].started => loop'[c] = "none"
    BY <2>3, <2>5 DEF Asked, Fresh
  <2>10. QED
    BY <2>8, <2>9 DEF Asked
<1>10. CASE ForceStops(t)
  BY <1>10 DEF ForceStops, Asked
<1>11. QED
  BY <1>3, <1>4, <1>5, <1>6, <1>7, <1>8, <1>9, <1>10 DEF Proceeds

LEMMA AskedLoop ==
    ASSUME IInv, Asked, NEW b \in Buses, LoopStep(b)
    PROVE  Asked'
<1>1. UNCHANGED <<bus, handle, thread>> /\ TypeOK /\ Attached
  BY DEF IInv, LoopStep, LoopStarts, LoopLeaves, AppDetached, AppDestroyed, LoopGoes
<1>2. /\ \A c \in Buses \ {b} : loop'[c] = loop[c]
      /\ loop[b] # "none"
      /\ loop[b] \notin {"none", "constructing", "failed"} =>
             loop'[b] \notin {"none", "constructing", "failed"}
      /\ loop'[b] \in {"left", "detached", "ended"} => bus[b].asked
  BY <1>1 DEF LoopStep, LoopStarts, LoopLeaves, AppDetached, AppDestroyed, LoopGoes, TypeOK, Asked
<1>3. \A u \in Threads : thread[u].pc \in Calling => thread[u].bus \in Buses
  BY <1>1 DEF Attached, Calling
<1>4. QED
  BY <1>1, <1>2, <1>3 DEF Asked, Held, Erasing

\* A call that saw the application uses it before it goes: the loop ends with
\* ~Bus alone, which no call outlives, as long as nobody uses the tooling calls.
THEOREM AppOutlivesCallersTheorem ==
    ASSUME ~Tooling
    PROVE  Spec => []AppOutlivesCallers
<1>1. Init => Asked
  BY BusAssumption DEF Init, Asked, Resting, Fresh, Held, Calling
<1>2. IInv /\ Asked /\ [Next]_vars => Asked'
  <2>1. CASE UNCHANGED vars
    BY <2>1 DEF vars, Asked, Held, Erasing
  <2>2. QED
    BY <2>1, AskedCalls, AskedProceeds, AskedLoop DEF Next
<1>3. IInv /\ Asked => AppOutlivesCallers
  <2>1. SUFFICES ASSUME IInv, Asked, NEW t \in Threads, thread[t].pc \in {"post", "force", "ask"}
                 PROVE  AppExists(thread[t].bus)
    BY DEF AppOutlivesCallers
  <2>2. PICK b \in Buses : b = thread[t].bus
    BY <2>1 DEF IInv, Attached
  <2>3. ~bus[b].asked
    <3>1. CASE At(t, "ask")
      BY <2>1, <2>2, <3>1 DEF Asked
    <3>2. CASE At(t, "post")
      BY <2>1, <2>2, <3>2 DEF Asked, IInv, Attached, Held, Erasing, TypeOK, Thread
    <3>3. QED
      BY <2>1, <3>1, <3>2 DEF Asked
  <2>4. loop[b] \in LoopPC /\ loop[b] \notin {"none", "constructing", "failed"}
    BY <2>1, <2>2 DEF Asked, Calling, IInv, TypeOK
  <2>5. loop[b] = "running"
    BY <2>1, <2>3, <2>4 DEF Asked, LoopPC
  <2>6. QED
    BY <2>2, <2>5 DEF AppExists
<1>4. QED
  BY <1>1, <1>2, <1>3, LifecycleSound, PTL DEF Spec
-----------------------------------------------------------------------------
(* The master of the interface. *)

\* If calls do not overlap, only one thread does anything.
LEMMA Turn ==
    ASSUME IInv, Alone, ~Overlapping, NEW t \in Threads, Calls(t) \/ Proceeds(t)
    PROVE  \A u \in Threads \ {t} : At(u, "idle") /\ thread'[u] = thread[u]
<1>1. thread \in [Threads -> Thread]
  BY DEF IInv, TypeOK
<1>2. \A u \in Threads \ {t} : At(u, "idle")
  <2>1. CASE ~At(t, "idle")
    BY <2>1 DEF Alone
  <2>2. CASE At(t, "idle")
    <3>1. Calls(t)
      BY <2>2 DEF Proceeds, validateBusMatch, MismatchThrows, registerNode, StartReturns,
         Post, Answered, PostAndRelease, ForceStops, shutdown, Ask, Join, Erase
    <3>2. MayCall(t)
      BY <3>1 DEF Calls, getOrCreate, start, Call, Destroy, shutdownBus, forceStopBus
    <3>3. QED
      BY <3>2 DEF MayCall
  <2>3. QED
    BY <2>1, <2>2
<1>3. CASE Proceeds(t)
  <2>1. UNCHANGED thread \/ \E r : thread' = [thread EXCEPT ![t] = r]
    <3>1. (\E pc \in ThreadPC : Goes(t, pc)) \/ Rests(t)
              \/ \E b : Begins(t, "shutdown", None, b, "erase")
      BY <1>3 DEF Proceeds, validateBusMatch, MismatchThrows, registerNode, StartReturns,
         Post, Answered, PostAndRelease, ForceStops, shutdown, Ask, Join, Erase, Release,
         ShutdownReturns, ThreadPC
    <3>2. ASSUME NEW pc, Goes(t, pc) PROVE \E r : thread' = [thread EXCEPT ![t] = r]
      <4>1. thread' = [thread EXCEPT ![t] = [thread[t] EXCEPT !.pc = pc]]
        BY <3>2 DEF Goes
      <4>2. QED
        BY <4>1
    <3>3. QED
      BY <3>1, <3>2 DEF Rests, Begins
  <2>2. QED
    BY <1>1, <1>2, <2>1
<1>4. CASE Calls(t)
  <2>1. UNCHANGED thread \/ \E r : thread' = [thread EXCEPT ![t] = r]
    <3>1. PICK d \in Drives : getOrCreate(t, d) \/ start(t, d) \/ Call(t, d) \/ Destroy(t, d)
                              \/ shutdownBus(t, d) \/ forceStopBus(t, d)
      BY <1>4 DEF Calls
    <3>2. UNCHANGED thread \/ Rests(t) \/ \E pc, e, b, then : Begins(t, pc, e, b, then)
      BY <3>1 DEF getOrCreate, start, Call, Destroy, shutdownBus, forceStopBus, Release
    <3>3. QED
      BY <3>2 DEF Rests, Begins
  <2>2. QED
    BY <1>1, <1>2, <2>1
<1>5. QED
  BY <1>3, <1>4

LEMMA AloneStep ==
    ASSUME IInv, Alone, ~Overlapping, [Next]_vars
    PROVE  Alone'
<1>1. CASE UNCHANGED vars
  BY <1>1 DEF vars, Alone
<1>2. ASSUME NEW t \in Threads, Calls(t) \/ Proceeds(t) PROVE Alone'
  BY <1>2, Turn DEF Alone
<1>3. ASSUME NEW b \in Buses, LoopStep(b) PROVE Alone'
  BY <1>3 DEF Alone, LoopStep, LoopStarts, LoopLeaves, AppDetached, AppDestroyed, LoopGoes
<1>4. QED
  BY <1>1, <1>2, <1>3 DEF Next

\* A step that starts no loop but the registered bus's, and takes no reference
\* from a bus but to destroy it.
LEMMA OwnedKept ==
    ASSUME Owned, NEW t \in Threads, \A u \in Threads \ {t} : thread'[u] = thread[u],
           UNCHANGED registry,
           \A b \in Buses : loop'[b] # "none" => loop[b] # "none" \/ (b = registry /\ Held(b)'),
           \A b \in Buses : Held(b) => Held(b)' \/ (Erasing(t)' /\ thread'[t].bus = b),
           Erasing(t) => Erasing(t)' /\ thread'[t].bus = thread[t].bus
    PROVE  Owned'
<1>1. ASSUME NEW b \in Buses, loop'[b] # "none"
      PROVE  /\ b = registry
             /\ Held(b)' \/ \E u \in Threads : Erasing(u)' /\ thread'[u].bus = b
  <2>1. CASE b = registry /\ Held(b)'
    BY <2>1
  <2>2. CASE loop[b] # "none"
    BY <2>2 DEF Owned, Erasing
  <2>3. QED
    BY <1>1, <2>1, <2>2
<1>2. QED
  BY <1>1 DEF Owned

LEMMA ReleaseOwned ==
    ASSUME IInv, Owned, NEW t \in Threads, NEW d \in Drives, handle[d] # None, Release(t, d),
           ~At(t, "validate"), ~Erasing(t), UNCHANGED <<registry, loop>>
    PROVE  Owned'
<1>0. PICK b \in Buses : b = handle[d]
  BY DEF IInv, TypeOK
<1>1. TypeOK
  BY DEF IInv
<1>2. /\ handle'[d] = None
      /\ \A e \in Drives \ {d} : handle'[e] = handle[e]
  BY <1>1 DEF Release, TypeOK
<1>3. /\ \A u \in Threads \ {t} : thread'[u] = thread[u]
      /\ \/ thread'[t].bus = b /\ Erasing(t)' /\ Holds(b) = {d}
         \/ Holds(b) # {d}
  <2>1. CASE Holds(b) = {d}
    <3>1. Begins(t, "shutdown", None, b, "erase")
      BY <1>0, <2>1 DEF Release
    <3>2. QED
      BY <1>1, <2>1, <3>1, Moves DEF ThreadPC, Erasing
  <2>2. CASE Holds(b) # {d}
    BY <1>0, <1>1, <2>2, Moves DEF Release
  <2>3. QED
    BY <2>1, <2>2
<1>4. ASSUME NEW c \in Buses, Held(c), ~(Erasing(t)' /\ thread'[t].bus = c)
      PROVE  Held(c)'
  <2>1. CASE \E u \in Threads : At(u, "validate") /\ thread[u].bus = c
    BY <1>3, <2>1 DEF Held
  <2>2. CASE \E e \in Drives \ {d} : handle[e] = c
    BY <1>2, <2>2 DEF Held
  <2>3. CASE c = b /\ Holds(b) # {d}
    <3>1. \/ \E e \in Drives : handle[e] = b /\ e # d
          \/ \E u \in Threads : At(u, "validate") /\ thread[u].bus = b
      BY <1>0, <2>3, LastDrive
    <3>2. QED
      BY <2>1, <2>2, <2>3, <3>1
  <2>4. QED
    BY <1>0, <1>3, <1>4, <2>1, <2>2, <2>3 DEF Held
<1>5. QED
  BY <1>3, <1>4, OwnedKept

LEMMA OwnedCalls ==
    ASSUME IInv, Alone, Owned, ~Overlapping, NEW t \in Threads, Calls(t)
    PROVE  Owned'
<1>1. /\ TypeOK /\ Attached
      /\ \A u \in Threads \ {t} : At(u, "idle") /\ thread'[u] = thread[u]
  BY Turn DEF IInv
<1>2. PICK d \in Drives : getOrCreate(t, d) \/ start(t, d) \/ Call(t, d) \/ Destroy(t, d)
                          \/ shutdownBus(t, d) \/ forceStopBus(t, d)
  BY DEF Calls
<1>3. At(t, "idle") /\ ~Erasing(t) /\ \A u \in Threads : ~Erasing(u)
  BY <1>1, <1>2 DEF getOrCreate, start, Call, Destroy, shutdownBus, forceStopBus, MayCall,
     Attached, Erasing
<1>4. CASE getOrCreate(t, d) /\ Live(registry) /\ UNCHANGED <<registry, handle>>
  <2>1. UNCHANGED <<registry, handle, loop>>
    BY <1>4 DEF getOrCreate
  <2>2. \A b \in Buses : Held(b) => Held(b)'
    BY <1>1, <1>3, <2>1 DEF Held
  <2>3. QED
    BY <1>1, <1>3, <2>1, <2>2, OwnedKept
<1>5. CASE getOrCreate(t, d) /\ ~Live(registry)
  <2>1. \A b \in Buses : loop[b] = "none"
    BY <1>3, <1>5, HeldLive DEF Owned
  <2>2. QED
    BY <1>5, <2>1 DEF getOrCreate, Owned
<1>6. CASE start(t, d)
  <2>1. PICK b \in Buses : b = handle[d] /\ b = registry
    BY <1>1, <1>6, BusAssumption DEF start, Constructed, TypeOK, IInv, RegistryHoldsLive
  <2>2. /\ UNCHANGED <<registry, handle>>
        /\ loop' = loop \/ loop' = [loop EXCEPT ![b] = "constructing"]
    BY <1>6, <2>1 DEF start
  <2>3. \A c \in Buses : Held(c) => Held(c)'
    BY <1>1, <1>3, <2>2 DEF Held
  <2>4. Held(b)
    BY <2>1 DEF Held
  <2>5. \A c \in Buses : loop'[c] # "none" => loop[c] # "none" \/ (c = registry /\ Held(c)')
    BY <1>1, <2>1, <2>2, <2>3, <2>4 DEF TypeOK
  <2>6. QED
    BY <1>1, <1>3, <2>2, <2>3, <2>5, OwnedKept
<1>7. CASE UNCHANGED <<registry, handle, loop>>
  <2>1. \A b \in Buses : Held(b) => Held(b)'
    BY <1>1, <1>3, <1>7 DEF Held
  <2>2. QED
    BY <1>1, <1>3, <1>7, <2>1, OwnedKept
<1>8. CASE Destroy(t, d) /\ Release(t, d)
  <2>1. UNCHANGED <<registry, loop>> /\ handle[d] # None
    BY <1>8 DEF Destroy, Constructed
  <2>2. QED
    BY <1>3, <1>8, <2>1, ReleaseOwned
<1>9. QED
  BY <1>2, <1>4, <1>5, <1>6, <1>7, <1>8 DEF getOrCreate, Call, Destroy, shutdownBus, forceStopBus

LEMMA OwnedProceeds ==
    ASSUME IInv, Alone, Owned, ~Overlapping, NEW t \in Threads, Proceeds(t)
    PROVE  Owned'
<1>1. /\ TypeOK /\ Attached /\ Locked /\ ~At(t, "idle")
      /\ \A u \in Threads \ {t} : At(u, "idle") /\ thread'[u] = thread[u] /\ ~Erasing(u)
  BY Turn DEF IInv, Proceeds, validateBusMatch, MismatchThrows, registerNode, StartReturns,
     Post, Answered, PostAndRelease, ForceStops, shutdown, Ask, Join, Erase, Attached, Erasing
<1>2. PICK b \in Buses : b = thread[t].bus
  BY <1>1 DEF Attached
<1>3. CASE validateBusMatch(t)
  <2>1. /\ UNCHANGED <<registry, loop>> /\ At(t, "validate") /\ ~Erasing(t)
        /\ handle' = [handle EXCEPT ![thread[t].drive] = b] /\ handle[thread[t].drive] = None
        /\ thread[t].drive \in Drives
    BY <1>1, <1>2, <1>3 DEF validateBusMatch, Attached, Locked, TypeOK, Thread, Erasing
  <2>2. handle'[thread[t].drive] = b /\ \A e \in Drives : handle[e] # None => handle'[e] = handle[e]
    BY <1>1, <2>1 DEF TypeOK
  <2>3. \A c \in Buses : Held(c) => Held(c)'
    BY <1>1, <1>2, <2>1, <2>2, BusAssumption DEF Held
  <2>4. QED
    BY <1>1, <2>1, <2>3, OwnedKept
<1>4. CASE MismatchThrows(t)
  <2>1. UNCHANGED <<registry, loop, handle>> /\ At(t, "validate") /\ ~Erasing(t)
    BY <1>1, <1>4 DEF MismatchThrows, Attached, Erasing
  <2>2. \/ thread'[t].bus = b /\ Erasing(t)'
        \/ Holds(b) # {t}
    <3>1. CASE Holds(b) = {t}
      <4>1. Begins(t, "shutdown", None, b, "erase")
        BY <1>2, <1>4, <3>1 DEF MismatchThrows
      <4>2. thread'[t].bus = b /\ thread'[t].then = "erase"
        BY <1>1, <1>2, <4>1, Moves DEF ThreadPC
      <4>3. QED
        BY <4>2 DEF Erasing
    <3>2. QED
      BY <3>1
  <2>3. ASSUME NEW c \in Buses, Held(c), ~(Erasing(t)' /\ thread'[t].bus = c)
        PROVE  Held(c)'
    <3>1. CASE \E e \in Drives : handle[e] = c
      BY <2>1, <3>1 DEF Held
    <3>2. CASE c = b /\ Holds(b) # {t}
      BY <1>1, <1>2, <2>1, <3>1, <3>2, LastThread
    <3>3. QED
      BY <1>1, <1>2, <2>2, <2>3, <3>1, <3>2 DEF Held
  <2>4. QED
    BY <1>1, <2>1, <2>3, OwnedKept
<1>5. CASE registerNode(t) \/ PostAndRelease(t)
  <2>1. /\ thread[t].drive \in Drives /\ handle[thread[t].drive] # None
        /\ UNCHANGED <<registry, loop>> /\ ~At(t, "validate") /\ ~Erasing(t)
    BY <1>1, <1>2, <1>5, BusAssumption DEF Attached, registerNode, PostAndRelease, TypeOK, Thread,
       Erasing
  <2>2. CASE Release(t, thread[t].drive)
    BY <2>1, <2>2, ReleaseOwned
  <2>3. CASE UNCHANGED handle
    <3>1. \A c \in Buses : Held(c) => Held(c)'
      BY <1>1, <2>1, <2>3 DEF Held
    <3>2. QED
      BY <1>1, <2>1, <3>1, OwnedKept
  <2>4. QED
    BY <1>5, <2>2, <2>3 DEF registerNode, PostAndRelease
<1>6. CASE \/ StartReturns(t) \/ Post(t) \/ Answered(t) \/ ForceStops(t)
           \/ shutdown(t) \/ Ask(t) \/ Join(t)
  <2>1. UNCHANGED <<registry, handle, loop>> /\ ~At(t, "validate")
    BY <1>6 DEF StartReturns, Post, Answered, ForceStops, shutdown, Ask, Join
  <2>2. \A c \in Buses : Held(c) => Held(c)'
    BY <1>1, <2>1 DEF Held
  <2>3. Erasing(t) => Erasing(t)' /\ thread'[t].bus = thread[t].bus
    <3>1. SUFFICES ASSUME Erasing(t) PROVE Erasing(t)' /\ thread'[t].bus = thread[t].bus
      OBVIOUS
    <3>2. Goes(t, "erase") \/ Goes(t, "ask") \/ Goes(t, "join")
      BY <1>1, <1>6, <3>1 DEF StartReturns, Post, Answered, ForceStops, shutdown, Ask, Join,
         ShutdownReturns, Erasing, Attached
    <3>3. QED
      BY <1>1, <3>1, <3>2, Moves DEF ThreadPC, Erasing
  <2>4. QED
    BY <1>1, <2>1, <2>2, <2>3, OwnedKept
<1>7. CASE Erase(t)
  <2>1. /\ registry' = IF Live(registry) THEN registry ELSE None
        /\ UNCHANGED handle /\ At(t, "erase")
        /\ loop' = [loop EXCEPT ![b] = "none"]
    BY <1>2, <1>7 DEF Erase
  <2>2. ASSUME NEW c \in Buses, loop'[c] # "none"
        PROVE  c = registry' /\ Held(c)'
    <3>1. c # b /\ loop[c] # "none"
      BY <1>1, <2>1, <2>2 DEF TypeOK
    <3>2. c = registry /\ Held(c)
      BY <1>1, <1>2, <3>1 DEF Owned
    <3>3. QED
      BY <1>1, <2>1, <3>2, HeldLive DEF Held
  <2>3. QED
    BY <2>2 DEF Owned
<1>8. QED
  BY <1>3, <1>4, <1>5, <1>6, <1>7 DEF Proceeds

\* One thread at a time makes one master at a time: a bus is created for an
\* interface only when the one before it is gone for good.  (Of two threads
\* one may create a bus while the other still destroys the last.)
THEOREM OneMasterTheorem ==
    ASSUME ~Overlapping
    PROVE  Spec => []OneMaster
<1>1. Init => Alone /\ Owned
  BY DEF Init, Alone, Owned, Resting
<1>2. IInv /\ Alone /\ Owned /\ [Next]_vars => Alone' /\ Owned'
  <2>1. SUFFICES ASSUME IInv, Alone, Owned, [Next]_vars PROVE Owned'
    BY AloneStep
  <2>2. CASE UNCHANGED vars
    BY <2>1, <2>2 DEF vars, Owned, Held, Erasing
  <2>3. ASSUME NEW b \in Buses, LoopStep(b) PROVE Owned'
    <3>1. /\ UNCHANGED <<registry, handle, thread>>
          /\ \A c \in Buses : loop'[c] # "none" => loop[c] # "none"
      BY <2>1, <2>3 DEF IInv, TypeOK, LoopStep, LoopStarts, LoopLeaves, AppDetached,
         AppDestroyed, LoopGoes
    <3>2. QED
      BY <2>1, <3>1 DEF Owned, Held, Erasing
  <2>4. QED
    BY <2>1, <2>2, <2>3, OwnedCalls, OwnedProceeds DEF Next
<1>3. Owned => OneMaster
  BY DEF Owned, OneMaster, AppExists
<1>4. QED
  BY <1>1, <1>2, <1>3, LifecycleSound, PTL DEF Spec
==============================================================================
