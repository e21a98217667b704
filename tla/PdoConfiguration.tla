--------------------------- MODULE PdoConfiguration ---------------------------
(***************************************************************************)
(* MotorDriver::OnConfig: the SDO downloads that bring each drive of a     *)
(* chain from what its NVM holds to the layout of its PdoMap, its mode and *)
(* its parameters, and OnBoot, which may power it up only then.            *)
(*                                                                         *)
(* One fiber per drive works through its downloads in order.  A download   *)
(* may be refused, its answer may be lost, and a drive may restart between *)
(* any two.  A drive that restarts does not answer the request under way,  *)
(* and it boots again: both are the CANopen library's and the drive's.     *)
(***************************************************************************)
EXTENDS PdoMap, SequencesExt

CONSTANTS
    Nodes,          \* the node ids of the chain
    Configured,     \* the nodes for which wantsCyclicConfig() holds
    Summaries,      \* the summaries the chain may be generated from
    Objects,        \* what is mapped into PDOs
    Modes, NoMode,  \* operation modes, and no mode selected
    Switched,       \* the drives the application asks for another mode
    Params,         \* the parameters the application sets, in the code's order
    SaveParams,     \* save_params
    Factory,        \* the PDOs in a drive's NVM: Factory[n][c]
    FactoryMode     \* the operation mode in a drive's NVM

ASSUME PdoConfigurationAssumption ==
    /\ Nodes \subseteq NodeIds /\ {Configured, Switched} \subseteq SUBSET Nodes
    /\ FactoryMode \in Modes /\ NoMode \notin Modes /\ SaveParams \in BOOLEAN
    /\ Params \in Seq(ToSet(Params))

VARIABLES
    summary,    \* the generated summary, read once per drive
    drive,      \* the object dictionary of each drive
    todo,       \* the downloads OnConfig's fiber has still to make, part by part
    boot,       \* how far the boot of each drive is
    selected,   \* selected_mode_ of each driver
    asked,      \* the mode a drive took from a request that has no answer yet
    crossed     \* history: a mode request took effect between a configuration's
                \* read of selected_mode_ and the boot it leads to

vars == <<summary, drive, todo, boot, selected, asked, crossed>>

Channels == DOMAIN Layout(summary)
Map(n) == loadPdoMapFromSummary(summary, n)
isRpdo(c) == c <= Len(summary.rpdo)

\* One PDO of a drive; `laid` says that its transmission type is the layout's.
\* `entries` are all sub-indices the drive has; the first `count` are mapped.
Pdo == [enabled : BOOLEAN, base : 0 .. IdSpan - 1, laid : BOOLEAN,
        count : Nat, entries : Seq(Objects)]
Mapped(pdo) == SubSeq(pdo.entries, 1, pdo.count)

\* A summary describes channels and its representative; the drives have the PDOs
\* it names, with a sub-index for every object it maps into them.
ASSUME ChainAssumption ==
    \A s \in Summaries :
        /\ s.node \in NodeIds
        /\ s.rpdo \in Seq(Channel(Objects)) /\ s.tpdo \in Seq(Channel(Objects))
        /\ \A n \in Nodes :
               /\ Factory[n] \in [DOMAIN Layout(s) -> Pdo]
               /\ \A c \in DOMAIN Layout(s) :
                      Len(Layout(s)[c].entries) <= Len(Factory[n][c].entries)

TypeOK ==
    /\ summary \in Summaries
    /\ \A n \in Nodes :
           /\ drive[n].pdo \in [Channels -> Pdo]
           /\ drive[n].mode \in Modes /\ drive[n].savedMode \in Modes
           /\ drive[n].params \subseteq ToSet(Params)
           /\ drive[n].saved \subseteq ToSet(Params)
    /\ boot \in [Nodes -> {"down", "configuring", "booted", "failed"}]
    /\ selected \in [Nodes -> Modes \cup {NoMode}]
    /\ asked \in [Nodes -> Modes \cup {NoMode}]
    /\ crossed \in [Nodes -> BOOLEAN]

Init ==
    /\ summary \in Summaries
    /\ drive = [n \in Nodes |-> [pdo |-> Factory[n], mode |-> FactoryMode, params |-> {},
                                 savedMode |-> FactoryMode, saved |-> {}]]
    /\ todo = [n \in Nodes |-> <<>>]
    /\ boot = [n \in Nodes |-> "down"]
    /\ selected \in [Nodes -> Modes \cup {NoMode}]
    /\ asked = [n \in Nodes |-> NoMode]
    /\ crossed = [n \in Nodes |-> FALSE]
-----------------------------------------------------------------------------
(* The downloads of one configuration, in the code's order.                *)

Download(what, c, value) == [what |-> what, ch |-> c, value |-> value]
Disable(c) == <<Download("disable", c, 0)>>

\* Mutant: the transmission type is set before the PDO is disabled.
program_TypeFirst(n, c) ==
    LET objects == Map(n)[c].entries
    IN  <<Download("type", c, 0)>> \o Disable(c) \o <<Download("count", c, 0)>>
        \o [i \in DOMAIN objects |-> Download("entry", c, <<i, objects[i]>>)]
        \o <<Download("count", c, Len(objects)), Download("enable", c, 0)>>

\* Disabled first, enabled last, and the mapping rewritten from scratch.
program(n, c) ==
    LET objects == Map(n)[c].entries
    IN  Disable(c) \o <<Download("type", c, 0), Download("count", c, 0)>>
        \o [i \in DOMAIN objects |-> Download("entry", c, <<i, objects[i]>>)]
        \o <<Download("count", c, Len(objects)), Download("enable", c, 0)>>

Used(n, c) == active(Map(n)[c]) /\ Map(n)[c].entries # <<>>

\* Mutant: an unused RxPDO is left alone, too.
configurePdos_UsedOnly(n) ==
    [c \in Channels |-> IF Used(n, c) THEN program(n, c) ELSE <<>>]

\* An unused RxPDO is disabled, an unused TxPDO left alone.
configurePdos(n) ==
    [c \in Channels |->
        IF Used(n, c) THEN program(n, c) ELSE IF isRpdo(c) THEN Disable(c) ELSE <<>>]

\* Mutant: the mode is left to the drive.
selectOperationMode_Never(n) == <<>>

selectOperationMode(n) ==
    IF selected[n] = NoMode THEN <<>> ELSE <<Download("mode", 0, selected[n])>>

\* Mutant: saved after every parameter, not once after the last.
configureProfileParameters_SaveEach(n) ==
    [i \in 1 .. 2 * Len(Params) |->
        IF i % 2 = 1 THEN Download("param", 0, Params[(i + 1) \div 2])
        ELSE Download("save", 0, 0)]

configureProfileParameters(n) ==
    [i \in DOMAIN Params |-> Download("param", 0, Params[i])]
    \o IF SaveParams THEN <<Download("save", 0, 0)>> ELSE <<>>

\* In place of the mode's download until the fiber gets there: selected_mode_
\* is read only then.
ToSelect == <<Download("select", 0, 0)>>

\* Its parts: one for each channel, the mode and the parameters.
ModePart == Len(Layout(summary)) + 1
Configuration(n) ==
    configurePdos(n) \o <<ToSelect, configureProfileParameters(n)>>
-----------------------------------------------------------------------------
(* The drive executing a download.                                         *)

PdoAfter(pdo, d, base) ==
    CASE d.what = "disable" -> [pdo EXCEPT !.enabled = FALSE, !.base = base]
      [] d.what = "enable"  -> [pdo EXCEPT !.enabled = TRUE, !.base = base]
      [] d.what = "type"    -> [pdo EXCEPT !.laid = TRUE]
      [] d.what = "count"   -> [pdo EXCEPT !.count = d.value]
      [] d.what = "entry"   -> [pdo EXCEPT !.entries[d.value[1]] = d.value[2]]

After(n, d) ==
    CASE d.what = "mode"  -> [drive[n] EXCEPT !.mode = d.value]
      [] d.what = "param" -> [drive[n] EXCEPT !.params = @ \cup {d.value}]
      [] d.what = "save"  -> [drive[n] EXCEPT !.saved = drive[n].params,
                                              !.savedMode = drive[n].mode]
      [] OTHER -> [drive[n] EXCEPT !.pdo[d.ch] = PdoAfter(@, d, Map(n)[d.ch].cob.base)]
-----------------------------------------------------------------------------
(* MotorDriver.                                                            *)

\* The node boots: OnConfig defers its fiber; without anything to configure
\* it reports at once.
OnConfig(n) ==
    /\ boot[n] = "down"
    /\ boot' = [boot EXCEPT ![n] = "configuring"]
    /\ todo' = [todo EXCEPT ![n] = IF n \in Configured THEN Configuration(n) ELSE <<>>]
    /\ crossed' = [crossed EXCEPT ![n] = FALSE]
    /\ UNCHANGED <<summary, drive, selected, asked>>

\* The part under way: the first that has anything left, if any.
Due(n) ==
    {k \in DOMAIN todo[n] : todo[n][k] # <<>> /\ \A j \in 1 .. k - 1 : todo[n][j] = <<>>}

\* The fiber comes to the mode, and reads which one is selected.
Selects(n) ==
    /\ boot[n] = "configuring"
    /\ ModePart \in Due(n) /\ todo[n][ModePart] = ToSelect
    /\ todo' = [todo EXCEPT ![n][ModePart] = selectOperationMode(n)]
    /\ UNCHANGED <<summary, drive, boot, selected, asked, crossed>>

\* The next download succeeds.
Downloaded(n) ==
    /\ boot[n] = "configuring"
    /\ \E k \in Due(n) :
           /\ todo[n][k] # ToSelect
           /\ drive' = [drive EXCEPT ![n] = After(n, Head(todo[n][k]))]
           /\ todo' = [todo EXCEPT ![n][k] = Tail(@)]
    /\ UNCHANGED <<summary, boot, selected, asked, crossed>>

\* Mutant: after a refused download the configuration starts over.
Refused_Retried(n) ==
    /\ boot[n] = "configuring" /\ \E k \in Due(n) : todo[n][k] # ToSelect
    /\ todo' = [todo EXCEPT ![n] = Configuration(n)]
    /\ UNCHANGED <<summary, drive, boot, selected, asked, crossed>>

\* The next download fails, though the drive may have executed it: the error
\* is reported, and the rest is not attempted.
Refused(n) ==
    /\ boot[n] = "configuring"
    /\ \E k \in Due(n) :
           /\ todo[n][k] # ToSelect
           /\ \E d \in {drive[n], After(n, Head(todo[n][k]))} :
                  drive' = [drive EXCEPT ![n] = d]
    /\ todo' = [todo EXCEPT ![n] = <<>>]
    /\ boot' = [boot EXCEPT ![n] = "failed"]
    /\ UNCHANGED <<summary, selected, asked, crossed>>

\* Everything is downloaded: result() reports success, and OnBoot goes on.
OnBoot(n) ==
    /\ boot[n] = "configuring" /\ \A k \in DOMAIN todo[n] : todo[n][k] = <<>>
    /\ boot' = [boot EXCEPT ![n] = "booted"]
    /\ UNCHANGED <<summary, drive, todo, selected, asked, crossed>>

\* The configuration under way has read selected_mode_ already.
ModeRead(n) ==
    n \in Configured /\ boot[n] = "configuring" /\ todo[n][ModePart] # ToSelect

\* A drive executes the mode write of a request, which may come at any time of
\* its boot (a bound: one such request per drive waits for its answer).
requestOperationMode(n) ==
    /\ n \in Switched /\ asked[n] = NoMode
    /\ \E m \in Modes \ {selected[n]} :
           /\ drive' = [drive EXCEPT ![n].mode = m]
           /\ asked' = [asked EXCEPT ![n] = m]
    /\ crossed' = [crossed EXCEPT ![n] = @ \/ ModeRead(n)]
    /\ UNCHANGED <<summary, todo, boot, selected>>

\* The driver remembers the mode once it has the drive's answer, unless that is
\* lost; the next configuration selects it again.
ModeAnswered(n) ==
    /\ asked[n] # NoMode
    /\ asked' = [asked EXCEPT ![n] = NoMode]
    /\ \/ /\ selected' = [selected EXCEPT ![n] = asked[n]]
          /\ crossed' = [crossed EXCEPT ![n] = @ \/ ModeRead(n)]
       \/ UNCHANGED <<selected, crossed>>
    /\ UNCHANGED <<summary, drive, todo, boot>>

\* A drive loses its supply, or is reset: it is as its NVM has it.
Restart(n) ==
    /\ boot[n] # "down"
    /\ drive' = [drive EXCEPT ![n].pdo = Factory[n], ![n].mode = drive[n].savedMode,
                              ![n].params = drive[n].saved]
    /\ todo' = [todo EXCEPT ![n] = <<>>]
    /\ boot' = [boot EXCEPT ![n] = "down"]
    /\ UNCHANGED <<summary, selected, asked, crossed>>

FiberGoesOn(n) == Selects(n) \/ Downloaded(n) \/ Refused(n) \/ OnBoot(n)
Asks(n) == requestOperationMode(n) \/ ModeAnswered(n)

Next == \E n \in Nodes : OnConfig(n) \/ FiberGoesOn(n) \/ Asks(n) \/ Restart(n)

Spec == Init /\ [][Next]_vars

\* An SDO request ends, in an answer or in the client's timeout.
FairSpec == Spec /\ \A n \in Nodes : WF_vars(FiberGoesOn(n))
-----------------------------------------------------------------------------
\* What PDO `c` of node `n` is to be.
Laid(n, c) ==
    LET pdo == drive[n].pdo[c]
    IN  /\ pdo.enabled /\ pdo.laid
        /\ pdo.base = Map(n)[c].cob.base
        /\ Mapped(pdo) = Map(n)[c].entries

\* A PDO that is enabled is as the NVM has it or as the layout has it, wherever
\* the configuration failed and whatever a lost answer hides: the drive never
\* acts on a frame whose mapping is half rewritten.
NeverHalfProgrammed ==
    \A n \in Nodes, c \in Channels :
        drive[n].pdo[c].enabled => drive[n].pdo[c] = Factory[n][c] \/ Laid(n, c)

\* A drive that its boot may power up has every used channel as laid, and no
\* other RxPDO that would act on stray frames.
BootedAsLaid ==
    \A n \in Configured, c \in Channels : boot[n] = "booted" =>
        IF Used(n, c) THEN Laid(n, c) ELSE isRpdo(c) => ~drive[n].pdo[c].enabled

\* Drives that have booted never share a CAN identifier, whichever of the two
\* formats the summary has.
DistinctIdentifiers ==
    \A m, n \in Configured : \A c, d \in Channels :
        /\ boot[m] = "booted" /\ boot[n] = "booted"
        /\ drive[m].pdo[c].base = drive[n].pdo[d].base
        /\ Used(m, c) /\ Used(n, d)
        => m = n /\ c = d

\* The NVM holds all of the parameters or none: a configuration that failed in
\* between is never saved.
SavedWhole == \A n \in Nodes : drive[n].saved \in {{}, ToSet(Params)}

\* A drive comes up in the mode its driver last selected, if any, also after a
\* restart that forgot it or a request whose answer was lost, unless a request
\* crossed the end of the configuration.
BootsAsSelected ==
    [][\A n \in Configured : (boot[n] # "booted" /\ boot'[n] = "booted")
           => selected[n] \in {drive[n].mode, NoMode} \/ crossed[n]]_vars

\* What the documentation says of it, "a node that reboots gets the mode last
\* selected" (docs/architecture.md): a configuration that changes the drive's
\* mode changes it to the one the driver holds as selected.
RebootsAsSelected ==
    [][\A n \in Configured :
           /\ boot[n] = "configuring" /\ boot'[n] = "configuring" /\ asked'[n] = asked[n]
           /\ drive'[n].mode # drive[n].mode
           => drive'[n].mode = selected[n]]_vars

\* Every configuration reports to the boot process, unless the drive restarts.
ConfigReturns == \A n \in Nodes : (boot[n] = "configuring") ~> (boot[n] # "configuring")
==============================================================================
