------------------------- MODULE MCPdoConfiguration -------------------------
(***************************************************************************)
(* PdoConfiguration for TLC: a chain of two drives, laid out as the EDS of *)
(* the drive family has it: a used and an unused RxPDO, a used TxPDO, and  *)
(* an unused one whose identifier does not depend on the node.             *)
(***************************************************************************)
EXTENDS PdoConfiguration, TLC

Cob(flags, base) == [flags |-> flags, base |-> base]
At(flags, offset, entries) ==
    [cob |-> Cob(flags, offset + 1), relative |-> FALSE,
     offset |-> Cob(flags, offset), entries |-> entries]
Fixed(flags, base) ==
    [cob |-> Cob(flags, base), relative |-> FALSE, offset |-> Cob({}, 0), entries |-> <<>>]

\* A summary without the metadata: the COB-IDs are rebased.
Rebased == {[node |-> 1,
             rpdo |-> <<At({}, 512, <<"controlword">>),
                        At({"invalid"}, 768, <<"target">>)>>,
             tpdo |-> <<At({"noRtr"}, 384, <<"statusword">>),
                        Fixed({"invalid"}, 1024)>>]}
TwoParams == <<"disableMode", "torqueSlope">>

\* The NVM has stale mappings, longer than the layout's, and enabled.
Stale(n) ==
    [c \in 1 .. 4 |-> [enabled |-> c < 4, base |-> 1536 + n, laid |-> FALSE, count |-> 3,
                       entries |-> <<"target", "statusword", "controlword">>]]
InNvm == [n \in Nodes |-> Stale(n)]
==============================================================================
