-------------------------------- MODULE PdoMap --------------------------------
(***************************************************************************)
(* The PDO layout that config::loadPdoMapFromSummary gives each drive of a *)
(* chain.  The summary describes one representative drive; every other     *)
(* drive gets the same objects on CAN identifiers of its own, in one of    *)
(* two ways: from per-channel metadata, or by shifting the representative's *)
(* identifiers.                                                            *)
(*                                                                         *)
(* A COB-ID is its flag bits and its 11-bit identifier.  Files, JSON       *)
(* numbers and object names are left out.                                  *)
(***************************************************************************)
EXTENDS Integers, Sequences

IdSpan == 2048      \* kCobIdBaseMask + 1
NodeSpan == 128     \* kCobIdNodeMask + 1
NodeIds == 1 .. NodeSpan - 1

\* "invalid" is bit 31, "noRtr" bit 30.
CobId == [flags : SUBSET {"invalid", "noRtr"}, base : 0 .. IdSpan - 1]

\* A channel as the summary has it: `relative` says that cob_id_node_relative
\* is set and cob_id_offset is there; `offset` is that field.
Channel(Objects) ==
    [cob : CobId, relative : BOOLEAN, offset : CobId, entries : Seq(Objects)]

active(c) == "invalid" \notin c.cob.flags

\* uint32 addition of a node id, as far as baseCobId() sees it.
Plus(cob, n) == [cob EXCEPT !.base = (@ + n) % IdSpan]

parseChannelForNode(c, n) ==
    [c EXCEPT !.cob = IF c.relative THEN Plus(c.offset, n) ELSE @]

\* Mutant: the whole identifier, not its low bits, is compared with the node id.
rebaseNodeRelativeCobId_Whole(cob, from, to) ==
    IF from = to \/ cob.base # from THEN cob
    ELSE [cob EXCEPT !.base = @ - from + to]

\* Only an identifier that ends in the representative's node id moves.
rebaseNodeRelativeCobId(cob, from, to) ==
    IF from = to \/ cob.base % NodeSpan # from THEN cob
    ELSE [cob EXCEPT !.base = @ - from + to]

\* The case in which rebasing throws.
RebaseThrows(cob, from, to) ==
    from # to /\ cob.base % NodeSpan = from /\ cob.base - from + to > IdSpan - 1

\* The channels of a layout are numbered: the drive's RxPDOs, then its TxPDOs.
Layout(summary) == summary.rpdo \o summary.tpdo

hasNodeRelativeCobIdMetadata(summary) ==
    \E c \in DOMAIN Layout(summary) : Layout(summary)[c].relative

ChannelForNode(c, summary, n) ==
    IF hasNodeRelativeCobIdMetadata(summary)
    THEN parseChannelForNode(c, n)
    ELSE [c EXCEPT !.cob = rebaseNodeRelativeCobId(@, summary.node, n)]

loadPdoMapFromSummary(summary, n) ==
    [c \in DOMAIN Layout(summary) |-> ChannelForNode(Layout(summary)[c], summary, n)]
-----------------------------------------------------------------------------
\* What the generator writes for a channel whose EDS identifier is $NODEID plus
\* a function code, with `node` as the representative.
NodeRelative(c, node) ==
    /\ c.offset.base % NodeSpan = 0
    /\ c.cob = Plus(c.offset, node)
==============================================================================
