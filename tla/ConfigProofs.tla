----------------------------- MODULE ConfigProofs -----------------------------
(***************************************************************************)
(* What a drive is configured with, for every summary and node.  PdoMap:   *)
(* rebasing stays in range, both formats of the summary agree, and no two  *)
(* channels of two drives share an identifier.  MotorConfig: resolving is  *)
(* idempotent, keeps what was set, and siblings match.  PdoConfiguration:  *)
(* one invariant relates each PDO, the mode and the parameters of a drive  *)
(* to the downloads that are left.                                         *)
(***************************************************************************)
EXTENDS PdoConfiguration, MotorConfig, TLAPS

(* A number is its quotient and its remainder by the number of node ids.   *)
LEMMA Division ==
    ASSUME NEW x \in Nat
    PROVE  /\ x \div NodeSpan \in Nat /\ x % NodeSpan \in 0 .. NodeSpan - 1
           /\ x = NodeSpan * (x \div NodeSpan) + (x % NodeSpan)
  BY SMT DEF NodeSpan

(* And it is so in one way only. *)
LEMMA Remainder ==
    ASSUME NEW q \in Nat, NEW r \in 0 .. NodeSpan - 1
    PROVE  /\ (NodeSpan * q + r) % NodeSpan = r
           /\ (NodeSpan * q + r) \div NodeSpan = q
  BY SMT DEF NodeSpan

(* An identifier of eleven bits stays one when its node id is exchanged.   *)
LEMMA Exchanged ==
    ASSUME NEW b \in Nat, b < IdSpan, NEW n \in NodeIds
    PROVE  /\ b - (b % NodeSpan) + n \in 0 .. IdSpan - 1
           /\ (b - (b % NodeSpan) + n) % NodeSpan = n
  <1> DEFINE q == b \div NodeSpan
  <1>1. q \in Nat /\ b = NodeSpan * q + (b % NodeSpan) /\ b % NodeSpan \in 0 .. NodeSpan - 1
    BY Division
  <1> HIDE DEF q
  <1>2. q <= 15
    BY <1>1, SMT DEF IdSpan, NodeSpan
  <1>3. b - (b % NodeSpan) + n = NodeSpan * q + n
    BY <1>1, SMT DEF NodeSpan, NodeIds
  <1>4. NodeSpan * q + n \in 0 .. IdSpan - 1
    BY <1>1, <1>2, SMT DEF IdSpan, NodeSpan, NodeIds
  <1>5. n \in 0 .. NodeSpan - 1
    BY SMT DEF NodeIds, NodeSpan
  <1>6. (NodeSpan * q + n) % NodeSpan = n
    BY <1>1, <1>5, Remainder
  <1>7. QED
    BY <1>3, <1>4, <1>6

LEMMA CobIdType ==
    ASSUME NEW cob \in CobId
    PROVE  cob.base \in Nat /\ cob.base < IdSpan /\ cob.base \in 0 .. IdSpan - 1
  <1>1. cob.base \in 0 .. IdSpan - 1
    BY DEF CobId
  <1>2. \A x \in 0 .. IdSpan - 1 : x \in Nat /\ x < IdSpan
    BY SMT DEF IdSpan
  <1>3. QED
    BY <1>1, <1>2

(* An identifier of eleven bits is not beyond them. *)
LEMMA NotBeyond ==
    ASSUME NEW x \in 0 .. IdSpan - 1
    PROVE  ~(x > IdSpan - 1)
  BY SMT DEF IdSpan

LEMMA ChannelType ==
    ASSUME NEW c \in Channel(Objects)
    PROVE  c.cob \in CobId /\ c.offset \in CobId
  BY DEF Channel

(***************************************************************************)
(* Rebasing never throws (PdoMap.cpp:133): no identifier leaves the eleven *)
(* bits when the representative's node id is exchanged for another one.    *)
(***************************************************************************)
THEOREM RebaseNeverThrows ==
    ASSUME NEW cob \in CobId, NEW from \in NodeIds, NEW to \in NodeIds
    PROVE  ~RebaseThrows(cob, from, to)
  <1>1. cob.base - (cob.base % NodeSpan) + to \in 0 .. IdSpan - 1
    BY CobIdType, Exchanged
  <1>2. SUFFICES ASSUME cob.base % NodeSpan = from
                 PROVE  ~(cob.base - from + to > IdSpan - 1)
    BY DEF RebaseThrows
  <1>3. cob.base - from + to \in 0 .. IdSpan - 1
    BY <1>1, <1>2
  <1>4. QED
    BY <1>3, NotBeyond

(* The identifier of a channel laid out relative to the node.              *)
LEMMA RelativeBase ==
    ASSUME NEW c \in Channel(Objects), NEW node \in NodeIds,
           NodeRelative(c, node), NEW n \in NodeIds
    PROVE  /\ Plus(c.offset, n) = [c.offset EXCEPT !.base = c.offset.base + n]
           /\ Plus(c.offset, n).base = c.offset.base + n
           /\ (c.offset.base + n) % NodeSpan = n
           /\ c.offset.base \in Nat
  <1> DEFINE b == c.offset.base
  <1>1. c.offset \in CobId /\ b \in Nat /\ b < IdSpan /\ b % NodeSpan = 0
    BY ChannelType, CobIdType DEF NodeRelative
  <1>2. b - (b % NodeSpan) + n \in 0 .. IdSpan - 1
        /\ (b - (b % NodeSpan) + n) % NodeSpan = n
    BY <1>1, Exchanged
  <1>3. b - (b % NodeSpan) + n = b + n
    BY <1>1, SMT DEF NodeIds, NodeSpan
  <1>4. b + n \in 0 .. IdSpan - 1 /\ (b + n) % NodeSpan = n
    BY <1>2, <1>3
  <1>5. \A x \in 0 .. IdSpan - 1 : x % IdSpan = x
    BY SMT DEF IdSpan
  <1>6. (b + n) % IdSpan = b + n
    BY <1>4, <1>5
  <1>7. Plus(c.offset, n) = [c.offset EXCEPT !.base = b + n]
    BY <1>6 DEF Plus
  <1>8. Plus(c.offset, n).base = b + n
    BY <1>1, <1>7 DEF CobId
  <1>9. QED
    BY <1>1, <1>4, <1>7, <1>8

(***************************************************************************)
(* The two formats of the summary agree: a channel that the generator laid *)
(* out relative to the node gets the same COB-ID, flags included, from its *)
(* metadata and from the shift of the representative's (PdoMap.cpp:64-70   *)
(* and 120-137).                                                           *)
(***************************************************************************)
THEOREM FormatsAgree ==
    ASSUME NEW c \in Channel(Objects), NEW node \in NodeIds,
           NodeRelative(c, node), NEW n \in NodeIds
    PROVE  rebaseNodeRelativeCobId(c.cob, node, n) = Plus(c.offset, n)
  <1>1. c.offset \in CobId /\ c.offset.base \in Nat
    BY ChannelType, CobIdType
  <1>2. c.cob = [c.offset EXCEPT !.base = c.offset.base + node]
        /\ (c.offset.base + node) % NodeSpan = node
    BY RelativeBase DEF NodeRelative
  <1>3. c.cob.base = c.offset.base + node /\ c.cob.base - node + n = c.offset.base + n
    BY <1>1, <1>2, SMT DEF CobId, NodeIds, NodeSpan
  <1>4. [c.cob EXCEPT !.base = c.cob.base - node + n]
        = [c.offset EXCEPT !.base = c.offset.base + n]
    BY <1>1, <1>2, <1>3 DEF CobId
  <1>5. Plus(c.offset, n) = [c.offset EXCEPT !.base = c.offset.base + n]
    BY RelativeBase
  <1>6. CASE node = n
    BY <1>2, <1>5, <1>6 DEF rebaseNodeRelativeCobId
  <1>7. CASE node # n
    BY <1>2, <1>3, <1>4, <1>5, <1>7 DEF rebaseNodeRelativeCobId
  <1>8. QED
    BY <1>6, <1>7

(***************************************************************************)
(* Two channels of a chain, of one drive or of two, get one identifier     *)
(* only if they are the same function code of the same drive.              *)
(***************************************************************************)
THEOREM IdentifiersDiffer ==
    ASSUME NEW c \in Channel(Objects), NEW d \in Channel(Objects),
           NEW node \in NodeIds, NodeRelative(c, node), NodeRelative(d, node),
           NEW m \in NodeIds, NEW n \in NodeIds,
           Plus(c.offset, m).base = Plus(d.offset, n).base
    PROVE  m = n /\ c.offset.base = d.offset.base
  <1>1. Plus(c.offset, m).base = c.offset.base + m /\ (c.offset.base + m) % NodeSpan = m
        /\ c.offset.base \in Nat
    BY RelativeBase
  <1>2. Plus(d.offset, n).base = d.offset.base + n /\ (d.offset.base + n) % NodeSpan = n
        /\ d.offset.base \in Nat
    BY RelativeBase
  <1>3. m = n
    BY <1>1, <1>2
  <1>4. c.offset.base + m = d.offset.base + m
    BY <1>1, <1>2, <1>3
  <1>5. QED
    BY <1>1, <1>2, <1>3, <1>4, SMT DEF NodeIds, NodeSpan

(***************************************************************************)
(* So it is for a chain loaded from a summary in either format.            *)
(***************************************************************************)
THEOREM ChainIdentifiersDiffer ==
    ASSUME NEW chain, chain.node \in NodeIds,
           NEW c \in Channel(Objects), NEW d \in Channel(Objects),
           NodeRelative(c, chain.node), NodeRelative(d, chain.node),
           hasNodeRelativeCobIdMetadata(chain) => c.relative /\ d.relative,
           NEW m \in NodeIds, NEW n \in NodeIds,
           ChannelForNode(c, chain, m).cob.base = ChannelForNode(d, chain, n).cob.base
    PROVE  m = n /\ c.offset.base = d.offset.base
  <1>1. ASSUME NEW e \in Channel(Objects), NodeRelative(e, chain.node), NEW k \in NodeIds,
               hasNodeRelativeCobIdMetadata(chain) => e.relative
        PROVE  ChannelForNode(e, chain, k).cob = Plus(e.offset, k)
    <2>1. rebaseNodeRelativeCobId(e.cob, chain.node, k) = Plus(e.offset, k)
      BY <1>1, FormatsAgree
    <2>2. QED
      BY <1>1, <2>1 DEF ChannelForNode, parseChannelForNode, Channel
  <1>2. Plus(c.offset, m).base = Plus(d.offset, n).base
    BY <1>1
  <1>3. QED
    BY <1>2, IdentifiersDiffer
-----------------------------------------------------------------------------
(***************************************************************************)
(* A resolved configuration is a configuration.                            *)
(***************************************************************************)
THEOREM ResolvedType ==
    ASSUME NEW config \in Config, NEW s, IsSummary(s)
    PROVE  resolveMotorConfig(config, s) \in Config
  <1>1. [f \in Fields |-> applyIfDefault(config.fields[f], f, s.runtime)] \in [Fields -> Values]
    BY DEF Config, IsSummary, Profile, applyIfDefault
  <1>2. QED
    BY <1>1 DEF Config, IsSummary, resolveMotorConfig

(***************************************************************************)
(* Resolving again changes nothing, so it does no harm that the            *)
(* application resolves what each MotorDrive had resolved (MotorConfig.hpp *)
(* 122: "Idempotent, so applying it more than once is harmless"), also     *)
(* where the profile's value is itself the default.                        *)
(***************************************************************************)
THEOREM Idempotent ==
    ASSUME NEW config \in Config, NEW s, IsSummary(s)
    PROVE  resolveMotorConfig(resolveMotorConfig(config, s), s)
           = resolveMotorConfig(config, s)
  <1> DEFINE once == resolveMotorConfig(config, s)
  <1>1. CASE ~s.readable
    BY <1>1 DEF resolveMotorConfig
  <1>2. CASE s.readable
    <2>1. once.fields = [f \in Fields |-> applyIfDefault(config.fields[f], f, s.runtime)]
          /\ once.bus = config.bus
          /\ once.sync = (IF s.sync = 0 THEN config.sync ELSE s.sync)
      BY <1>2 DEF resolveMotorConfig
    <2>2. \A f \in Fields :
              applyIfDefault(once.fields[f], f, s.runtime)
              = applyIfDefault(config.fields[f], f, s.runtime)
      BY <2>1 DEF applyIfDefault
    <2>3. (IF s.sync = 0 THEN once.sync ELSE s.sync) = once.sync
      BY <2>1
    <2>4. once = [sync |-> once.sync, bus |-> once.bus,
                  fields |-> [f \in Fields |-> applyIfDefault(config.fields[f], f, s.runtime)]]
      BY <1>2, <2>1 DEF resolveMotorConfig
    <2>5. resolveMotorConfig(once, s)
          = [sync |-> once.sync, bus |-> once.bus,
             fields |-> [f \in Fields |-> applyIfDefault(once.fields[f], f, s.runtime)]]
      BY <1>2, <2>3 DEF resolveMotorConfig
    <2>6. QED
      BY <2>2, <2>4, <2>5
  <1>3. QED
    BY <1>1, <1>2, IsSummary(s) DEF IsSummary

(***************************************************************************)
(* A value that the caller set to anything but the default is kept, and a  *)
(* field left alone takes the profile's value (MotorConfig.hpp:116-118).   *)
(***************************************************************************)
THEOREM ExplicitWins ==
    ASSUME NEW config \in Config, NEW s, IsSummary(s), s.readable, NEW f \in Fields
    PROVE  LET resolved == resolveMotorConfig(config, s).fields[f]
           IN  /\ config.fields[f] # Default[f] => resolved = config.fields[f]
               /\ config.fields[f] = Default[f] /\ f \in DOMAIN s.runtime
                  => resolved = s.runtime[f]
  BY DEF resolveMotorConfig, applyIfDefault

(***************************************************************************)
(* Drives of one summary that records a SYNC period never keep each other  *)
(* off the bus by their own (MotorDrive.cpp:17-18: "siblings resolved from *)
(* the same summary always match").  Without a recorded period the two     *)
(* numbers must agree as any other setting of the bus.                     *)
(***************************************************************************)
THEOREM SiblingsMatch ==
    ASSUME NEW a \in Config, NEW b \in Config, NEW s, IsSummary(s),
           s.readable, s.sync # 0, a.bus = b.bus
    PROVE  validateBusMatch(resolveMotorConfig(a, s), resolveMotorConfig(b, s))
  BY DEF resolveMotorConfig, validateBusMatch
-----------------------------------------------------------------------------
(* PdoConfiguration: the downloads.                                        *)

Whats == {"disable", "enable", "type", "count", "entry", "mode", "param", "save",
          "select"}
DownloadType ==
    [what : Whats, ch : Nat, value : Nat \cup (Nat \X Objects) \cup Modes \cup ToSet(Params)]
PdoParts == [Channels -> Seq(DownloadType)]

\* What is left of a part when k of its downloads are made.
Left(part, k) == SubSeq(part, k + 1, Len(part))

\* Making a download takes the first that is left.
LEMMA LeftSteps ==
    ASSUME NEW S, NEW part \in Seq(S), NEW k \in 0 .. Len(part)
    PROVE  /\ Left(part, 0) = part
           /\ Left(part, k) \in Seq(S)
           /\ Left(part, k) = <<>> <=> k = Len(part)
           /\ k < Len(part) => /\ Head(Left(part, k)) = part[k + 1]
                               /\ part[k + 1] \in S
                               /\ Tail(Left(part, k)) = Left(part, k + 1)
<1>1. Len(part) \in Nat /\ k \in Nat
  OBVIOUS
<1>2. Left(part, 0) = part
  BY <1>1 DEF Left
<1>3. Left(part, k) \in Seq(S)
  BY <1>1 DEF Left
<1>4. Len(Left(part, k)) = Len(part) - k
  BY <1>1 DEF Left
<1>5. Left(part, k) = <<>> <=> k = Len(part)
  BY <1>1, <1>3, <1>4
<1>6. ASSUME k < Len(part)
      PROVE  /\ Head(Left(part, k)) = part[k + 1]
             /\ part[k + 1] \in S
             /\ Tail(Left(part, k)) = Left(part, k + 1)
  <2>1. Left(part, k) # <<>> /\ k + 1 \in 1 .. Len(part)
    BY <1>1, <1>5, <1>6
  <2>2. Head(Left(part, k)) = part[k + 1] /\ part[k + 1] \in S
    BY <1>1, <1>6, <2>1 DEF Left
  <2>3. Tail(Left(part, k)) = Left(part, k + 1)
    BY <1>1, <1>6, <2>1 DEF Left
  <2>4. QED
    BY <2>2, <2>3
<1>7. QED
  BY <1>2, <1>3, <1>5, <1>6

\* What is in a concatenation, and where.
LEMMA Concatenated ==
    ASSUME NEW S, NEW a \in Seq(S), NEW b \in Seq(S)
    PROVE  /\ a \o b \in Seq(S) /\ Len(a \o b) = Len(a) + Len(b)
           /\ \A i \in 1 .. Len(a) : (a \o b)[i] = a[i]
           /\ \A i \in 1 .. Len(b) : (a \o b)[Len(a) + i] = b[i]
<1>1. Len(a) \in Nat /\ Len(b) \in Nat
  OBVIOUS
<1>2. a \o b \in Seq(S) /\ Len(a \o b) = Len(a) + Len(b)
  OBVIOUS
<1>3. ASSUME NEW i \in 1 .. Len(a)
      PROVE  (a \o b)[i] = a[i]
  BY <1>1
<1>4. ASSUME NEW i \in 1 .. Len(b)
      PROVE  (a \o b)[Len(a) + i] = b[i]
  BY <1>1
<1>5. QED
  BY <1>2, <1>3, <1>4

\* Both ways of laying out a channel give a COB-ID.
LEMMA RebasedType ==
    ASSUME NEW cob \in CobId, NEW from \in NodeIds, NEW to \in NodeIds
    PROVE  rebaseNodeRelativeCobId(cob, from, to) \in CobId
<1>1. CASE from = to \/ cob.base % NodeSpan # from
  BY <1>1 DEF rebaseNodeRelativeCobId
<1>2. CASE ~(from = to \/ cob.base % NodeSpan # from)
  <2>1. cob.base - from + to \in 0 .. IdSpan - 1
    BY <1>2, CobIdType, Exchanged
  <2>2. rebaseNodeRelativeCobId(cob, from, to) = [cob EXCEPT !.base = cob.base - from + to]
    BY <1>2 DEF rebaseNodeRelativeCobId
  <2>3. QED
    BY <2>1, <2>2 DEF CobId
<1>3. QED
  BY <1>1, <1>2

LEMMA ShiftedType ==
    ASSUME NEW cob \in CobId, NEW n \in NodeIds
    PROVE  Plus(cob, n) \in CobId
<1>1. cob.base + n \in Nat
  BY CobIdType DEF NodeIds, NodeSpan
<1>2. \A x \in Nat : x % IdSpan \in 0 .. IdSpan - 1
  BY SMT DEF IdSpan
<1>3. Plus(cob, n) = [cob EXCEPT !.base = (cob.base + n) % IdSpan]
  BY DEF Plus
<1>4. QED
  BY <1>1, <1>2, <1>3 DEF CobId

\* The map of a drive: its channels are those of the summary.
LEMMA MapType ==
    ASSUME summary \in Summaries, NEW n \in Nodes
    PROVE  /\ Len(Layout(summary)) \in Nat /\ Channels = 1 .. Len(Layout(summary))
           /\ Map(n) \in [Channels -> Channel(Objects)]
           /\ Factory[n] \in [Channels -> Pdo]
           /\ \A c \in Channels : Len(Map(n)[c].entries) <= Len(Factory[n][c].entries)
<1>1. /\ Layout(summary) \in Seq(Channel(Objects)) /\ n \in NodeIds /\ summary.node \in NodeIds
      /\ Factory[n] \in [Channels -> Pdo]
      /\ \A c \in Channels : Len(Layout(summary)[c].entries) <= Len(Factory[n][c].entries)
  <2>1. /\ summary.node \in NodeIds
        /\ summary.rpdo \in Seq(Channel(Objects)) /\ summary.tpdo \in Seq(Channel(Objects))
    BY ChainAssumption
  <2>2. Layout(summary) \in Seq(Channel(Objects))
    BY <2>1 DEF Layout
  <2>3. /\ Factory[n] \in [Channels -> Pdo]
        /\ \A c \in Channels : Len(Layout(summary)[c].entries) <= Len(Factory[n][c].entries)
    BY ChainAssumption DEF Channels
  <2>4. QED
    BY <2>1, <2>2, <2>3, PdoConfigurationAssumption
<1>2. Len(Layout(summary)) \in Nat /\ Channels = 1 .. Len(Layout(summary))
  BY <1>1 DEF Channels
<1>3. ASSUME NEW c \in Channels
      PROVE  /\ Map(n)[c] \in Channel(Objects)
             /\ Map(n)[c].entries = Layout(summary)[c].entries
  <2> DEFINE old == Layout(summary)[c]
             new == ChannelForNode(old, summary, n)
  <2>1. Map(n)[c] = new
    BY DEF Map, loadPdoMapFromSummary, Channels
  <2>2. old \in Channel(Objects)
    BY <1>1, <1>2
  <2>3. old.cob \in CobId /\ old.offset \in CobId
    BY <2>2, ChannelType
  <2>4. PICK cob \in CobId : new = [old EXCEPT !.cob = cob]
    <3>1. \/ new = [old EXCEPT !.cob = IF old.relative THEN Plus(old.offset, n) ELSE old.cob]
          \/ new = [old EXCEPT !.cob = rebaseNodeRelativeCobId(old.cob, summary.node, n)]
      BY DEF ChannelForNode, parseChannelForNode
    <3>2. /\ Plus(old.offset, n) \in CobId
          /\ rebaseNodeRelativeCobId(old.cob, summary.node, n) \in CobId
      BY <1>1, <2>3, RebasedType, ShiftedType
    <3>3. QED
      BY <2>3, <3>1, <3>2
  <2> HIDE DEF old, new
  <2>5. QED
    BY <2>1, <2>2, <2>4 DEF Channel, old
<1>4. Map(n) \in [Channels -> Channel(Objects)]
  <2>1. DOMAIN Map(n) = Channels /\ Map(n) = [c \in Channels |-> Map(n)[c]]
    BY DEF Map, loadPdoMapFromSummary, Channels
  <2>2. QED
    BY <1>3, <2>1
<1>5. QED
  BY <1>1, <1>2, <1>3, <1>4

\* The downloads that program a channel, one by one.
LEMMA ProgramIs ==
    ASSUME summary \in Summaries, NEW n \in Nodes, NEW c \in Channels
    PROVE  LET objects == Map(n)[c].entries
           IN  /\ Len(objects) \in Nat /\ objects \in Seq(Objects)
               /\ DOMAIN objects = 1 .. Len(objects)
               /\ program(n, c) \in Seq(DownloadType)
               /\ Len(program(n, c)) = Len(objects) + 5
               /\ program(n, c)[1] = Download("disable", c, 0)
               /\ program(n, c)[2] = Download("type", c, 0)
               /\ program(n, c)[3] = Download("count", c, 0)
               /\ \A i \in 1 .. Len(objects) :
                      program(n, c)[i + 3] = Download("entry", c, <<i, objects[i]>>)
               /\ program(n, c)[Len(objects) + 4] = Download("count", c, Len(objects))
               /\ program(n, c)[Len(objects) + 5] = Download("enable", c, 0)
<1> DEFINE objects == Map(n)[c].entries
           L == Len(objects)
           first == Disable(c) \o <<Download("type", c, 0), Download("count", c, 0)>>
           entries == [i \in DOMAIN objects |-> Download("entry", c, <<i, objects[i]>>)]
           last == <<Download("count", c, L), Download("enable", c, 0)>>
<1>1. objects \in Seq(Objects) /\ c \in Nat
  BY MapType DEF Channel
<1>2. L \in Nat /\ DOMAIN objects = 1 .. L /\ \A i \in 1 .. L : objects[i] \in Objects
  BY <1>1
<1>3. program(n, c) = first \o entries \o last
  BY DEF program
<1> HIDE DEF objects, L
<1>4. \A w \in Whats, v \in Nat \cup (Nat \X Objects) : Download(w, c, v) \in DownloadType
  BY <1>1 DEF Download, DownloadType
<1>5. /\ first \in Seq(DownloadType) /\ Len(first) = 3
      /\ first[1] = Download("disable", c, 0) /\ first[2] = Download("type", c, 0)
      /\ first[3] = Download("count", c, 0)
  <2> DEFINE a == Disable(c)
             b == <<Download("type", c, 0), Download("count", c, 0)>>
  <2>1. /\ Download("disable", c, 0) \in DownloadType /\ Download("type", c, 0) \in DownloadType
        /\ Download("count", c, 0) \in DownloadType
    BY <1>4 DEF Whats
  <2>2. /\ a \in Seq(DownloadType) /\ Len(a) = 1 /\ a[1] = Download("disable", c, 0)
        /\ b \in Seq(DownloadType) /\ Len(b) = 2 /\ b[1] = Download("type", c, 0)
        /\ b[2] = Download("count", c, 0)
    BY <2>1 DEF Disable
  <2> HIDE DEF a, b
  <2>3. /\ a \o b \in Seq(DownloadType) /\ Len(a \o b) = Len(a) + Len(b)
        /\ \A i \in 1 .. Len(a) : (a \o b)[i] = a[i]
        /\ \A i \in 1 .. Len(b) : (a \o b)[Len(a) + i] = b[i]
    <3>1. a \in Seq(DownloadType) /\ b \in Seq(DownloadType)
      BY <2>2
    <3>2. QED
      BY <3>1, Concatenated
  <2>4. (a \o b)[1] = a[1] /\ (a \o b)[1 + 1] = b[1] /\ (a \o b)[1 + 2] = b[2]
    BY <2>2, <2>3
  <2>5. QED
    BY <2>2, <2>3, <2>4 DEF a, b
<1>6. /\ entries \in Seq(DownloadType) /\ Len(entries) = L
      /\ \A i \in 1 .. L : entries[i] = Download("entry", c, <<i, objects[i]>>)
  <2>1. ASSUME NEW i \in 1 .. L
        PROVE  Download("entry", c, <<i, objects[i]>>) \in DownloadType
    <3>1. <<i, objects[i]>> \in Nat \X Objects
      BY <1>2
    <3>2. QED
      BY <1>4, <3>1 DEF Whats
  <2>2. QED
    BY <1>2, <2>1
<1>7. /\ last \in Seq(DownloadType) /\ Len(last) = 2
      /\ last[1] = Download("count", c, L) /\ last[2] = Download("enable", c, 0)
  <2>1. Download("count", c, L) \in DownloadType /\ Download("enable", c, 0) \in DownloadType
    BY <1>2, <1>4 DEF Whats
  <2>2. QED
    BY <2>1
<1> HIDE DEF first, entries, last
<1>8. /\ program(n, c) \in Seq(DownloadType) /\ Len(program(n, c)) = L + 5
      /\ \A i \in 1 .. 3 : program(n, c)[i] = first[i]
      /\ \A i \in 1 .. L : program(n, c)[i + 3] = entries[i]
      /\ program(n, c)[L + 4] = last[1] /\ program(n, c)[L + 5] = last[2]
  <2> DEFINE both == first \o entries
  <2>1. /\ both \in Seq(DownloadType) /\ Len(both) = 3 + L
        /\ \A i \in 1 .. 3 : both[i] = first[i]
        /\ \A i \in 1 .. L : both[3 + i] = entries[i]
    <3>1. first \in Seq(DownloadType) /\ entries \in Seq(DownloadType)
      BY <1>5, <1>6
    <3>2. /\ both \in Seq(DownloadType) /\ Len(both) = Len(first) + Len(entries)
          /\ \A i \in 1 .. Len(first) : both[i] = first[i]
          /\ \A i \in 1 .. Len(entries) : both[Len(first) + i] = entries[i]
      BY <3>1, Concatenated
    <3>3. Len(first) = 3 /\ Len(entries) = L
      BY <1>5, <1>6
    <3> HIDE DEF both
    <3>4. QED
      BY <3>2, <3>3
  <2> HIDE DEF both
  <2>2. /\ both \o last \in Seq(DownloadType) /\ Len(both \o last) = (3 + L) + 2
        /\ \A i \in 1 .. 3 + L : (both \o last)[i] = both[i]
        /\ \A i \in 1 .. 2 : (both \o last)[(3 + L) + i] = last[i]
    <3>1. both \in Seq(DownloadType) /\ last \in Seq(DownloadType)
      BY <1>7, <2>1
    <3>2. /\ both \o last \in Seq(DownloadType)
          /\ Len(both \o last) = Len(both) + Len(last)
          /\ \A i \in 1 .. Len(both) : (both \o last)[i] = both[i]
          /\ \A i \in 1 .. Len(last) : (both \o last)[Len(both) + i] = last[i]
      BY <3>1, Concatenated
    <3>3. Len(both) = 3 + L /\ Len(last) = 2
      BY <1>7, <2>1
    <3>4. QED
      BY <3>2, <3>3
  <2>3. program(n, c) = both \o last
    BY <1>3 DEF both
  <2>4. \A i \in 1 .. 3 : i \in 1 .. 3 + L
    BY <1>2
  <2>5. \A i \in 1 .. L : 3 + i \in 1 .. 3 + L /\ 3 + i = i + 3
    BY <1>2
  <2>6. (3 + L) + 1 = L + 4 /\ (3 + L) + 2 = L + 5
    BY <1>2
  <2> HIDE DEF both
  <2>7. ASSUME NEW i \in 1 .. 3
        PROVE  program(n, c)[i] = first[i]
    BY <2>1, <2>2, <2>3, <2>4
  <2>8. ASSUME NEW i \in 1 .. L
        PROVE  program(n, c)[i + 3] = entries[i]
    <3>1. both[3 + i] = entries[i]
      BY <2>1
    <3>2. program(n, c)[3 + i] = both[3 + i]
      BY <2>2, <2>3, <2>5
    <3>3. QED
      BY <2>5, <3>1, <3>2
  <2>9. program(n, c)[(3 + L) + 1] = last[1] /\ program(n, c)[(3 + L) + 2] = last[2]
    <3>1. 1 \in 1 .. 2 /\ 2 \in 1 .. 2
      OBVIOUS
    <3>2. QED
      BY <2>2, <2>3, <3>1
  <2>10. program(n, c) \in Seq(DownloadType) /\ Len(program(n, c)) = L + 5
    BY <1>2, <2>2, <2>3
  <2>11. QED
    BY <2>6, <2>7, <2>8, <2>9, <2>10
<1>9. QED
  BY <1>1, <1>2, <1>5, <1>6, <1>7, <1>8 DEF objects, L

\* The part of a channel.
LEMMA PartIs ==
    ASSUME summary \in Summaries, NEW n \in Nodes, NEW c \in Channels
    PROVE  /\ configurePdos(n)[c] \in Seq(DownloadType)
           /\ Used(n, c) => configurePdos(n)[c] = program(n, c)
           /\ ~Used(n, c) /\ isRpdo(c) =>
                  /\ Len(configurePdos(n)[c]) = 1
                  /\ configurePdos(n)[c][1] = Download("disable", c, 0)
           /\ ~Used(n, c) /\ ~isRpdo(c) => Len(configurePdos(n)[c]) = 0
<1>1. c \in Nat
  BY MapType
<1>2. Download("disable", c, 0) \in DownloadType
  BY <1>1 DEF Download, DownloadType, Whats
<1>3. configurePdos(n)[c] = IF Used(n, c) THEN program(n, c)
                            ELSE IF isRpdo(c) THEN Disable(c) ELSE <<>>
  BY DEF configurePdos
<1>4. /\ Disable(c) \in Seq(DownloadType) /\ Len(Disable(c)) = 1
      /\ Disable(c)[1] = Download("disable", c, 0)
  BY <1>2 DEF Disable
<1>5. <<>> \in Seq(DownloadType) /\ Len(<<>>) = 0
  OBVIOUS
<1>6. QED
  BY <1>3, <1>4, <1>5, ProgramIs

\* The parts after the channels'.
ParamPart == Len(Layout(summary)) + 2

\* Each parameter in turn, and then, if asked for, the save.
LEMMA ParametersAre ==
    ASSUME NEW n \in Nodes
    PROVE  LET part == configureProfileParameters(n)
           IN  /\ part \in Seq(DownloadType)
               /\ Len(Params) \in Nat /\ Params \in Seq(ToSet(Params))
               /\ Len(part) = IF SaveParams THEN Len(Params) + 1 ELSE Len(Params)
               /\ \A i \in 1 .. Len(Params) : part[i] = Download("param", 0, Params[i])
               /\ SaveParams => part[Len(Params) + 1] = Download("save", 0, 0)
<1> DEFINE P == Len(Params)
           written == [i \in DOMAIN Params |-> Download("param", 0, Params[i])]
           stored == IF SaveParams THEN <<Download("save", 0, 0)>> ELSE <<>>
<1>1. /\ Params \in Seq(ToSet(Params)) /\ P \in Nat /\ DOMAIN Params = 1 .. P
      /\ \A i \in 1 .. P : Params[i] \in ToSet(Params)
  BY PdoConfigurationAssumption
<1>2. /\ written \in Seq(DownloadType) /\ Len(written) = P
      /\ \A i \in 1 .. P : written[i] = Download("param", 0, Params[i])
  <2>1. \A i \in 1 .. P : Download("param", 0, Params[i]) \in DownloadType
    BY <1>1 DEF Download, DownloadType, Whats
  <2>2. QED
    BY <1>1, <2>1
<1>3. /\ stored \in Seq(DownloadType) /\ Len(stored) = IF SaveParams THEN 1 ELSE 0
      /\ SaveParams => stored[1] = Download("save", 0, 0)
  <2>1. Download("save", 0, 0) \in DownloadType
    BY DEF Download, DownloadType, Whats
  <2>2. CASE SaveParams
    BY <2>1, <2>2
  <2>3. CASE ~SaveParams
    BY <2>3
  <2>4. QED
    BY <2>2, <2>3
<1>4. configureProfileParameters(n) = written \o stored
  BY DEF configureProfileParameters
<1> DEFINE part == configureProfileParameters(n)
<1> HIDE DEF written, stored, part
<1>5. /\ part \in Seq(DownloadType) /\ Len(part) = Len(written) + Len(stored)
      /\ \A i \in 1 .. Len(written) : part[i] = written[i]
      /\ \A i \in 1 .. Len(stored) : part[Len(written) + i] = stored[i]
  <2>1. written \in Seq(DownloadType) /\ stored \in Seq(DownloadType)
    BY <1>2, <1>3
  <2>2. part = written \o stored
    BY <1>4 DEF part
  <2>3. QED
    BY <2>1, <2>2, Concatenated
<1>6. Len(part) = IF SaveParams THEN P + 1 ELSE P
  BY <1>1, <1>2, <1>3, <1>5
<1>7. \A i \in 1 .. P : part[i] = Download("param", 0, Params[i])
  BY <1>2, <1>5
<1>8. SaveParams => part[P + 1] = Download("save", 0, 0)
  <2>1. SaveParams => 1 \in 1 .. Len(stored)
    BY <1>3
  <2>2. QED
    BY <1>2, <1>3, <1>5, <2>1
<1>9. QED
  BY <1>1, <1>5, <1>6, <1>7, <1>8 DEF part

\* The parts of a configuration: its channels, the mode, the parameters.
LEMMA ConfigurationIs ==
    ASSUME summary \in Summaries, NEW n \in Nodes
    PROVE  /\ Configuration(n) \in Seq(Seq(DownloadType))
           /\ DOMAIN Configuration(n) = 1 .. ParamPart
           /\ \A c \in Channels : Configuration(n)[c] = configurePdos(n)[c]
           /\ Configuration(n)[ModePart] = ToSelect
           /\ Configuration(n)[ParamPart] = configureProfileParameters(n)
<1> DEFINE N == Len(Layout(summary))
           S == Seq(DownloadType)
           pdos == configurePdos(n)
           rest == <<ToSelect, configureProfileParameters(n)>>
<1>1. N \in Nat /\ Channels = 1 .. N
  BY MapType
<1>2. pdos \in Seq(S) /\ Len(pdos) = N
  <2>1. \A c \in Channels : pdos[c] \in S
    BY PartIs
  <2>2. pdos = [c \in 1 .. N |-> pdos[c]]
    BY <1>1 DEF configurePdos
  <2> HIDE DEF pdos, S
  <2>3. QED
    BY <1>1, <2>1, <2>2
<1>3. /\ rest \in Seq(S) /\ Len(rest) = 2 /\ rest[1] = ToSelect
      /\ rest[2] = configureProfileParameters(n)
  <2>1. configureProfileParameters(n) \in S
    BY ParametersAre
  <2>2. ToSelect \in S
    BY DEF ToSelect, Download, DownloadType, Whats
  <2> HIDE DEF S
  <2>3. QED
    BY <2>1, <2>2
<1>4. Configuration(n) = pdos \o rest
  BY DEF Configuration
<1> HIDE DEF pdos, rest, S, N
<1>5. /\ Configuration(n) \in Seq(S) /\ Len(Configuration(n)) = N + 2
      /\ \A c \in 1 .. N : Configuration(n)[c] = pdos[c]
      /\ Configuration(n)[N + 1] = rest[1] /\ Configuration(n)[N + 2] = rest[2]
  <2>1. /\ pdos \o rest \in Seq(S) /\ Len(pdos \o rest) = N + 2
        /\ \A i \in 1 .. N : (pdos \o rest)[i] = pdos[i]
        /\ \A i \in 1 .. 2 : (pdos \o rest)[N + i] = rest[i]
    <3>1. pdos \in Seq(S) /\ rest \in Seq(S)
      BY <1>2, <1>3
    <3>2. /\ pdos \o rest \in Seq(S) /\ Len(pdos \o rest) = Len(pdos) + Len(rest)
          /\ \A i \in 1 .. Len(pdos) : (pdos \o rest)[i] = pdos[i]
          /\ \A i \in 1 .. Len(rest) : (pdos \o rest)[Len(pdos) + i] = rest[i]
      BY <3>1, Concatenated
    <3>3. Len(pdos) = N /\ Len(rest) = 2
      BY <1>2, <1>3
    <3>4. QED
      BY <3>2, <3>3
  <2>2. 1 \in 1 .. 2 /\ 2 \in 1 .. 2
    OBVIOUS
  <2>3. /\ (pdos \o rest)[N + 1] = rest[1] /\ (pdos \o rest)[N + 2] = rest[2]
    BY <2>1, <2>2
  <2>4. QED
    BY <1>4, <2>1, <2>3
<1>6. DOMAIN Configuration(n) = 1 .. N + 2
  BY <1>5
<1>7. QED
  BY <1>1, <1>3, <1>5, <1>6 DEF ModePart, ParamPart, N, S, pdos
-----------------------------------------------------------------------------
(* PdoConfiguration: how far a PDO is.                                     *)

\* What a channel is to map, and its part of the downloads.
Objs(n, c) == Map(n)[c].entries
Part(n, c) == configurePdos(n)[c]

\* What k downloads of its part make of PDO c, and what each of them may rely on.
Stage(p, n, c, k) ==
    /\ p \in Pdo /\ Len(p.entries) = Len(Factory[n][c].entries)
    /\ k = 0 => p = Factory[n][c]
    /\ k > 0 => p.base = Map(n)[c].cob.base
    /\ (k > 0 /\ p.enabled) => (Used(n, c) /\ k = Len(Objs(n, c)) + 5)
    /\ Used(n, c) =>
           /\ k > 1 => p.laid
           /\ k > Len(Objs(n, c)) + 3 => p.count = Len(Objs(n, c))
           /\ \A i \in 1 .. Len(Objs(n, c)) : k > i + 2 => p.entries[i] = Objs(n, c)[i]
           /\ k = Len(Objs(n, c)) + 5 => p.enabled

\* The NVM's PDO is at the first stage.
LEMMA StageStarts ==
    ASSUME summary \in Summaries, NEW n \in Nodes, NEW c \in Channels
    PROVE  Stage(Factory[n][c], n, c, 0)
<1>1. Factory[n][c] \in Pdo /\ Len(Objs(n, c)) \in Nat
  BY MapType, ProgramIs DEF Objs
<1>2. QED
  BY <1>1 DEF Stage

\* What downloads do to a PDO leaves it one.
LEMMA PdoFields ==
    ASSUME NEW p \in Pdo
    PROVE  /\ p.enabled \in BOOLEAN /\ p.base \in 0 .. IdSpan - 1 /\ p.laid \in BOOLEAN
           /\ p.count \in Nat /\ p.entries \in Seq(Objects)
           /\ \A e \in BOOLEAN, b \in 0 .. IdSpan - 1 :
                  [p EXCEPT !.enabled = e, !.base = b] \in Pdo
           /\ [p EXCEPT !.laid = TRUE] \in Pdo
           /\ \A v \in Nat : [p EXCEPT !.count = v] \in Pdo
           /\ \A i \in 1 .. Len(p.entries), o \in Objects :
                  [p EXCEPT !.entries[i] = o] \in Pdo
<1>1. /\ p.enabled \in BOOLEAN /\ p.base \in 0 .. IdSpan - 1 /\ p.laid \in BOOLEAN
      /\ p.count \in Nat /\ p.entries \in Seq(Objects)
  BY DEF Pdo
<1>2. ASSUME NEW e \in BOOLEAN, NEW b \in 0 .. IdSpan - 1
      PROVE  [p EXCEPT !.enabled = e, !.base = b] \in Pdo
  BY DEF Pdo
<1>3. [p EXCEPT !.laid = TRUE] \in Pdo
  BY DEF Pdo
<1>4. ASSUME NEW v \in Nat
      PROVE  [p EXCEPT !.count = v] \in Pdo
  BY DEF Pdo
<1>5. ASSUME NEW i \in 1 .. Len(p.entries), NEW o \in Objects
      PROVE  [p EXCEPT !.entries[i] = o] \in Pdo
  <2>1. [p.entries EXCEPT ![i] = o] \in Seq(Objects)
    BY <1>1
  <2> DEFINE es == [p.entries EXCEPT ![i] = o]
  <2>2. [p EXCEPT !.entries[i] = o] = [p EXCEPT !.entries = es]
    BY DEF Pdo
  <2> HIDE DEF es
  <2>3. es \in Seq(Objects)
    BY <2>1 DEF es
  <2>4. QED
    BY <2>2, <2>3 DEF Pdo
<1>6. QED
  BY <1>1, <1>2, <1>3, <1>4, <1>5

\* The next download takes a PDO from one stage to the next.
LEMMA StageSteps ==
    ASSUME summary \in Summaries, NEW n \in Nodes, NEW c \in Channels,
           NEW k \in Nat, k < Len(Part(n, c)), NEW p, Stage(p, n, c, k)
    PROVE  LET d == Part(n, c)[k + 1]
           IN  /\ d.what \in {"disable", "type", "count", "entry", "enable"} /\ d.ch = c
               /\ Stage(PdoAfter(p, d, Map(n)[c].cob.base), n, c, k + 1)
<1> DEFINE objects == Objs(n, c)
           L == Len(objects)
           base == Map(n)[c].cob.base
           d == Part(n, c)[k + 1]
           q == PdoAfter(p, d, base)
<1> SUFFICES /\ d.what \in {"disable", "type", "count", "entry", "enable"} /\ d.ch = c
             /\ Stage(q, n, c, k + 1)
  OBVIOUS
<1>1. /\ L \in Nat /\ objects \in Seq(Objects)
      /\ base \in 0 .. IdSpan - 1
      /\ L <= Len(Factory[n][c].entries)
  <2>1. Map(n)[c] \in Channel(Objects) /\ L <= Len(Factory[n][c].entries)
    BY MapType DEF Objs
  <2>2. Map(n)[c].cob \in CobId
    BY <2>1, ChannelType
  <2>3. QED
    BY <2>1, <2>2, CobIdType, ProgramIs DEF Objs
<1>2. /\ p \in Pdo /\ Len(p.entries) = Len(Factory[n][c].entries)
      /\ p.entries \in Seq(Objects)
  BY PdoFields DEF Stage
<1>3. CASE ~Used(n, c)
  <2>1. k = 0 /\ d = Download("disable", c, 0)
    <3>1. /\ isRpdo(c)
          /\ Len(Part(n, c)) = 1 /\ Part(n, c)[1] = Download("disable", c, 0)
      <4>1. CASE isRpdo(c)
        BY <1>3, <4>1, PartIs DEF Part
      <4>2. CASE ~isRpdo(c)
        <5>1. Len(Part(n, c)) = 0
          BY <1>3, <4>2, PartIs DEF Part
        <5>2. QED
          BY <5>1
      <4>3. QED
        BY <4>1, <4>2
    <3>2. k = 0
      BY <3>1
    <3>3. QED
      BY <3>1, <3>2
  <2>2. q = [p EXCEPT !.enabled = FALSE, !.base = base]
    BY <2>1 DEF PdoAfter, Download
  <2>3. q \in Pdo
    <3>1. \A e \in BOOLEAN, b \in 0 .. IdSpan - 1 : [p EXCEPT !.enabled = e, !.base = b] \in Pdo
      BY <1>2, PdoFields
    <3>2. QED
      BY <1>1, <2>2, <3>1
  <2>4. q.enabled = FALSE /\ q.base = base /\ q.entries = p.entries
    BY <1>2, <2>2 DEF Pdo
  <2>5. Stage(q, n, c, k + 1)
    BY <1>1, <1>2, <1>3, <2>1, <2>3, <2>4 DEF Stage
  <2>6. QED
    BY <2>1, <2>5 DEF Download
<1>4. CASE Used(n, c)
  <2> DEFINE prog == program(n, c)
  <2>1. Part(n, c) = prog
    BY <1>4, PartIs DEF Part
  <2>2. /\ Len(prog) = L + 5
        /\ prog[1] = Download("disable", c, 0) /\ prog[2] = Download("type", c, 0)
        /\ prog[3] = Download("count", c, 0)
        /\ \A i \in 1 .. L : prog[i + 3] = Download("entry", c, <<i, objects[i]>>)
        /\ prog[L + 4] = Download("count", c, L) /\ prog[L + 5] = Download("enable", c, 0)
    BY ProgramIs DEF Objs
  <2>3. k < L + 5 /\ d = prog[k + 1]
    BY <2>1, <2>2
  <2>4. /\ k = 0 => p = Factory[n][c]
        /\ k > 0 => p.base = base
        /\ (k > 0 /\ p.enabled) => k = L + 5
        /\ k > 1 => p.laid
        /\ k > L + 3 => p.count = L
        /\ \A i \in 1 .. L : k > i + 2 => p.entries[i] = objects[i]
    BY <1>4 DEF Stage
  <2>5. ASSUME q \in Pdo, Len(q.entries) = Len(p.entries), q.base = base,
               q.enabled => k + 1 = L + 5, k + 1 > 1 => q.laid,
               k + 1 > L + 3 => q.count = L,
               \A i \in 1 .. L : k + 1 > i + 2 => q.entries[i] = objects[i],
               k + 1 = L + 5 => q.enabled
        PROVE  Stage(q, n, c, k + 1)
    <3> HIDE DEF q
    <3>1. QED
      BY <1>2, <1>4, <2>5 DEF Stage
  <2> HIDE DEF objects, L, base, d, prog
  <2>6. CASE k = 0
    <3>1. d = Download("disable", c, 0)
      BY <2>2, <2>3, <2>6
    <3>2. q = [p EXCEPT !.enabled = FALSE, !.base = base]
      BY <3>1 DEF PdoAfter, Download
    <3>3. q \in Pdo
      <4>1. \A e \in BOOLEAN, b \in 0 .. IdSpan - 1 :
                [p EXCEPT !.enabled = e, !.base = b] \in Pdo
        BY <1>2, PdoFields
      <4>2. QED
        BY <1>1, <3>2, <4>1
    <3>4. q.enabled = FALSE /\ q.base = base /\ q.entries = p.entries
      BY <1>2, <3>2 DEF Pdo
    <3> HIDE DEF q
    <3>5. Stage(q, n, c, k + 1)
      BY <1>1, <2>5, <2>6, <3>3, <3>4
    <3>6. QED
      BY <3>1, <3>5 DEF Download
  <2>7. CASE k = 1
    <3>1. d = Download("type", c, 0)
      BY <2>2, <2>3, <2>7
    <3>2. q = [p EXCEPT !.laid = TRUE]
      BY <3>1 DEF PdoAfter, Download
    <3>3. q \in Pdo
      BY <1>2, <3>2, PdoFields
    <3>4. q.laid /\ q.base = p.base /\ q.entries = p.entries /\ q.enabled = p.enabled
      BY <1>2, <3>2 DEF Pdo
    <3> HIDE DEF q
    <3>5. Stage(q, n, c, k + 1)
      BY <1>1, <2>4, <2>5, <2>7, <3>3, <3>4
    <3>6. QED
      BY <3>1, <3>5 DEF Download
  <2>8. CASE k = 2
    <3>1. d = Download("count", c, 0)
      BY <2>2, <2>3, <2>8
    <3>2. q = [p EXCEPT !.count = 0]
      BY <3>1 DEF PdoAfter, Download
    <3>3. q \in Pdo
      <4>1. \A v \in Nat : [p EXCEPT !.count = v] \in Pdo
        BY <1>2, PdoFields
      <4>2. QED
        BY <3>2, <4>1
    <3>4. /\ q.laid = p.laid /\ q.base = p.base /\ q.entries = p.entries
          /\ q.enabled = p.enabled /\ q.count = 0
      BY <1>2, <3>2 DEF Pdo
    <3> HIDE DEF q
    <3>5. Stage(q, n, c, k + 1)
      BY <1>1, <2>4, <2>5, <2>8, <3>3, <3>4
    <3>6. QED
      BY <3>1, <3>5 DEF Download
  <2>9. CASE k > 2 /\ k < L + 3
    <3> DEFINE e == k - 2
    <3>1. e \in 1 .. L /\ e + 3 = k + 1
      BY <1>1, <2>9
    <3>2. d = Download("entry", c, <<e, objects[e]>>)
      BY <2>2, <2>3, <3>1
    <3>3. objects[e] \in Objects /\ e \in 1 .. Len(p.entries)
      BY <1>1, <1>2, <3>1 DEF L
    <3> HIDE DEF e
    <3>4. q = [p EXCEPT !.entries[e] = objects[e]]
      BY <3>2 DEF PdoAfter, Download
    <3>5. q \in Pdo
      <4>1. \A i \in 1 .. Len(p.entries), o \in Objects : [p EXCEPT !.entries[i] = o] \in Pdo
        BY <1>2, PdoFields
      <4>2. QED
        BY <3>3, <3>4, <4>1
    <3>6. /\ q.laid = p.laid /\ q.base = p.base /\ q.enabled = p.enabled
          /\ q.entries = [p.entries EXCEPT ![e] = objects[e]]
      BY <1>2, <3>4 DEF Pdo
    <3> HIDE DEF q
    <3>7. Len(q.entries) = Len(p.entries)
      BY <1>2, <3>3, <3>6
    <3>8. \A i \in 1 .. L : k + 1 > i + 2 => q.entries[i] = objects[i]
      BY <1>1, <1>2, <2>4, <3>1, <3>3, <3>6
    <3>9. Stage(q, n, c, k + 1)
      BY <1>1, <2>4, <2>5, <2>9, <3>5, <3>6, <3>7, <3>8
    <3>10. QED
      BY <3>2, <3>9 DEF Download
  <2>10. CASE k = L + 3
    <3>1. d = Download("count", c, L)
      BY <1>1, <2>2, <2>3, <2>10
    <3>2. q = [p EXCEPT !.count = L]
      BY <3>1 DEF PdoAfter, Download
    <3>3. q \in Pdo
      <4>1. \A v \in Nat : [p EXCEPT !.count = v] \in Pdo
        BY <1>2, PdoFields
      <4>2. QED
        BY <1>1, <3>2, <4>1
    <3>4. /\ q.laid = p.laid /\ q.base = p.base /\ q.entries = p.entries
          /\ q.enabled = p.enabled /\ q.count = L
      BY <1>2, <3>2 DEF Pdo
    <3> HIDE DEF q
    <3>5. Stage(q, n, c, k + 1)
      BY <1>1, <2>4, <2>5, <2>10, <3>3, <3>4
    <3>6. QED
      BY <3>1, <3>5 DEF Download
  <2>11. CASE k = L + 4
    <3>1. d = Download("enable", c, 0)
      BY <1>1, <2>2, <2>3, <2>11
    <3>2. q = [p EXCEPT !.enabled = TRUE, !.base = base]
      BY <3>1 DEF PdoAfter, Download
    <3>3. q \in Pdo
      <4>1. \A e \in BOOLEAN, b \in 0 .. IdSpan - 1 :
                [p EXCEPT !.enabled = e, !.base = b] \in Pdo
        BY <1>2, PdoFields
      <4>2. QED
        BY <1>1, <3>2, <4>1
    <3>4. /\ q.laid = p.laid /\ q.base = base /\ q.entries = p.entries
          /\ q.enabled = TRUE /\ q.count = p.count
      BY <1>2, <3>2 DEF Pdo
    <3> HIDE DEF q
    <3>5. Stage(q, n, c, k + 1)
      BY <1>1, <2>4, <2>5, <2>11, <3>3, <3>4
    <3>6. QED
      BY <3>1, <3>5 DEF Download
  <2>12. QED
    BY <1>1, <2>3, <2>6, <2>7, <2>8, <2>9, <2>10, <2>11 DEF objects, L, base, d
<1>5. QED
  BY <1>3, <1>4

\* A PDO that has been through its whole part is as the layout has it.
LEMMA StageEnds ==
    ASSUME summary \in Summaries, NEW n \in Nodes, NEW c \in Channels, NEW p,
           Used(n, c), Stage(p, n, c, Len(Objs(n, c)) + 5)
    PROVE  /\ p.enabled /\ p.laid /\ p.base = Map(n)[c].cob.base
           /\ Mapped(p) = Map(n)[c].entries
<1> DEFINE objects == Objs(n, c)
           L == Len(objects)
<1>1. L \in Nat /\ objects \in Seq(Objects) /\ L <= Len(Factory[n][c].entries)
  BY MapType, ProgramIs DEF Objs
<1>2. p \in Pdo /\ p.entries \in Seq(Objects) /\ L <= Len(p.entries)
  BY <1>1, PdoFields DEF Stage
<1>3. /\ p.base = Map(n)[c].cob.base /\ p.laid /\ p.count = L /\ p.enabled
      /\ \A i \in 1 .. L : p.entries[i] = objects[i]
  BY <1>1 DEF Stage
<1> HIDE DEF objects, L
<1>4. SubSeq(p.entries, 1, L) = objects
  BY <1>1, <1>2, <1>3 DEF L
<1>5. QED
  BY <1>3, <1>4 DEF Mapped, objects, L, Objs
-----------------------------------------------------------------------------
(* PdoConfiguration: the inductive invariant.                              *)

Drive == [pdo : [Channels -> Pdo], mode : Modes, params : SUBSET ToSet(Params),
          savedMode : Modes, saved : SUBSET ToSet(Params)]

\* OnConfig's fiber has downloads to make, or has just made them.
Working(n) == boot[n] = "configuring" /\ n \in Configured

NodeTyped(n) ==
    /\ drive[n] \in Drive
    /\ boot[n] \in {"down", "configuring", "booted", "failed"}
    /\ selected[n] \in Modes \cup {NoMode} /\ asked[n] \in Modes \cup {NoMode}
    /\ boot[n] = "configuring" =>
           IF n \in Configured THEN todo[n] \in [1 .. ParamPart -> Seq(DownloadType)]
           ELSE todo[n] = <<>>

\* Each PDO is at some stage: at the first as long as nothing was downloaded,
\* at the last when the drive has booted, and where the downloads left say.
ChannelInv(n, c) ==
    \E k \in 0 .. Len(Part(n, c)) :
        /\ Stage(drive[n].pdo[c], n, c, k)
        /\ Working(n) => todo[n][c] = Left(Part(n, c), k)
        /\ (n \in Configured /\ boot[n] = "booted") => k = Len(Part(n, c))
        /\ (n \notin Configured \/ boot[n] = "down") => k = 0

\* The mode is selected, or left to be, or a request has overtaken its choice.
ModeLeft(n, part, mode) ==
    \/ part = ToSelect
    \/ /\ part = <<>>
       /\ selected[n] \in {mode, NoMode} \/ crossed[n]
    \/ \E m \in Modes : /\ part = <<Download("mode", 0, m)>>
                        /\ selected[n] = m \/ crossed[n]
ModeInv(n) == Working(n) => ModeLeft(n, todo[n][ModePart], drive[n].mode)

\* The parameters whose downloads are made are set; they are saved as a whole.
ParamInv(n) ==
    /\ drive[n].saved \in {{}, ToSet(Params)}
    /\ Working(n) =>
           \E j \in 0 .. Len(configureProfileParameters(n)) :
               /\ todo[n][ParamPart] = Left(configureProfileParameters(n), j)
               /\ \A i \in 1 .. Len(Params) : i <= j => Params[i] \in drive[n].params

NodeInv(n) ==
    /\ NodeTyped(n)
    /\ \A c \in Channels : ChannelInv(n, c)
    /\ ModeInv(n)
    /\ ParamInv(n)

IInv ==
    /\ summary \in Summaries
    /\ DOMAIN drive = Nodes /\ DOMAIN todo = Nodes /\ DOMAIN boot = Nodes
    /\ DOMAIN selected = Nodes /\ DOMAIN asked = Nodes /\ DOMAIN crossed = Nodes
    /\ \A n \in Nodes : NodeInv(n)

\* The summary is read once: what is to be programmed never changes.
LEMMA SameProgram ==
    ASSUME summary' = summary
    PROVE  /\ Channels' = Channels /\ ModePart' = ModePart /\ ParamPart' = ParamPart
           /\ \A n, c : /\ Part(n, c)' = Part(n, c)
                        /\ Used(n, c)' <=> Used(n, c)
                        /\ isRpdo(c)' <=> isRpdo(c)
                        /\ Objs(n, c)' = Objs(n, c) /\ Map(n)' = Map(n)
           /\ \A p, n, c, k : Stage(p, n, c, k)' <=> Stage(p, n, c, k)
<1>1. Channels' = Channels /\ ModePart' = ModePart /\ ParamPart' = ParamPart
  BY DEF Channels, ModePart, ParamPart
<1>2. ASSUME NEW n, NEW c
      PROVE  /\ Objs(n, c)' = Objs(n, c) /\ Map(n)' = Map(n)
             /\ Used(n, c)' <=> Used(n, c)
             /\ isRpdo(c)' <=> isRpdo(c)
             /\ program(n, c)' = program(n, c)
  <2>1. Map(n)' = Map(n)
    BY DEF Map
  <2>2. Objs(n, c)' = Objs(n, c) /\ (Used(n, c)' <=> Used(n, c))
    BY <2>1 DEF Objs, Used
  <2>3. program(n, c)' = program(n, c)
    BY <2>1 DEF program
  <2>4. isRpdo(c)' <=> isRpdo(c)
    BY DEF isRpdo
  <2>5. QED
    BY <2>1, <2>2, <2>3, <2>4
<1>3. ASSUME NEW n, NEW c
      PROVE  Part(n, c)' = Part(n, c)
  <2>1. configurePdos(n)' = configurePdos(n)
    BY <1>1, <1>2 DEF configurePdos
  <2>2. QED
    BY <2>1 DEF Part
<1>4. ASSUME NEW p, NEW n, NEW c, NEW k
      PROVE  Stage(p, n, c, k)' <=> Stage(p, n, c, k)
  BY <1>2 DEF Stage
<1>5. QED
  BY <1>1, <1>2, <1>3, <1>4

\* A node that no step touches keeps its invariant.
LEMMA NodeKept ==
    ASSUME summary' = summary, NEW n \in Nodes, NodeInv(n),
           drive'[n] = drive[n], todo'[n] = todo[n], boot'[n] = boot[n],
           selected'[n] = selected[n], asked'[n] = asked[n], crossed'[n] = crossed[n]
    PROVE  NodeInv(n)'
<1>1. NodeTyped(n)'
  BY SameProgram DEF NodeInv, NodeTyped, Drive
<1>2. ASSUME NEW c \in Channels
      PROVE  ChannelInv(n, c)'
  <2>1. PICK k \in 0 .. Len(Part(n, c)) :
            /\ Stage(drive[n].pdo[c], n, c, k)
            /\ Working(n) => todo[n][c] = Left(Part(n, c), k)
            /\ (n \in Configured /\ boot[n] = "booted") => k = Len(Part(n, c))
            /\ (n \notin Configured \/ boot[n] = "down") => k = 0
    BY DEF NodeInv, ChannelInv
  <2>2. /\ Stage(drive[n].pdo[c], n, c, k)'
        /\ Working(n)' => todo'[n][c] = Left(Part(n, c)', k)
        /\ (n \in Configured /\ boot'[n] = "booted") => k = Len(Part(n, c)')
        /\ (n \notin Configured \/ boot'[n] = "down") => k = 0
    BY <2>1, SameProgram DEF Working
  <2>3. k \in 0 .. Len(Part(n, c)')
    BY SameProgram
  <2>4. QED
    BY <2>2, <2>3 DEF ChannelInv, Left
<1>3. ModeInv(n)'
  BY SameProgram DEF NodeInv, ModeInv, ModeLeft, Working
<1>4. ParamInv(n)'
  BY SameProgram DEF NodeInv, ParamInv, Working, configureProfileParameters, Left
<1>5. QED
  BY <1>1, <1>2, <1>3, <1>4, SameProgram DEF NodeInv

\* The invariant holds when all drives are down.
LEMMA ChainInit == Init => IInv
<1> SUFFICES ASSUME Init PROVE IInv
  OBVIOUS
<1>1. /\ summary \in Summaries /\ DOMAIN drive = Nodes /\ DOMAIN todo = Nodes
      /\ DOMAIN boot = Nodes /\ DOMAIN selected = Nodes
      /\ DOMAIN asked = Nodes /\ DOMAIN crossed = Nodes
  BY DEF Init
<1>2. ASSUME NEW n \in Nodes
      PROVE  NodeInv(n)
  <2>1. /\ drive[n] = [pdo |-> Factory[n], mode |-> FactoryMode, params |-> {},
                       savedMode |-> FactoryMode, saved |-> {}]
        /\ boot[n] = "down" /\ selected[n] \in Modes \cup {NoMode} /\ asked[n] = NoMode
    BY DEF Init
  <2>2. Factory[n] \in [Channels -> Pdo]
    BY <1>1, MapType
  <2>3. NodeTyped(n)
    BY <2>1, <2>2, PdoConfigurationAssumption DEF NodeTyped, Drive
  <2>4. ASSUME NEW c \in Channels
        PROVE  ChannelInv(n, c)
    <3>1. Stage(drive[n].pdo[c], n, c, 0)
      BY <1>1, <2>1, StageStarts
    <3>2. Part(n, c) \in Seq(DownloadType)
      BY <1>1, PartIs DEF Part
    <3>3. 0 \in 0 .. Len(Part(n, c))
      BY <3>2
    <3>4. QED
      BY <2>1, <3>1, <3>3 DEF ChannelInv, Working
  <2>5. ModeInv(n) /\ ParamInv(n)
    BY <2>1 DEF ModeInv, ParamInv, Working
  <2>6. QED
    BY <2>3, <2>4, <2>5 DEF NodeInv
<1>3. QED
  BY <1>1, <1>2 DEF IInv

\* The object dictionary of a drive.
LEMMA DriveFields ==
    ASSUME NEW D \in Drive
    PROVE  /\ D.pdo \in [Channels -> Pdo] /\ D.mode \in Modes /\ D.params \subseteq ToSet(Params)
           /\ D.savedMode \in Modes /\ D.saved \subseteq ToSet(Params)
  BY DEF Drive

\* What one download makes of a drive, and of the downloads left.
AfterPart(n, k, D, T) ==
    /\ D \in Drive /\ T \in [1 .. ParamPart -> Seq(DownloadType)]
    /\ \A c \in Channels : \E j \in 0 .. Len(Part(n, c)) :
           Stage(D.pdo[c], n, c, j) /\ T[c] = Left(Part(n, c), j)
    /\ ModeLeft(n, T[ModePart], D.mode)
    /\ D.saved \in {{}, ToSet(Params)}
    /\ \E j \in 0 .. Len(configureProfileParameters(n)) :
           /\ T[ParamPart] = Left(configureProfileParameters(n), j)
           /\ \A i \in 1 .. Len(Params) : i <= j => Params[i] \in D.params

\* What the downloads that are not of a PDO do.
LEMMA AfterIs ==
    ASSUME NEW n, NEW x
    PROVE  /\ After(n, Download("mode", 0, x)) = [drive[n] EXCEPT !.mode = x]
           /\ After(n, Download("param", 0, x))
              = [drive[n] EXCEPT !.params = drive[n].params \cup {x}]
           /\ After(n, Download("save", 0, x))
              = [drive[n] EXCEPT !.saved = drive[n].params, !.savedMode = drive[n].mode]
<1>1. /\ Download("mode", 0, x).what = "mode" /\ Download("mode", 0, x).value = x
      /\ Download("param", 0, x).what = "param" /\ Download("param", 0, x).value = x
      /\ Download("save", 0, x).what = "save"
  BY DEF Download
<1>2. After(n, Download("mode", 0, x)) = [drive[n] EXCEPT !.mode = x]
  BY <1>1 DEF After
<1>3. After(n, Download("param", 0, x))
      = [drive[n] EXCEPT !.params = drive[n].params \cup {x}]
  BY <1>1 DEF After
<1>4. After(n, Download("save", 0, x))
      = [drive[n] EXCEPT !.saved = drive[n].params, !.savedMode = drive[n].mode]
  BY <1>1 DEF After
<1>5. QED
  BY <1>2, <1>3, <1>4

\* The next download keeps every part in step with the drive.
LEMMA PartAdvances ==
    ASSUME summary \in Summaries, NEW n \in Nodes, NodeInv(n), boot[n] = "configuring",
           NEW k \in Due(n), todo[n][k] # ToSelect
    PROVE  /\ n \in Configured /\ k \in 1 .. ParamPart
           /\ AfterPart(n, k, After(n, Head(todo[n][k])),
                        [todo[n] EXCEPT ![k] = Tail(todo[n][k])])
<1> DEFINE D == After(n, Head(todo[n][k]))
           T == [todo[n] EXCEPT ![k] = Tail(todo[n][k])]
           old == drive[n]
           N == Len(Layout(summary))
<1> SUFFICES n \in Configured /\ k \in 1 .. ParamPart /\ AfterPart(n, k, D, T)
  OBVIOUS
<1>1. n \in Configured /\ Working(n)
  BY DEF NodeInv, NodeTyped, Due, Working
<1>2. /\ todo[n] \in [1 .. ParamPart -> Seq(DownloadType)] /\ k \in 1 .. ParamPart
      /\ todo[n][k] # <<>>
  BY <1>1 DEF NodeInv, NodeTyped, Due
<1>3. /\ N \in Nat /\ Channels = 1 .. N /\ ModePart = N + 1 /\ ParamPart = N + 2
  BY MapType DEF ModePart, ParamPart
<1>4. old \in Drive /\ old.pdo \in [Channels -> Pdo] /\ selected[n] \in Modes \cup {NoMode}
  BY DriveFields DEF NodeInv, NodeTyped
<1>5. /\ T \in [1 .. ParamPart -> Seq(DownloadType)]
      /\ T[k] = Tail(todo[n][k])
      /\ \A j \in 1 .. ParamPart : j # k => T[j] = todo[n][j]
  <2>1. Tail(todo[n][k]) \in Seq(DownloadType)
    <3>1. todo[n][k] \in Seq(DownloadType) /\ todo[n][k] # <<>>
      BY <1>2
    <3>2. \A q \in Seq(DownloadType) : q # <<>> => Tail(q) \in Seq(DownloadType)
      OBVIOUS
    <3>3. QED
      BY <3>1, <3>2
  <2>2. QED
    BY <1>2, <2>1
<1>6. \A c \in Channels : \E j \in 0 .. Len(Part(n, c)) :
          Stage(old.pdo[c], n, c, j) /\ todo[n][c] = Left(Part(n, c), j)
  BY <1>1 DEF NodeInv, ChannelInv
<1>7. /\ ModeLeft(n, todo[n][ModePart], old.mode)
      /\ old.saved \in {{}, ToSet(Params)}
      /\ \E j \in 0 .. Len(configureProfileParameters(n)) :
             /\ todo[n][ParamPart] = Left(configureProfileParameters(n), j)
             /\ \A i \in 1 .. Len(Params) : i <= j => Params[i] \in old.params
  BY <1>1 DEF NodeInv, ModeInv, ParamInv
<1> HIDE DEF T, N
<1>8. CASE k \in Channels
  <2>1. PICK j \in 0 .. Len(Part(n, k)) :
            Stage(old.pdo[k], n, k, j) /\ todo[n][k] = Left(Part(n, k), j)
    BY <1>6, <1>8
  <2>2. Part(n, k) \in Seq(DownloadType) /\ Len(Part(n, k)) \in Nat
    BY <1>8, PartIs DEF Part
  <2>3. /\ j \in Nat /\ j < Len(Part(n, k))
        /\ Head(todo[n][k]) = Part(n, k)[j + 1] /\ Tail(todo[n][k]) = Left(Part(n, k), j + 1)
    <3>1. j # Len(Part(n, k))
      BY <1>2, <2>1, <2>2, LeftSteps
    <3>2. j \in Nat /\ j < Len(Part(n, k))
      BY <2>2, <3>1
    <3>3. QED
      BY <2>1, <2>2, <3>2, LeftSteps
  <2> DEFINE d == Part(n, k)[j + 1]
             p == PdoAfter(old.pdo[k], d, Map(n)[k].cob.base)
  <2>4. d.what \in {"disable", "type", "count", "entry", "enable"} /\ d.ch = k
        /\ Stage(p, n, k, j + 1)
    BY <1>8, <2>1, <2>3, StageSteps
  <2>5. D = [old EXCEPT !.pdo[k] = p]
    <3>1. D = [old EXCEPT !.pdo[d.ch] = PdoAfter(@, d, Map(n)[d.ch].cob.base)]
      BY <2>3, <2>4 DEF After
    <3>2. QED
      BY <2>4, <3>1
  <2> HIDE DEF p, d, D
  <2>6. p \in Pdo
    BY <2>4 DEF Stage
  <2>7. D.pdo = [old.pdo EXCEPT ![k] = p]
        /\ D = [old EXCEPT !.pdo = [old.pdo EXCEPT ![k] = p]]
    BY <1>4, <2>5 DEF Drive
  <2>8. /\ D \in Drive /\ D.mode = old.mode /\ D.saved = old.saved /\ D.params = old.params
    <3>1. [old.pdo EXCEPT ![k] = p] \in [Channels -> Pdo]
      BY <1>4, <1>8, <2>6
    <3> DEFINE ps == [old.pdo EXCEPT ![k] = p]
    <3> HIDE DEF ps
    <3>2. ps \in [Channels -> Pdo] /\ D = [old EXCEPT !.pdo = ps]
      BY <2>7, <3>1 DEF ps
    <3>3. QED
      BY <1>4, <3>2 DEF Drive
  <2>9. ASSUME NEW c \in Channels
        PROVE  \E i \in 0 .. Len(Part(n, c)) :
                   Stage(D.pdo[c], n, c, i) /\ T[c] = Left(Part(n, c), i)
    <3>1. CASE c = k
      <4>1. D.pdo[c] = p
        BY <1>4, <1>8, <2>7, <3>1
      <4>2. j + 1 \in 0 .. Len(Part(n, c))
        BY <2>2, <2>3, <3>1
      <4>3. QED
        BY <1>5, <2>3, <2>4, <3>1, <4>1, <4>2
    <3>2. CASE c # k
      <4>1. D.pdo[c] = old.pdo[c]
        BY <1>4, <2>7, <3>2
      <4>2. T[c] = todo[n][c]
        BY <1>3, <1>5, <3>2
      <4>3. QED
        BY <1>6, <4>1, <4>2
    <3>3. QED
      BY <3>1, <3>2
  <2>10. T[ModePart] = todo[n][ModePart] /\ T[ParamPart] = todo[n][ParamPart]
    BY <1>3, <1>5, <1>8
  <2>11. AfterPart(n, k, D, T)
    BY <1>5, <1>7, <2>8, <2>9, <2>10 DEF AfterPart
  <2>12. QED
    BY <1>1, <1>2, <2>11
<1>9. ASSUME NEW c \in Channels, D.pdo = old.pdo, k \notin Channels
      PROVE  \E i \in 0 .. Len(Part(n, c)) :
                 Stage(D.pdo[c], n, c, i) /\ T[c] = Left(Part(n, c), i)
  <2>1. T[c] = todo[n][c]
    BY <1>3, <1>5, <1>9
  <2>2. QED
    BY <1>6, <1>9, <2>1
<1>10. CASE k = ModePart
  <2>1. PICK m \in Modes :
            /\ todo[n][k] = <<Download("mode", 0, m)>>
            /\ selected[n] = m \/ crossed[n]
    BY <1>2, <1>7, <1>10 DEF ModeLeft
  <2>2. /\ Head(todo[n][k]) = Download("mode", 0, m) /\ Tail(todo[n][k]) = <<>>
    BY <2>1
  <2>3. D = [old EXCEPT !.mode = m]
    <3>1. D = After(n, Download("mode", 0, m))
      BY <2>2
    <3> HIDE DEF D
    <3>2. QED
      BY <3>1, AfterIs, Zenon
  <2> HIDE DEF D
  <2>4. /\ D \in Drive /\ D.mode = m /\ D.pdo = old.pdo /\ D.saved = old.saved
        /\ D.params = old.params
    BY <1>4, <2>1, <2>3 DEF Drive
  <2>5. T[ModePart] = <<>> /\ T[ParamPart] = todo[n][ParamPart] /\ k \notin Channels
    <3>1. ModePart # ParamPart /\ ModePart \notin Channels /\ ParamPart \in 1 .. ParamPart
      BY <1>3
    <3>2. QED
      BY <1>5, <1>10, <2>2, <3>1
  <2>6. AfterPart(n, k, D, T)
    <3>1. ModeLeft(n, T[ModePart], D.mode)
      BY <2>1, <2>4, <2>5 DEF ModeLeft
    <3>2. QED
      BY <1>5, <1>7, <1>9, <2>4, <2>5, <3>1 DEF AfterPart
  <2>7. QED
    BY <1>1, <1>2, <2>6
<1>11. CASE k = ParamPart
  <2> DEFINE part == configureProfileParameters(n)
             P == Len(Params)
  <2>1. PICK j \in 0 .. Len(part) :
            /\ todo[n][k] = Left(part, j)
            /\ \A i \in 1 .. P : i <= j => Params[i] \in old.params
    BY <1>7, <1>11
  <2>2. /\ part \in Seq(DownloadType) /\ P \in Nat
        /\ Len(part) = IF SaveParams THEN P + 1 ELSE P
        /\ \A i \in 1 .. P : part[i] = Download("param", 0, Params[i])
        /\ SaveParams => part[P + 1] = Download("save", 0, 0)
        /\ \A i \in 1 .. P : Params[i] \in ToSet(Params)
    <3>1. Params \in Seq(ToSet(Params))
      BY ParametersAre
    <3>2. QED
      BY <3>1, ParametersAre
  <2> HIDE DEF part, P
  <2>3. /\ j \in Nat /\ j < Len(part)
        /\ Head(todo[n][k]) = part[j + 1] /\ Tail(todo[n][k]) = Left(part, j + 1)
    <3>1. Len(part) \in Nat
      BY <2>2
    <3>2. j # Len(part)
      BY <1>2, <2>1, <2>2, LeftSteps
    <3>3. j \in Nat /\ j < Len(part)
      BY <3>1, <3>2
    <3>4. /\ Head(Left(part, j)) = part[j + 1]
          /\ Tail(Left(part, j)) = Left(part, j + 1)
      <4>1. part \in Seq(DownloadType) /\ j \in 0 .. Len(part)
        BY <2>2
      <4>2. QED
        BY <3>3, <4>1, LeftSteps
    <3>5. QED
      BY <2>1, <3>3, <3>4
  <2>4. T[ParamPart] = Left(part, j + 1) /\ T[ModePart] = todo[n][ModePart]
        /\ k \notin Channels /\ j + 1 \in 0 .. Len(part)
    <3>1. ModePart # ParamPart /\ ParamPart \notin Channels /\ ModePart \in 1 .. ParamPart
      BY <1>3
    <3>2. Len(part) \in Nat
      BY <2>2
    <3>3. j + 1 \in 0 .. Len(part)
      BY <2>3, <3>2
    <3>4. QED
      BY <1>5, <1>11, <2>3, <3>1, <3>3
  <2>5. CASE j < P
    <3>1. j + 1 \in 1 .. P /\ Head(todo[n][k]) = Download("param", 0, Params[j + 1])
      BY <2>2, <2>3, <2>5
    <3>2. D = [old EXCEPT !.params = old.params \cup {Params[j + 1]}]
      <4>1. D = After(n, Download("param", 0, Params[j + 1]))
        BY <3>1
      <4> HIDE DEF D
      <4>2. QED
        BY <4>1, AfterIs, Zenon
    <3> HIDE DEF D
    <3>3. /\ D \in Drive /\ D.mode = old.mode /\ D.pdo = old.pdo /\ D.saved = old.saved
          /\ D.params = old.params \cup {Params[j + 1]}
      <4>1. old.params \cup {Params[j + 1]} \in SUBSET ToSet(Params)
        BY <1>4, <2>2, <3>1, DriveFields
      <4> DEFINE ps == old.params \cup {Params[j + 1]}
      <4> HIDE DEF ps
      <4>2. D = [old EXCEPT !.params = ps] /\ ps \in SUBSET ToSet(Params)
        BY <3>2, <4>1 DEF ps
      <4>3. /\ D \in Drive /\ D.mode = old.mode /\ D.pdo = old.pdo /\ D.saved = old.saved
            /\ D.params = ps
        BY <1>4, <4>2 DEF Drive
      <4>4. QED
        BY <4>3 DEF ps
    <3>4. ASSUME NEW i \in 1 .. P, i <= j + 1
          PROVE  Params[i] \in D.params
      <4>1. i <= j \/ i = j + 1
        BY <2>2, <2>3, <3>4
      <4>2. QED
        BY <2>1, <3>3, <4>1
    <3>5. AfterPart(n, k, D, T)
      BY <1>5, <1>7, <1>9, <2>4, <3>3, <3>4 DEF AfterPart, part, P
    <3>6. QED
      BY <1>1, <1>2, <3>5
  <2>6. CASE j >= P
    <3>1. SaveParams /\ j = P /\ Head(todo[n][k]) = Download("save", 0, 0)
      BY <2>2, <2>3, <2>6
    <3>2. D = [old EXCEPT !.saved = old.params, !.savedMode = old.mode]
      <4>1. D = After(n, Download("save", 0, 0))
        BY <3>1
      <4> HIDE DEF D
      <4>2. QED
        BY <4>1, AfterIs, Zenon
    <3>3. old.params = ToSet(Params)
      <4>1. \A x \in ToSet(Params) : \E i \in 1 .. P : x = Params[i]
        BY ParametersAre DEF ToSet, P
      <4>2. \A i \in 1 .. P : i <= j
        BY <2>2, <3>1
      <4>3. ToSet(Params) \subseteq old.params
        BY <2>1, <4>1, <4>2
      <4>4. QED
        BY <1>4, <4>3, DriveFields
    <3> HIDE DEF D
    <3>4. /\ D \in Drive /\ D.mode = old.mode /\ D.pdo = old.pdo /\ D.saved = ToSet(Params)
          /\ D.params = old.params
      <4>1. old.params \in SUBSET ToSet(Params) /\ old.mode \in Modes
        BY <1>4, DriveFields
      <4> DEFINE ps == old.params
                 md == old.mode
      <4> HIDE DEF ps, md
      <4>2. D = [old EXCEPT !.saved = ps, !.savedMode = md] /\ ps \in SUBSET ToSet(Params)
            /\ md \in Modes
        BY <3>2, <4>1 DEF ps, md
      <4>3. /\ D \in Drive /\ D.mode = old.mode /\ D.pdo = old.pdo /\ D.saved = ps
            /\ D.params = old.params
        BY <1>4, <4>2 DEF Drive
      <4>4. QED
        BY <3>3, <4>3 DEF ps
    <3>5. \A i \in 1 .. P : Params[i] \in D.params
      BY <2>2, <3>3, <3>4
    <3>6. AfterPart(n, k, D, T)
      BY <1>5, <1>7, <1>9, <2>4, <3>4, <3>5 DEF AfterPart, part, P
    <3>7. QED
      BY <1>1, <1>2, <3>6
  <2>7. QED
    BY <2>2, <2>3, <2>5, <2>6
<1>12. k \in Channels \/ k = ModePart \/ k = ParamPart
  BY <1>2, <1>3
<1>13. QED
  BY <1>8, <1>10, <1>11, <1>12

\* A step of node n leaves the rest of the chain alone.
LEMMA OneNode ==
    ASSUME IInv, summary' = summary, NEW n \in Nodes,
           DOMAIN drive' = Nodes, DOMAIN todo' = Nodes, DOMAIN boot' = Nodes,
           DOMAIN selected' = Nodes, DOMAIN asked' = Nodes, DOMAIN crossed' = Nodes,
           \A m \in Nodes \ {n} : /\ drive'[m] = drive[m] /\ todo'[m] = todo[m]
                                  /\ boot'[m] = boot[m] /\ selected'[m] = selected[m]
                                  /\ asked'[m] = asked[m] /\ crossed'[m] = crossed[m],
           NodeInv(n)'
    PROVE  IInv'
<1>1. ASSUME NEW m \in Nodes
      PROVE  NodeInv(m)'
  <2>1. CASE m = n
    BY <2>1
  <2>2. CASE m # n
    BY <2>2, NodeKept DEF IInv
  <2>3. QED
    BY <2>1, <2>2
<1>2. QED
  BY <1>1 DEF IInv

\* A request leaves the boot, the PDOs and the parameters alone; the mode it
\* changes is not the configuration's any more.
LEMMA NodeAsked ==
    ASSUME summary \in Summaries, summary' = summary, NEW n \in Nodes, NodeInv(n),
           drive'[n] \in Drive, drive'[n].pdo = drive[n].pdo,
           drive'[n].saved = drive[n].saved, drive'[n].params = drive[n].params,
           selected'[n] \in Modes \cup {NoMode}, asked'[n] \in Modes \cup {NoMode},
           boot'[n] = boot[n], todo'[n] = todo[n],
           \/ ~ModeRead(n) \/ crossed'[n]
           \/ /\ drive'[n].mode = drive[n].mode /\ selected'[n] = selected[n]
              /\ crossed'[n] = crossed[n]
    PROVE  NodeInv(n)'
<1>1. NodeTyped(n)' /\ (Working(n)' <=> Working(n))
  BY SameProgram DEF NodeInv, NodeTyped, Drive, Working
<1>2. ASSUME NEW c \in Channels
      PROVE  ChannelInv(n, c)'
  <2>1. PICK k \in 0 .. Len(Part(n, c)) :
            /\ Stage(drive[n].pdo[c], n, c, k)
            /\ Working(n) => todo[n][c] = Left(Part(n, c), k)
            /\ (n \in Configured /\ boot[n] = "booted") => k = Len(Part(n, c))
            /\ (n \notin Configured \/ boot[n] = "down") => k = 0
    BY DEF NodeInv, ChannelInv
  <2>2. Stage(drive[n].pdo[c], n, c, k)' /\ k \in 0 .. Len(Part(n, c)')
    BY <2>1, SameProgram
  <2>3. QED
    BY <1>1, <2>1, <2>2, SameProgram DEF ChannelInv, Left
<1>3. ModeInv(n)'
  <2>1. SUFFICES ASSUME Working(n)
                 PROVE  ModeLeft(n, todo[n][ModePart], drive[n].mode)'
    BY <1>1 DEF ModeInv
  <2>2. ModeLeft(n, todo[n][ModePart], drive[n].mode) /\ ModePart' = ModePart
    BY <2>1, SameProgram DEF NodeInv, ModeInv
  <2>3. CASE todo[n][ModePart] = ToSelect
    BY <2>2, <2>3 DEF ModeLeft, ToSelect, Download
  <2>4. CASE todo[n][ModePart] # ToSelect
    <3>1. ModeRead(n)
      BY <2>1, <2>4 DEF ModeRead, Working
    <3>2. QED
      BY <2>2, <2>4, <3>1 DEF ModeLeft, Download
  <2>5. QED
    BY <2>3, <2>4
<1>4. ParamInv(n)'
  BY <1>1, SameProgram DEF NodeInv, ParamInv, configureProfileParameters, Left
<1>5. QED
  BY <1>1, <1>2, <1>3, <1>4, SameProgram DEF NodeInv

\* The boot ends in failure wherever the downloads are.
LEMMA NodeFailed ==
    ASSUME summary' = summary, NEW n \in Nodes, drive'[n] \in Drive, n \in Configured,
           drive'[n].saved \in {{}, ToSet(Params)}, selected'[n] \in Modes \cup {NoMode},
           asked'[n] \in Modes \cup {NoMode}, boot'[n] = "failed",
           \A c \in Channels : \E k \in 0 .. Len(Part(n, c)) :
               Stage(drive'[n].pdo[c], n, c, k)
    PROVE  NodeInv(n)'
<1>1. NodeTyped(n)' /\ ~Working(n)'
  BY SameProgram DEF NodeTyped, Drive, Working
<1>2. ASSUME NEW c \in Channels
      PROVE  ChannelInv(n, c)'
  <2>1. PICK k \in 0 .. Len(Part(n, c)) : Stage(drive'[n].pdo[c], n, c, k)
    OBVIOUS
  <2>2. Stage(drive[n].pdo[c], n, c, k)' /\ k \in 0 .. Len(Part(n, c)')
    BY <2>1, SameProgram
  <2>3. QED
    BY <1>1, <2>2 DEF ChannelInv
<1>3. ModeInv(n)' /\ ParamInv(n)'
  BY <1>1 DEF ModeInv, ParamInv
<1>4. QED
  BY <1>1, <1>2, <1>3, SameProgram DEF NodeInv

\* Each action keeps the invariant.
LEMMA ChainOnConfig ==
    ASSUME IInv, NEW n \in Nodes, OnConfig(n)
    PROVE  IInv'
<1>1. /\ summary \in Summaries /\ NodeInv(n) /\ summary' = summary
      /\ DOMAIN drive = Nodes /\ DOMAIN todo = Nodes /\ DOMAIN boot = Nodes
      /\ DOMAIN selected = Nodes /\ DOMAIN asked = Nodes /\ DOMAIN crossed = Nodes
  BY DEF IInv, OnConfig
<1>2. /\ boot[n] = "down" /\ boot'[n] = "configuring" /\ drive' = drive
      /\ selected' = selected /\ asked' = asked
      /\ todo'[n] = IF n \in Configured THEN Configuration(n) ELSE <<>>
  BY <1>1 DEF OnConfig
<1>3. /\ DOMAIN drive' = Nodes /\ DOMAIN todo' = Nodes /\ DOMAIN boot' = Nodes
      /\ DOMAIN selected' = Nodes /\ DOMAIN asked' = Nodes /\ DOMAIN crossed' = Nodes
      /\ \A m \in Nodes \ {n} : /\ drive'[m] = drive[m] /\ todo'[m] = todo[m]
                                /\ boot'[m] = boot[m] /\ selected'[m] = selected[m]
                                /\ asked'[m] = asked[m] /\ crossed'[m] = crossed[m]
  BY <1>1 DEF OnConfig
<1>4. /\ selected[n] \in Modes \cup {NoMode} /\ asked[n] \in Modes \cup {NoMode}
      /\ drive[n] \in Drive
  BY <1>1 DEF NodeInv, NodeTyped
<1>5. /\ Configuration(n) \in [1 .. ParamPart -> Seq(DownloadType)]
      /\ \A c \in Channels : Configuration(n)[c] = Part(n, c)
      /\ Configuration(n)[ModePart] = ToSelect
      /\ Configuration(n)[ParamPart] = configureProfileParameters(n)
  <2>1. /\ Configuration(n) \in Seq(Seq(DownloadType))
        /\ DOMAIN Configuration(n) = 1 .. ParamPart
    BY <1>1, <1>4, ConfigurationIs
  <2>2. Configuration(n) \in [1 .. ParamPart -> Seq(DownloadType)]
    <3>1. \A S : \A q \in Seq(S) : q \in [DOMAIN q -> S]
      OBVIOUS
    <3>2. Configuration(n) \in [DOMAIN Configuration(n) -> Seq(DownloadType)]
      BY <2>1, <3>1
    <3>3. QED
      BY <2>1, <3>2
  <2>3. QED
    BY <1>1, <1>4, <2>2, ConfigurationIs DEF Part
<1>6. NodeTyped(n)'
  BY <1>2, <1>1, <1>4, <1>5, SameProgram DEF NodeTyped, Drive
<1>7. ASSUME NEW c \in Channels
      PROVE  ChannelInv(n, c)'
  <2>1. Stage(drive[n].pdo[c], n, c, 0)
    BY <1>1, <1>2 DEF NodeInv, ChannelInv
  <2>2. Stage(drive[n].pdo[c], n, c, 0)'
    BY <1>1, <1>2, <2>1, SameProgram
  <2>3. Part(n, c) \in Seq(DownloadType)
    BY <1>1, PartIs DEF Part
  <2>4. 0 \in 0 .. Len(Part(n, c)) /\ Left(Part(n, c), 0) = Part(n, c)
    BY <2>3, LeftSteps
  <2>5. Working(n)' => todo'[n][c] = Left(Part(n, c)', 0)
    BY <1>1, <1>2, <1>5, <2>4, SameProgram DEF Working
  <2>6. 0 \in 0 .. Len(Part(n, c)')
    BY <1>1, <2>4, SameProgram
  <2>7. QED
    BY <1>2, <2>2, <2>5, <2>6 DEF ChannelInv, Left
<1>8. ModeInv(n)'
  BY <1>1, <1>2, <1>5, SameProgram DEF ModeInv, ModeLeft, Working, ToSelect, Download
<1>9. ParamInv(n)'
  <2> DEFINE part == configureProfileParameters(n)
  <2>1. drive[n].saved \in {{}, ToSet(Params)}
    BY <1>1 DEF NodeInv, ParamInv
  <2>2. part \in Seq(DownloadType) /\ \A i \in 1 .. Len(Params) : ~(i <= 0)
    BY ParametersAre
  <2>3. 0 \in 0 .. Len(part) /\ Left(part, 0) = part
    BY <2>2, LeftSteps
  <2>4. Working(n)' => todo'[n][ParamPart'] = Left(part, 0)
    BY <1>1, <1>2, <1>5, <2>3, SameProgram DEF Working
  <2>5. part' = part
    BY DEF configureProfileParameters
  <2> HIDE DEF part
  <2>6. /\ drive'[n].saved \in {{}, ToSet(Params)}
        /\ Working(n)' => \E j \in 0 .. Len(part') :
               /\ todo'[n][ParamPart'] = Left(part', j)
               /\ \A i \in 1 .. Len(Params) : i <= j => Params[i] \in drive'[n].params
    BY <1>2, <2>1, <2>2, <2>3, <2>4, <2>5
  <2>7. QED
    BY <2>6 DEF ParamInv, Left, part
<1>10. NodeInv(n)'
  BY <1>1, <1>6, <1>7, <1>8, <1>9, SameProgram DEF NodeInv
<1>11. QED
  BY <1>1, <1>3, <1>10, OneNode

LEMMA ChainDownloaded ==
    ASSUME IInv, NEW n \in Nodes, Downloaded(n)
    PROVE  IInv'
<1>1. /\ summary \in Summaries /\ NodeInv(n) /\ summary' = summary /\ boot[n] = "configuring"
      /\ DOMAIN drive = Nodes /\ DOMAIN todo = Nodes /\ DOMAIN boot = Nodes
      /\ DOMAIN selected = Nodes /\ DOMAIN asked = Nodes /\ DOMAIN crossed = Nodes
      /\ boot' = boot /\ selected' = selected /\ asked' = asked /\ crossed' = crossed
  BY DEF IInv, Downloaded
<1>2. PICK k \in Due(n) :
          /\ todo[n][k] # ToSelect
          /\ drive' = [drive EXCEPT ![n] = After(n, Head(todo[n][k]))]
          /\ todo' = [todo EXCEPT ![n][k] = Tail(@)]
  BY DEF Downloaded
<1> DEFINE D == After(n, Head(todo[n][k]))
           T == [todo[n] EXCEPT ![k] = Tail(todo[n][k])]
           part == configureProfileParameters(n)
<1>3. n \in Configured /\ AfterPart(n, k, D, T)
  BY <1>1, <1>2, PartAdvances
<1>4. drive'[n] = D /\ todo'[n] = T
  BY <1>1, <1>2
<1>5. /\ DOMAIN drive' = Nodes /\ DOMAIN todo' = Nodes /\ DOMAIN boot' = Nodes
      /\ DOMAIN selected' = Nodes /\ DOMAIN asked' = Nodes /\ DOMAIN crossed' = Nodes
      /\ \A m \in Nodes \ {n} : /\ drive'[m] = drive[m] /\ todo'[m] = todo[m]
                                /\ boot'[m] = boot[m] /\ selected'[m] = selected[m]
                                /\ asked'[m] = asked[m] /\ crossed'[m] = crossed[m]
  BY <1>1, <1>2
<1> HIDE DEF D, T
<1>6. NodeTyped(n)'
  BY <1>1, <1>3, <1>4, SameProgram DEF NodeInv, NodeTyped, AfterPart, Drive
<1>7. ASSUME NEW c \in Channels
      PROVE  ChannelInv(n, c)'
  <2>1. PICK j \in 0 .. Len(Part(n, c)) :
            Stage(D.pdo[c], n, c, j) /\ T[c] = Left(Part(n, c), j)
    BY <1>3 DEF AfterPart
  <2>2. Stage(drive[n].pdo[c], n, c, j)' /\ j \in 0 .. Len(Part(n, c)')
        /\ todo'[n][c] = Left(Part(n, c)', j)
    BY <1>1, <1>4, <2>1, SameProgram
  <2>3. QED
    BY <1>1, <1>3, <2>2 DEF ChannelInv, Left
<1>8. ModeInv(n)'
  BY <1>1, <1>3, <1>4, SameProgram DEF ModeInv, ModeLeft, AfterPart, ToSelect, Download
<1>9. ParamInv(n)'
  <2>1. part' = part
    BY DEF configureProfileParameters
  <2> HIDE DEF part
  <2>2. /\ drive'[n].saved \in {{}, ToSet(Params)}
        /\ \E j \in 0 .. Len(part') :
               /\ todo'[n][ParamPart'] = Left(part', j)
               /\ \A i \in 1 .. Len(Params) : i <= j => Params[i] \in drive'[n].params
    BY <1>1, <1>3, <1>4, <2>1, SameProgram DEF AfterPart, part
  <2>3. QED
    BY <2>2 DEF ParamInv, Left, part
<1>10. NodeInv(n)'
  BY <1>1, <1>6, <1>7, <1>8, <1>9, SameProgram DEF NodeInv
<1>11. QED
  BY <1>1, <1>5, <1>10, OneNode

LEMMA ChainRefused ==
    ASSUME IInv, NEW n \in Nodes, Refused(n)
    PROVE  IInv'
<1>1. /\ summary \in Summaries /\ NodeInv(n) /\ summary' = summary /\ boot[n] = "configuring"
      /\ DOMAIN drive = Nodes /\ DOMAIN todo = Nodes /\ DOMAIN boot = Nodes
      /\ DOMAIN selected = Nodes /\ DOMAIN asked = Nodes /\ DOMAIN crossed = Nodes
      /\ selected' = selected /\ asked' = asked /\ crossed' = crossed
      /\ todo' = [todo EXCEPT ![n] = <<>>] /\ boot' = [boot EXCEPT ![n] = "failed"]
  BY DEF IInv, Refused
<1>2. PICK k \in Due(n) :
          /\ todo[n][k] # ToSelect
          /\ \E d \in {drive[n], After(n, Head(todo[n][k]))} :
                 drive' = [drive EXCEPT ![n] = d]
  BY DEF Refused
<1>3. PICK d \in {drive[n], After(n, Head(todo[n][k]))} : drive' = [drive EXCEPT ![n] = d]
  BY <1>2
<1>4. n \in Configured /\ AfterPart(n, k, After(n, Head(todo[n][k])),
                                    [todo[n] EXCEPT ![k] = Tail(todo[n][k])])
  BY <1>1, <1>2, PartAdvances
<1>5. /\ d \in Drive /\ d.saved \in {{}, ToSet(Params)}
      /\ \A c \in Channels : \E j \in 0 .. Len(Part(n, c)) : Stage(d.pdo[c], n, c, j)
  <2>1. CASE d = drive[n]
    BY <1>1, <2>1 DEF NodeInv, NodeTyped, ParamInv, ChannelInv
  <2>2. CASE d = After(n, Head(todo[n][k]))
    BY <1>4, <2>2 DEF AfterPart
  <2>3. QED
    BY <2>1, <2>2
<1>6. /\ drive'[n] = d /\ boot'[n] = "failed"
      /\ selected'[n] \in Modes \cup {NoMode} /\ asked'[n] \in Modes \cup {NoMode}
  BY <1>1, <1>3 DEF NodeInv, NodeTyped
<1>7. NodeInv(n)'
  BY <1>1, <1>4, <1>5, <1>6, NodeFailed
<1>8. /\ DOMAIN drive' = Nodes /\ DOMAIN todo' = Nodes /\ DOMAIN boot' = Nodes
      /\ DOMAIN selected' = Nodes /\ DOMAIN asked' = Nodes /\ DOMAIN crossed' = Nodes
      /\ \A m \in Nodes \ {n} : /\ drive'[m] = drive[m] /\ todo'[m] = todo[m]
                                /\ boot'[m] = boot[m] /\ selected'[m] = selected[m]
                                /\ asked'[m] = asked[m] /\ crossed'[m] = crossed[m]
  BY <1>1, <1>3
<1>9. QED
  BY <1>1, <1>7, <1>8, OneNode

LEMMA ChainOnBoot ==
    ASSUME IInv, NEW n \in Nodes, OnBoot(n)
    PROVE  IInv'
<1>1. /\ summary \in Summaries /\ NodeInv(n) /\ summary' = summary /\ boot[n] = "configuring"
      /\ DOMAIN drive = Nodes /\ DOMAIN todo = Nodes /\ DOMAIN boot = Nodes
      /\ DOMAIN selected = Nodes /\ DOMAIN asked = Nodes /\ DOMAIN crossed = Nodes
      /\ selected' = selected /\ asked' = asked /\ crossed' = crossed
      /\ drive' = drive /\ todo' = todo
      /\ boot' = [boot EXCEPT ![n] = "booted"]
      /\ \A k \in DOMAIN todo[n] : todo[n][k] = <<>>
  BY DEF IInv, OnBoot
<1>2. boot'[n] = "booted" /\ ~Working(n)'
  BY <1>1 DEF Working
<1>3. NodeTyped(n)'
  BY <1>1, <1>2, SameProgram DEF NodeInv, NodeTyped, Drive
<1>4. ASSUME NEW c \in Channels
      PROVE  ChannelInv(n, c)'
  <2>1. PICK k \in 0 .. Len(Part(n, c)) :
            /\ Stage(drive[n].pdo[c], n, c, k)
            /\ Working(n) => todo[n][c] = Left(Part(n, c), k)
            /\ (n \notin Configured \/ boot[n] = "down") => k = 0
    BY <1>1 DEF NodeInv, ChannelInv
  <2>2. n \in Configured => k = Len(Part(n, c))
    <3>1. ASSUME n \in Configured
          PROVE  k = Len(Part(n, c))
      <4>1. c \in DOMAIN todo[n]
        <5>1. DOMAIN todo[n] = 1 .. ParamPart
          BY <1>1, <3>1 DEF NodeInv, NodeTyped
        <5>2. QED
          BY <1>1, <5>1, MapType DEF ParamPart
      <4>2. Left(Part(n, c), k) = <<>>
        BY <1>1, <2>1, <3>1, <4>1 DEF Working
      <4>3. Part(n, c) \in Seq(DownloadType)
        BY <1>1, PartIs DEF Part
      <4>4. QED
        BY <4>2, <4>3, LeftSteps
    <3>2. QED
      BY <3>1
  <2>3. Stage(drive[n].pdo[c], n, c, k)' /\ k \in 0 .. Len(Part(n, c)')
    BY <1>1, <2>1, SameProgram
  <2>4. QED
    BY <1>1, <1>2, <2>1, <2>2, <2>3, SameProgram DEF ChannelInv
<1>5. ModeInv(n)' /\ ParamInv(n)'
  BY <1>1, <1>2 DEF ModeInv, ParamInv, NodeInv
<1>6. NodeInv(n)'
  BY <1>1, <1>3, <1>4, <1>5, SameProgram DEF NodeInv
<1>7. QED
  BY <1>1, <1>6, OneNode

LEMMA ChainSelects ==
    ASSUME IInv, NEW n \in Nodes, Selects(n)
    PROVE  IInv'
<1> DEFINE part == selectOperationMode(n)
           T == [todo[n] EXCEPT ![ModePart] = part]
<1>1. /\ summary \in Summaries /\ NodeInv(n) /\ summary' = summary
      /\ boot[n] = "configuring" /\ ModePart \in Due(n)
      /\ DOMAIN drive = Nodes /\ DOMAIN todo = Nodes /\ DOMAIN boot = Nodes
      /\ DOMAIN selected = Nodes /\ DOMAIN asked = Nodes /\ DOMAIN crossed = Nodes
      /\ drive' = drive /\ boot' = boot /\ selected' = selected /\ asked' = asked
      /\ crossed' = crossed /\ todo' = [todo EXCEPT ![n][ModePart] = part]
  BY DEF IInv, Selects
<1>2. /\ n \in Configured /\ Working(n) /\ selected[n] \in Modes \cup {NoMode}
      /\ todo[n] \in [1 .. ParamPart -> Seq(DownloadType)]
  BY <1>1 DEF NodeInv, NodeTyped, Due, Working
<1>3. /\ ModePart \in 1 .. ParamPart /\ ParamPart \in 1 .. ParamPart
      /\ ParamPart # ModePart /\ \A c \in Channels : c \in 1 .. ParamPart /\ c # ModePart
  BY <1>1, MapType DEF ModePart, ParamPart
<1>4. part \in Seq(DownloadType) /\ ModeLeft(n, part, drive[n].mode)
  <2>1. selected[n] # NoMode => Download("mode", 0, selected[n]) \in DownloadType
    BY <1>2 DEF Download, DownloadType, Whats
  <2>2. CASE selected[n] = NoMode
    BY <2>2 DEF selectOperationMode, ModeLeft
  <2>3. CASE selected[n] # NoMode
    BY <1>2, <2>1, <2>3 DEF selectOperationMode, ModeLeft
  <2>4. QED
    BY <2>2, <2>3
<1> HIDE DEF part
<1>5. /\ todo'[n] = T /\ T \in [1 .. ParamPart -> Seq(DownloadType)]
      /\ T[ModePart] = part
      /\ \A j \in 1 .. ParamPart : j # ModePart => T[j] = todo[n][j]
  BY <1>1, <1>2, <1>3, <1>4
<1> HIDE DEF T
<1>6. NodeTyped(n)' /\ Working(n)'
  BY <1>1, <1>2, <1>5, SameProgram DEF NodeInv, NodeTyped, Drive, Working
<1>7. ASSUME NEW c \in Channels
      PROVE  ChannelInv(n, c)'
  <2>1. PICK k \in 0 .. Len(Part(n, c)) :
            Stage(drive[n].pdo[c], n, c, k) /\ todo[n][c] = Left(Part(n, c), k)
    BY <1>1, <1>2 DEF NodeInv, ChannelInv
  <2>2. /\ Stage(drive[n].pdo[c], n, c, k)' /\ k \in 0 .. Len(Part(n, c)')
        /\ todo'[n][c] = Left(Part(n, c)', k)
    BY <1>1, <1>3, <1>5, <2>1, SameProgram
  <2>3. QED
    BY <1>1, <1>2, <2>2 DEF ChannelInv, Left
<1>8. ModeInv(n)'
  BY <1>1, <1>4, <1>5, SameProgram DEF ModeInv, ModeLeft, ToSelect, Download
<1>9. ParamInv(n)'
  <2>1. todo'[n][ParamPart'] = todo[n][ParamPart]
    BY <1>1, <1>3, <1>5, SameProgram
  <2>2. QED
    BY <1>1, <1>2, <2>1 DEF NodeInv, ParamInv, configureProfileParameters, Left
<1>10. NodeInv(n)'
  BY <1>1, <1>6, <1>7, <1>8, <1>9, SameProgram DEF NodeInv
<1>11. QED
  BY <1>1, <1>10, OneNode

LEMMA ChainModeRequest ==
    ASSUME IInv, NEW n \in Nodes, requestOperationMode(n)
    PROVE  IInv'
<1>1. /\ summary \in Summaries /\ NodeInv(n) /\ summary' = summary
      /\ DOMAIN drive = Nodes /\ DOMAIN todo = Nodes /\ DOMAIN boot = Nodes
      /\ DOMAIN selected = Nodes /\ DOMAIN asked = Nodes /\ DOMAIN crossed = Nodes
      /\ boot' = boot /\ todo' = todo /\ selected' = selected
      /\ crossed' = [crossed EXCEPT ![n] = @ \/ ModeRead(n)]
  BY DEF IInv, requestOperationMode
<1>2. PICK m \in Modes :
          /\ drive' = [drive EXCEPT ![n].mode = m]
          /\ asked' = [asked EXCEPT ![n] = m]
  BY DEF requestOperationMode
<1>3. drive[n] \in Drive /\ selected[n] \in Modes \cup {NoMode}
  BY <1>1 DEF NodeInv, NodeTyped
<1>4. /\ drive'[n] = [drive[n] EXCEPT !.mode = m] /\ asked'[n] = m
      /\ ~ModeRead(n) \/ crossed'[n]
      /\ DOMAIN drive' = Nodes /\ DOMAIN asked' = Nodes /\ DOMAIN crossed' = Nodes
      /\ \A i \in Nodes \ {n} : /\ drive'[i] = drive[i] /\ asked'[i] = asked[i]
                                /\ crossed'[i] = crossed[i]
  BY <1>1, <1>2
<1>5. /\ drive'[n] \in Drive /\ drive'[n].pdo = drive[n].pdo
      /\ drive'[n].saved = drive[n].saved /\ drive'[n].params = drive[n].params
  BY <1>3, <1>4 DEF Drive
<1>6. NodeInv(n)'
  BY <1>1, <1>3, <1>4, <1>5, NodeAsked
<1>7. QED
  BY <1>1, <1>4, <1>6, OneNode

LEMMA ChainModeAnswered ==
    ASSUME IInv, NEW n \in Nodes, ModeAnswered(n)
    PROVE  IInv'
<1>1. /\ summary \in Summaries /\ NodeInv(n) /\ summary' = summary
      /\ DOMAIN drive = Nodes /\ DOMAIN todo = Nodes /\ DOMAIN boot = Nodes
      /\ DOMAIN selected = Nodes /\ DOMAIN asked = Nodes /\ DOMAIN crossed = Nodes
      /\ boot' = boot /\ todo' = todo /\ drive' = drive
      /\ asked' = [asked EXCEPT ![n] = NoMode]
      /\ \/ /\ selected' = [selected EXCEPT ![n] = asked[n]]
            /\ crossed' = [crossed EXCEPT ![n] = @ \/ ModeRead(n)]
         \/ selected' = selected /\ crossed' = crossed
  BY DEF IInv, ModeAnswered
<1>2. /\ drive[n] \in Drive /\ selected[n] \in Modes \cup {NoMode}
      /\ asked[n] \in Modes \cup {NoMode}
  BY <1>1 DEF NodeInv, NodeTyped
<1>3. /\ asked'[n] \in Modes \cup {NoMode} /\ selected'[n] \in Modes \cup {NoMode}
      /\ \/ ~ModeRead(n) \/ crossed'[n]
         \/ selected'[n] = selected[n] /\ crossed'[n] = crossed[n]
      /\ DOMAIN selected' = Nodes /\ DOMAIN asked' = Nodes /\ DOMAIN crossed' = Nodes
      /\ \A i \in Nodes \ {n} : /\ selected'[i] = selected[i] /\ asked'[i] = asked[i]
                                /\ crossed'[i] = crossed[i]
  BY <1>1, <1>2
<1>4. NodeInv(n)'
  BY <1>1, <1>2, <1>3, NodeAsked
<1>5. QED
  BY <1>1, <1>3, <1>4, OneNode

LEMMA ChainRestart ==
    ASSUME IInv, NEW n \in Nodes, Restart(n)
    PROVE  IInv'
<1>1. /\ summary \in Summaries /\ NodeInv(n) /\ summary' = summary
      /\ DOMAIN drive = Nodes /\ DOMAIN todo = Nodes /\ DOMAIN boot = Nodes
      /\ DOMAIN selected = Nodes /\ DOMAIN asked = Nodes /\ DOMAIN crossed = Nodes
      /\ selected' = selected /\ asked' = asked /\ crossed' = crossed
      /\ drive' = [drive EXCEPT ![n].pdo = Factory[n], ![n].mode = drive[n].savedMode,
                                ![n].params = drive[n].saved]
      /\ todo' = [todo EXCEPT ![n] = <<>>] /\ boot' = [boot EXCEPT ![n] = "down"]
  BY DEF IInv, Restart
<1>2. drive[n] \in Drive /\ Factory[n] \in [Channels -> Pdo]
  BY <1>1, MapType DEF NodeInv, NodeTyped
<1>3. drive'[n] = [drive[n] EXCEPT !.pdo = Factory[n], !.mode = drive[n].savedMode,
                                   !.params = drive[n].saved]
  BY <1>1
<1>4. /\ drive'[n] \in Drive /\ drive'[n].pdo = Factory[n]
      /\ drive'[n].saved = drive[n].saved
  BY <1>2, <1>3 DEF Drive
<1>5. /\ boot'[n] = "down" /\ ~Working(n)'
      /\ selected'[n] \in Modes \cup {NoMode} /\ asked'[n] \in Modes \cup {NoMode}
  BY <1>1 DEF Working, NodeInv, NodeTyped
<1>6. NodeTyped(n)'
  BY <1>1, <1>4, <1>5, SameProgram DEF NodeTyped, Drive
<1>7. ASSUME NEW c \in Channels
      PROVE  ChannelInv(n, c)'
  <2>1. Stage(Factory[n][c], n, c, 0) /\ Part(n, c) \in Seq(DownloadType)
    BY <1>1, StageStarts, PartIs DEF Part
  <2>2. Stage(drive[n].pdo[c], n, c, 0)'
    BY <1>1, <1>4, <2>1, SameProgram
  <2>3. 0 \in 0 .. Len(Part(n, c)')
    BY <1>1, <2>1, SameProgram
  <2>4. QED
    BY <1>5, <2>2, <2>3 DEF ChannelInv
<1>8. ModeInv(n)' /\ ParamInv(n)'
  BY <1>1, <1>4, <1>5 DEF ModeInv, ParamInv, NodeInv
<1>9. NodeInv(n)'
  BY <1>1, <1>6, <1>7, <1>8, SameProgram DEF NodeInv
<1>10. /\ DOMAIN drive' = Nodes /\ DOMAIN todo' = Nodes /\ DOMAIN boot' = Nodes
       /\ DOMAIN selected' = Nodes /\ DOMAIN asked' = Nodes /\ DOMAIN crossed' = Nodes
       /\ \A m \in Nodes \ {n} : /\ drive'[m] = drive[m] /\ todo'[m] = todo[m]
                                 /\ boot'[m] = boot[m] /\ selected'[m] = selected[m]
                                 /\ asked'[m] = asked[m] /\ crossed'[m] = crossed[m]
  BY <1>1
<1>11. QED
  BY <1>1, <1>9, <1>10, OneNode

\* So does every step.
LEMMA ChainStep == IInv /\ [Next]_vars => IInv'
<1> SUFFICES ASSUME IInv, [Next]_vars PROVE IInv'
  OBVIOUS
<1>1. CASE UNCHANGED vars
  <2>1. /\ summary' = summary /\ drive' = drive /\ todo' = todo /\ boot' = boot
        /\ selected' = selected /\ asked' = asked /\ crossed' = crossed
    BY <1>1 DEF vars
  <2>2. \A n \in Nodes : NodeInv(n)'
    BY <2>1, NodeKept DEF IInv
  <2>3. QED
    BY <2>1, <2>2 DEF IInv
<1>2. CASE Next
  <2>1. PICK n \in Nodes : OnConfig(n) \/ FiberGoesOn(n) \/ Asks(n) \/ Restart(n)
    BY <1>2 DEF Next
  <2>2. CASE OnConfig(n)
    BY <2>2, ChainOnConfig
  <2>3. CASE Downloaded(n)
    BY <2>3, ChainDownloaded
  <2>4. CASE Refused(n)
    BY <2>4, ChainRefused
  <2>5. CASE OnBoot(n)
    BY <2>5, ChainOnBoot
  <2>6. CASE requestOperationMode(n)
    BY <2>6, ChainModeRequest
  <2>7. CASE Restart(n)
    BY <2>7, ChainRestart
  <2>8. CASE Selects(n)
    BY <2>8, ChainSelects
  <2>9. CASE ModeAnswered(n)
    BY <2>9, ChainModeAnswered
  <2>10. QED
    BY <2>1, <2>2, <2>3, <2>4, <2>5, <2>6, <2>7, <2>8, <2>9 DEF FiberGoesOn, Asks
<1>3. QED
  BY <1>1, <1>2

(***************************************************************************)
(* The inductive invariant of the configuration of a chain.                *)
(***************************************************************************)
THEOREM ChainInvariant == Spec => []IInv
<1>1. QED
  BY ChainInit, ChainStep, PTL DEF Spec
-----------------------------------------------------------------------------
(* PdoConfiguration: what the invariant shows.                             *)

(***************************************************************************)
(* Every drive keeps the PDOs of the chain, a mode and known parameters.   *)
(***************************************************************************)
THEOREM PdoTypeCorrect == Spec => []TypeOK
<1> DEFINE Booted == /\ boot \in [Nodes -> {"down", "configuring", "booted", "failed"}]
                     /\ selected \in [Nodes -> Modes \cup {NoMode}]
                     /\ asked \in [Nodes -> Modes \cup {NoMode}]
                     /\ crossed \in [Nodes -> BOOLEAN]
<1>1. Init => Booted
  BY DEF Init
<1>2. Booted /\ [Next]_vars => Booted'
  <2> SUFFICES ASSUME Booted, [Next]_vars PROVE Booted'
    OBVIOUS
  <2>1. CASE UNCHANGED vars
    BY <2>1 DEF vars
  <2>2. CASE Next
    <3>1. PICK n \in Nodes : OnConfig(n) \/ FiberGoesOn(n) \/ Asks(n) \/ Restart(n)
      BY <2>2 DEF Next
    <3>2. CASE OnConfig(n)
      BY <3>2 DEF OnConfig
    <3>3. CASE FiberGoesOn(n)
      BY <3>3 DEF FiberGoesOn, Selects, Downloaded, Refused, OnBoot
    <3>4. CASE requestOperationMode(n)
      BY <3>4 DEF requestOperationMode
    <3>5. CASE ModeAnswered(n)
      BY <3>5 DEF ModeAnswered
    <3>6. CASE Restart(n)
      BY <3>6 DEF Restart
    <3>7. QED
      BY <3>1, <3>2, <3>3, <3>4, <3>5, <3>6 DEF Asks
  <2>3. QED
    BY <2>1, <2>2
<1>3. IInv /\ Booted => TypeOK
  BY DriveFields DEF IInv, NodeInv, NodeTyped, TypeOK
<1>4. QED
  BY <1>1, <1>2, <1>3, ChainInvariant, PTL DEF Spec

(***************************************************************************)
(* A drive never acts on a frame whose mapping is half rewritten.          *)
(***************************************************************************)
THEOREM NeverActsHalfProgrammed == Spec => []NeverHalfProgrammed
<1>1. IInv => NeverHalfProgrammed
  <2>1. SUFFICES ASSUME IInv, NEW n \in Nodes, NEW c \in Channels, drive[n].pdo[c].enabled
                 PROVE  drive[n].pdo[c] = Factory[n][c] \/ Laid(n, c)
    BY DEF NeverHalfProgrammed
  <2>2. PICK k \in 0 .. Len(Part(n, c)) : Stage(drive[n].pdo[c], n, c, k)
    BY <2>1 DEF IInv, NodeInv, ChannelInv
  <2>3. CASE k = 0
    BY <2>2, <2>3 DEF Stage
  <2>4. CASE k # 0
    <3>1. Part(n, c) \in Seq(DownloadType) /\ k > 0
      BY <2>1, <2>4, PartIs DEF Part, IInv
    <3>2. Used(n, c) /\ k = Len(Objs(n, c)) + 5
      BY <2>1, <2>2, <3>1 DEF Stage
    <3>3. QED
      BY <2>1, <2>2, <3>2, StageEnds DEF Laid, IInv
  <2>5. QED
    BY <2>3, <2>4
<1>2. QED
  BY <1>1, ChainInvariant, PTL

\* A node that has booted is at the end of every part.
LEMMA UsedAsLaid ==
    ASSUME IInv, NEW n \in Configured, NEW c \in Channels, boot[n] = "booted"
    PROVE  IF Used(n, c) THEN Laid(n, c) ELSE isRpdo(c) => ~drive[n].pdo[c].enabled
<1>1. n \in Nodes /\ summary \in Summaries
  BY PdoConfigurationAssumption DEF IInv
<1>2. Stage(drive[n].pdo[c], n, c, Len(Part(n, c)))
  BY <1>1 DEF IInv, NodeInv, ChannelInv
<1>3. CASE Used(n, c)
  <2>1. Len(Part(n, c)) = Len(Objs(n, c)) + 5
    BY <1>1, <1>3, PartIs, ProgramIs DEF Part, Objs
  <2>2. QED
    BY <1>1, <1>2, <1>3, <2>1, StageEnds DEF Laid
<1>4. CASE ~Used(n, c)
  <2>1. ASSUME isRpdo(c)
        PROVE  ~drive[n].pdo[c].enabled
    <3>1. Len(Part(n, c)) = 1
      BY <1>1, <1>4, <2>1, PartIs DEF Part
    <3>2. QED
      BY <1>2, <1>4, <3>1 DEF Stage
  <2>2. QED
    BY <1>4, <2>1
<1>5. QED
  BY <1>3, <1>4

(***************************************************************************)
(* A drive that its boot may power up has every used channel as laid, and  *)
(* its other RxPDOs disabled.                                              *)
(***************************************************************************)
THEOREM PoweredUpAsLaid == Spec => []BootedAsLaid
<1>1. IInv => BootedAsLaid
  BY UsedAsLaid DEF BootedAsLaid
<1>2. QED
  BY <1>1, ChainInvariant, PTL

(***************************************************************************)
(* The NVM never holds a part of the parameters.                           *)
(***************************************************************************)
THEOREM NeverSavedInPart == Spec => []SavedWhole
<1>1. IInv => SavedWhole
  BY DEF IInv, NodeInv, ParamInv, SavedWhole
<1>2. QED
  BY <1>1, ChainInvariant, PTL

\* As the generator writes a chain: the channels that a drive uses are function
\* codes plus its node id, each with a code of its own.
WellLaid(chain, n) ==
    LET map == loadPdoMapFromSummary(chain, n)
        used == {c \in DOMAIN Layout(chain) : active(map[c]) /\ map[c].entries # <<>>}
    IN  /\ \A c \in used :
               /\ NodeRelative(Layout(chain)[c], chain.node)
               /\ hasNodeRelativeCobIdMetadata(chain) => Layout(chain)[c].relative
        /\ \A c, d \in used :
               Layout(chain)[c].offset.base = Layout(chain)[d].offset.base => c = d

(***************************************************************************)
(* Drives that have booted never share a CAN identifier, in either format. *)
(***************************************************************************)
THEOREM DrivesApart ==
    ASSUME \A s \in Summaries, n \in Configured : WellLaid(s, n)
    PROVE  Spec => []DistinctIdentifiers
<1>1. IInv => DistinctIdentifiers
  <2>1. SUFFICES ASSUME IInv, NEW m \in Configured, NEW n \in Configured,
                        NEW c \in Channels, NEW d \in Channels,
                        boot[m] = "booted", Used(m, c), boot[n] = "booted", Used(n, d),
                        drive[m].pdo[c].base = drive[n].pdo[d].base
                 PROVE  m = n /\ c = d
    BY DEF DistinctIdentifiers
  <2> DEFINE layout == Layout(summary)
  <2>2. /\ summary \in Summaries /\ m \in Nodes /\ n \in Nodes
        /\ m \in NodeIds /\ n \in NodeIds /\ summary.node \in NodeIds
    BY <2>1, PdoConfigurationAssumption, ChainAssumption DEF IInv
  <2>3. /\ Map(m)[c] = ChannelForNode(layout[c], summary, m)
        /\ Map(n)[d] = ChannelForNode(layout[d], summary, n)
    BY DEF Map, loadPdoMapFromSummary, Channels
  <2>4. Map(m)[c].cob.base = Map(n)[d].cob.base
    BY <2>1, UsedAsLaid DEF Laid
  <2>5. layout[c] \in Channel(Objects) /\ layout[d] \in Channel(Objects)
    <3>1. summary.rpdo \in Seq(Channel(Objects)) /\ summary.tpdo \in Seq(Channel(Objects))
      BY <2>2, ChainAssumption
    <3>2. layout \in Seq(Channel(Objects))
      BY <3>1 DEF Layout
    <3>3. QED
      BY <3>2 DEF Channels
  <2>6. /\ NodeRelative(layout[c], summary.node) /\ NodeRelative(layout[d], summary.node)
        /\ hasNodeRelativeCobIdMetadata(summary) => layout[c].relative /\ layout[d].relative
    BY <2>1, <2>2 DEF WellLaid, Used, Map, Channels
  <2>7. m = n /\ layout[c].offset.base = layout[d].offset.base
    <3> HIDE DEF layout
    <3>1. QED
      BY <2>2, <2>3, <2>4, <2>5, <2>6, ChainIdentifiersDiffer
  <2>8. c = d
    BY <2>1, <2>2, <2>7 DEF WellLaid, Used, Map, Channels
  <2>9. QED
    BY <2>7, <2>8
<1>2. QED
  BY <1>1, ChainInvariant, PTL

(***************************************************************************)
(* A drive comes up in the mode its driver last selected, if any, also     *)
(* after a restart that forgot it, unless a request for another took effect *)
(* between the configuration's choice of the mode and its end.             *)
(***************************************************************************)
THEOREM ComesUpAsSelected == Spec => BootsAsSelected
<1> DEFINE Up == \A n \in Configured : (boot[n] # "booted" /\ boot'[n] = "booted")
                    => selected[n] \in {drive[n].mode, NoMode} \/ crossed[n]
<1>1. IInv /\ [Next]_vars => [Up]_vars
  <2>1. SUFFICES ASSUME IInv, Next, NEW n \in Configured,
                        boot[n] # "booted", boot'[n] = "booted"
                 PROVE  selected[n] \in {drive[n].mode, NoMode} \/ crossed[n]
    OBVIOUS
  <2>2. n \in Nodes /\ DOMAIN boot = Nodes /\ summary \in Summaries
    BY <2>1, PdoConfigurationAssumption DEF IInv
  <2>3. OnBoot(n)
    <3>1. PICK m \in Nodes : OnConfig(m) \/ FiberGoesOn(m) \/ Asks(m) \/ Restart(m)
      BY <2>1 DEF Next
    <3>2. OnBoot(m) /\ m = n
      BY <2>1, <2>2, <3>1 DEF FiberGoesOn, Asks, OnConfig, Selects, Downloaded,
                              Refused, OnBoot, requestOperationMode, ModeAnswered, Restart
    <3>3. QED
      BY <3>2
  <2>4. Working(n) /\ \A k \in DOMAIN todo[n] : todo[n][k] = <<>>
    BY <2>1, <2>3 DEF OnBoot, Working
  <2>5. ModePart \in DOMAIN todo[n]
    <3>1. DOMAIN todo[n] = 1 .. ParamPart
      BY <2>1, <2>2, <2>4 DEF IInv, NodeInv, NodeTyped, Working
    <3>2. QED
      BY <2>2, <3>1, MapType DEF ModePart, ParamPart
  <2>6. ModeLeft(n, <<>>, drive[n].mode)
    BY <2>1, <2>2, <2>4, <2>5 DEF IInv, NodeInv, ModeInv
  <2>7. QED
    BY <2>6 DEF ModeLeft, ToSelect
<1>2. QED
  BY <1>1, ChainInvariant, PTL DEF Spec, BootsAsSelected
==============================================================================
