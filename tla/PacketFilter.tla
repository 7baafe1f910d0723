---------------------------- MODULE PacketFilter ----------------------------
(***************************************************************************)
(* The packet filter: rulesets by name, updated by the messages of the     *)
(* control server (ts_packetfilter/src/state.rs, ts_packetfilter_state),   *)
(* held in two implementations that get the same updates.  plain is the    *)
(* map of ts_packetfilter/src/filter/map_impl.rs, which asks every rule.   *)
(* bart is BartFilter of ts_bart_packetfilter: each part of a rule is      *)
(* indexed on its own, an index answers with a set of rule ids, and ids of *)
(* removed rules are used again.                                           *)
(*                                                                         *)
(* A prefix is the set of addresses it contains; of the prefixes of one    *)
(* address the longest is the smallest.  The routing tables keep what      *)
(* module BartTable shows of them, and a DynBitset is a set.               *)
(***************************************************************************)
EXTENDS BaseIndex

-----------------------------------------------------------------------------
(***************************************************************************)
(* PortTrie (ts_bart_packetfilter/src/port_trie): sets of identifiers      *)
(* attached to ranges of ports.  A range is cut into aligned blocks, each  *)
(* a prefix of the port number; a port of Strides = 2 octets is found      *)
(* under all its prefixes.                                                 *)
(*                                                                         *)
(* The three arrays of the code (prefixes of the high octet, children with *)
(* prefixes of the low octet, single ports) are one function from prefix   *)
(* to set here; an absent entry is the empty set, which no closure of the  *)
(* filter leaves stored.                                                   *)
(***************************************************************************)

MaxPort == 2 ^ AddrBits - 1

\* from_pfx keeps the place a prefix is stored at: an index of the high octet,
\* an index of the low octet of a child, or the port itself.
PortPrefix(port, len) ==
    CASE len = AddrBits -> [at |-> "singleton", port |-> port]
      [] len < StrideBits -> [at |-> "prefix", idx |-> FromPrefix(Octet(port, 0), len)]
      [] OTHER -> [at |-> "child", hi |-> Octet(port, 0),
                   idx |-> FromPrefix(Octet(port, 1), len - StrideBits)]

PortPrefixes ==
    {PortPrefix(port, AddrBits) : port \in Addrs}
    \cup {[at |-> "prefix", idx |-> i] : i \in Indices}
    \cup {[at |-> "child", hi |-> hi, idx |-> i] : hi \in Octets, i \in Indices}

\* prefix_form, start and end.
PrefixForm(pp) ==
    CASE pp.at = "singleton" -> <<pp.port, AddrBits>>
      [] pp.at = "prefix" -> <<IndexPrefix(pp.idx)[1] * 2 ^ StrideBits, IndexPrefix(pp.idx)[2]>>
      [] pp.at = "child" -> <<(pp.hi * 2 ^ StrideBits) + IndexPrefix(pp.idx)[1],
                              StrideBits + IndexPrefix(pp.idx)[2]>>

PortStart(pp) == PrefixForm(pp)[1]
PortEnd(pp) ==
    LET form == PrefixForm(pp)
    IN  IF form[2] = 0 THEN MaxPort
        ELSE Min({MaxPort, form[1] + (2 ^ (AddrBits - form[2]) - 1)})
PortRange(pp) == PortStart(pp) .. PortEnd(pp)

TrailingZeros(n) ==
    IF n = 0 THEN AddrBits ELSE CHOOSE k \in 0 .. AddrBits - 1 :
        n % 2 ^ k = 0 /\ n % 2 ^ (k + 1) # 0
LogFloor(n) == CHOOSE k \in 0 .. AddrBits : 2 ^ k <= n /\ n < 2 ^ (k + 1)

\* PortPrefixIter: the largest aligned block at the start, until the range is
\* used up.  A count of MaxPort ports is taken for the whole range.
WholeRange(start, end) == Min({MaxPort, (end - start) + 1}) = MaxPort

RECURSIVE IterPrefixes(_, _)
IterPrefixes(start, end) ==
    CASE start > end -> << >>
      [] start = end -> <<PortPrefix(start, AddrBits)>>
      [] start < end /\ WholeRange(start, end) -> <<PortPrefix(0, 0)>>
      [] OTHER ->
           LET len == AddrBits - Min({LogFloor((end - start) + 1), TrailingZeros(start)})
               block == PortPrefix(start, len)
               next == Min({MaxPort, PortEnd(block) + 1})
           IN  <<block>> \o IF next = MaxPort THEN IterPrefixes(next, 0)
                            ELSE IterPrefixes(next, end)

EmptyPorts == [pp \in PortPrefixes |-> {}]

\* modify with the filter's closures: every block gains or loses the id.
PortsAdd(trie, range, id) ==
    LET blocks == ToSet(IterPrefixes(range[1], range[2]))
    IN  [pp \in PortPrefixes |-> IF pp \in blocks THEN trie[pp] \cup {id} ELSE trie[pp]]
PortsDrop(trie, range, id) ==
    LET blocks == ToSet(IterPrefixes(range[1], range[2]))
    IN  [pp \in PortPrefixes |-> IF pp \in blocks THEN trie[pp] \ {id} ELSE trie[pp]]

\* lookup chains the matches of the high octet, of the child and of the port.
PortMatches(port) ==
    {[at |-> "prefix", idx |-> i] : i \in Lpm(FromPfx7(Octet(port, 0)))}
    \cup {[at |-> "child", hi |-> Octet(port, 0), idx |-> i] : i \in Lpm(FromPfx7(Octet(port, 1)))}
    \cup {PortPrefix(port, AddrBits)}
PortsLookup(trie, port) == UNION {trie[pp] : pp \in PortMatches(port)}

\* The cut of a range is exact: its blocks are disjoint, in order, and hold
\* the ports of the range and no other.
ExactCut(start, end) ==
    LET blocks == IterPrefixes(start, end)
    IN  /\ UNION {PortRange(blocks[i]) : i \in DOMAIN blocks} = start .. end
        /\ \A i \in 1 .. Len(blocks) - 1 : PortEnd(blocks[i]) < PortStart(blocks[i + 1])
        /\ \A i \in DOMAIN blocks : \A port \in Addrs :
            (blocks[i] \in PortMatches(port)) = (port \in PortRange(blocks[i]))

-----------------------------------------------------------------------------
CONSTANTS Names,            \* ruleset names, with the default one
          DefaultName,      \* DEFAULT_RULESET_NAME
          NoName,           \* Option::None
          WireRulesets,     \* the rulesets messages are made of
          Ips, Stacks,      \* the addresses, and the sets of each family
          Caps, Protos, DefaultProtos, PortSample,
          NoField           \* an absent field of a rule

VARIABLES plain, bart, granted

filterVars == <<plain, bart, granted>>

(***************************************************************************)
(* A rule of a message and the rule of the filter (ts_packetfilter_serde,  *)
(* rule_to_pf).  A source is a capability or a range of addresses.         *)
(***************************************************************************)
\* The subnets ipnet cuts a range into: any exact cut; here single addresses.
SubnetsOf(ips) == {{ip} : ip \in ips}

\* IpRange::contains and iter_prefixes.
RangeIps(r) ==
    CASE r.kind = "wildcard" -> Ips
      [] r.kind = "prefix" -> r.ips
      [] r.kind = "range" -> r.ips
RangePrefixes(r) ==
    CASE r.kind = "wildcard" -> Stacks
      [] r.kind = "prefix" -> {r.ips}
      [] r.kind = "range" -> SubnetsOf(r.ips)

\* Deserialize of FilterRule: a capability grant alone is an application
\* rule, ports or protocols without one a network rule.
RuleKind(w) ==
    CASE w.cap_grant /\ w.dst_ports = NoField /\ w.ip_proto = NoField -> "application"
      [] ~w.cap_grant /\ ~(w.dst_ports = NoField /\ w.ip_proto = NoField) -> "network"
      [] OTHER -> "ambiguous"

OrDefaults(protos) == IF protos \in {NoField, {}} THEN DefaultProtos ELSE protos
OrEmpty(dsts) == IF dsts = NoField THEN {} ELSE dsts

RuleToPf(w) ==
    [pfxs |-> UNION {RangePrefixes(s) : s \in w.src_ranges}, caps |-> w.src_caps,
     protos |-> OrDefaults(w.ip_proto),
     dst |-> {[ips |-> RangePrefixes(d.ip), ports |-> d.ports] : d \in OrEmpty(w.dst_ports)}]

\* rules_to_pf leaves application rules out; a message with an ambiguous rule
\* is not decoded at all.
Decodes(ws) == \A i \in DOMAIN ws : RuleKind(ws[i]) # "ambiguous"
RulesToPf(ws) ==
    LET net == SelectSeq(ws, LAMBDA w : RuleKind(w) = "network")
    IN  [i \in DOMAIN net |-> RuleToPf(net[i])]

Rules == UNION {ToSet(RulesToPf(ws)) : ws \in WireRulesets}
SrcPrefixes == UNION {r.pfxs : r \in Rules}
DstMatches == UNION {r.dst : r \in Rules}
DstPrefixes == UNION {d.ips : d \in DstMatches}

Packets == [src : Ips, dst : Ips, ip_proto : Protos, port : PortSample]

\* pop_freelist, then the next new id.
NextId(free, slots) == IF free # {} THEN Min(free) ELSE Len(slots)

\* Ids count from 0: slot i of a Vec is element i + 1.
Slot(slots, id) == slots[id + 1]
PutSlot(slots, id, v) ==
    IF id = Len(slots) THEN Append(slots, v) ELSE [slots EXCEPT ![id + 1] = v]

\* compact: no trailing empty slots, and the freelist within the slots.
RECURSIVE TrimSlots(_, _)
TrimSlots(slots, none) ==
    IF slots # << >> /\ Last(slots) = none THEN TrimSlots(Front(slots), none) ELSE slots

TrimFree(free, slots) == {id \in free : id < Len(slots)}

(***************************************************************************)
(* CapLookup                                                               *)
(***************************************************************************)
NoId == -1
EmptyCaps == [ids |-> [c \in Caps |-> NoId], rules |-> << >>, free |-> {}]

CapInsert(cl, cap, rule) ==
    LET known == cl.ids[cap] # NoId
        id == IF known THEN cl.ids[cap] ELSE NextId(cl.free, cl.rules)
        old == IF id < Len(cl.rules) THEN Slot(cl.rules, id) ELSE {}
    IN  [ids |-> [cl.ids EXCEPT ![cap] = id],
         rules |-> PutSlot(cl.rules, id, old \cup {rule}),
         free |-> cl.free \ {id}]

CapRemove(cl, rule, cap) ==
    IF cl.ids[cap] = NoId THEN cl
    ELSE LET id == cl.ids[cap]
             left == Slot(cl.rules, id) \ {rule}
             slots == TrimSlots(PutSlot(cl.rules, id, left), {})
             ids == IF left = {} THEN [cl.ids EXCEPT ![cap] = NoId] ELSE cl.ids
             free == IF left = {} THEN cl.free \cup {id} ELSE cl.free
         IN  [ids |-> ids, rules |-> slots, free |-> TrimFree(free, slots)]

CapsLookup(cl, caps) == UNION {Slot(cl.rules, cl.ids[c]) : c \in {d \in caps : cl.ids[d] # NoId}}

(***************************************************************************)
(* DstMatchLookup                                                          *)
(***************************************************************************)
EmptyDsts ==
    [dsts |-> [p \in DstPrefixes |-> {}], ports |-> EmptyPorts,
     ids |-> [d \in DstMatches |-> {}], rules |-> << >>, free |-> {}]

DstIdsOf(dl, rule, dst) == {id \in dl.ids[dst] : Slot(dl.rules, id) = rule}

DstInsert(dl, rule, dst) ==
    LET mine == DstIdsOf(dl, rule, dst)
        id == IF mine # {} THEN Min(mine) ELSE NextId(dl.free, dl.rules)
        slots == TrimSlots(PutSlot(dl.rules, id, rule), NoId)
    IN  [dsts |-> [p \in DstPrefixes |->
                    IF p \in dst.ips THEN dl.dsts[p] \cup {id} ELSE dl.dsts[p]],
         ports |-> PortsAdd(dl.ports, dst.ports, id),
         ids |-> [dl.ids EXCEPT ![dst] = @ \cup {id}],
         rules |-> slots, free |-> TrimFree(dl.free \ {id}, slots)]

DstRemove(dl, rule, dst) ==
    LET mine == DstIdsOf(dl, rule, dst)
        id == Min(mine)
        slots == TrimSlots(PutSlot(dl.rules, id, NoId), NoId)
    IN  IF mine = {} THEN dl
        ELSE [dsts |-> [p \in DstPrefixes |->
                        IF p \in dst.ips THEN dl.dsts[p] \ {id} ELSE dl.dsts[p]],
              ports |-> PortsDrop(dl.ports, dst.ports, id),
              ids |-> [dl.ids EXCEPT ![dst] = @ \ {id}],
              rules |-> slots, free |-> TrimFree(dl.free \cup {id}, slots)]

DstLookup(dl, ip, port) ==
    LET ids == PortsLookup(dl.ports, port) \cap UNION {dl.dsts[p] : p \in {q \in DstPrefixes : ip \in q}}
    IN  {Slot(dl.rules, id) : id \in ids} \ {NoId}

(***************************************************************************)
(* BartFilter                                                              *)
(***************************************************************************)
NoEntry == [ruleset |-> << >>, ids |-> {}, stored |-> FALSE]

EmptyBart ==
    [caps |-> EmptyCaps, srcs |-> [p \in SrcPrefixes |-> {}], dsts |-> EmptyDsts,
     protos |-> [p \in Protos |-> {}], names |-> << >>, free |-> {},
     rulesets |-> [n \in Names |-> NoEntry]]

\* One rule of a ruleset under a new id.
AddRule(b, name, rule) ==
    LET id == NextId(b.free, b.names)
        slots == PutSlot(b.names, id, name)
    IN  [b EXCEPT !.free = @ \ {id}, !.names = slots,
             !.protos = [p \in Protos |-> IF p \in rule.protos THEN @[p] \cup {id} ELSE @[p]],
             !.caps = FoldSet(LAMBDA c, cl : CapInsert(cl, c, id), @, rule.caps),
             !.srcs = [p \in SrcPrefixes |-> IF p \in rule.pfxs THEN @[p] \cup {id} ELSE @[p]],
             !.dsts = FoldSet(LAMBDA d, dl : DstInsert(dl, id, d), @, rule.dst),
             !.rulesets[name] = [ruleset |-> Append(@.ruleset, rule), ids |-> @.ids \cup {id},
                                 stored |-> TRUE]]

\* Mutant of DropRule: the sources keep the id.
DropRuleKeepsSources(b, id, rule) ==
    [b EXCEPT !.protos = [p \in Protos |-> IF p \in rule.protos THEN @[p] \ {id} ELSE @[p]],
              !.dsts = FoldSet(LAMBDA d, dl : DstRemove(dl, id, d), @, rule.dst),
              !.caps = FoldSet(LAMBDA c, cl : CapRemove(cl, id, c), @, rule.caps)]

DropRule(b, id, rule) ==
    [b EXCEPT !.protos = [p \in Protos |-> IF p \in rule.protos THEN @[p] \ {id} ELSE @[p]],
              !.dsts = FoldSet(LAMBDA d, dl : DstRemove(dl, id, d), @, rule.dst),
              !.caps = FoldSet(LAMBDA c, cl : CapRemove(cl, id, c), @, rule.caps),
              !.srcs = [p \in SrcPrefixes |-> IF p \in rule.pfxs THEN @[p] \ {id} ELSE @[p]]]

CompactIds(b) ==
    LET slots == TrimSlots(b.names, NoName)
    IN  [b EXCEPT !.names = slots, !.free = TrimFree(b.free, slots)]

\* rules_and_ids zips the ids, ascending, with the rules in their order.
NthId(ids, i) == CHOOSE id \in ids : Cardinality({j \in ids : j < id}) = i - 1

RECURSIVE DropRules(_, _, _)
DropRules(b, entry, i) ==
    IF i > Len(entry.ruleset) THEN b
    ELSE DropRules(DropRule(b, NthId(entry.ids, i), entry.ruleset[i]), entry, i + 1)

BartRemove(b, name) ==
    LET entry == b.rulesets[name]
        freed == [b EXCEPT !.rulesets[name] = NoEntry, !.free = @ \cup entry.ids,
                    !.names = [i \in DOMAIN @ |-> IF i - 1 \in entry.ids THEN NoName ELSE @[i]]]
    IN  IF ~entry.stored THEN b ELSE CompactIds(DropRules(freed, entry, 1))

RECURSIVE AddRules(_, _, _)
AddRules(b, name, ruleset) ==
    IF ruleset = << >> THEN b ELSE AddRules(AddRule(b, name, Head(ruleset)), name, Tail(ruleset))

BartInsert(b, name, ruleset) ==
    LET fresh == [BartRemove(b, name) EXCEPT
                    !.rulesets[name] = [ruleset |-> << >>, ids |-> {}, stored |-> TRUE]]
    IN  CompactIds(AddRules(fresh, name, ruleset))

\* The source table answers with its longest match only.
SrcIds(b, ip) ==
    LET match == {p \in SrcPrefixes : ip \in p /\ b.srcs[p] # {}}
    IN  IF match = {} THEN {}
        ELSE b.srcs[CHOOSE p \in match : \A q \in match : p \subseteq q]

BartLookup(b, info, caps) ==
    (CapsLookup(b.caps, caps) \cup SrcIds(b, info.src))
        \cap b.protos[info.ip_proto] \cap DstLookup(b.dsts, info.dst, info.port)

\* match_for names the ruleset of the lowest matching id.
BartMatchFor(b, info, caps) ==
    LET ids == BartLookup(b, info, caps)
    IN  IF ids = {} THEN NoName ELSE Slot(b.names, Min(ids))

(***************************************************************************)
(* The map of rulesets                                                     *)
(***************************************************************************)
Absent == [stored |-> FALSE]
EmptyPlain == [n \in Names |-> Absent]

RuleMatches(rule, info, caps) ==
    /\ info.ip_proto \in rule.protos
    /\ (\E p \in rule.pfxs : info.src \in p) \/ caps \cap rule.caps # {}
    /\ \E d \in rule.dst : info.port \in d.ports[1] .. d.ports[2] /\ \E p \in d.ips : info.dst \in p

PlainMatchesIn(f, name, info, caps) ==
    f[name].stored /\ \E i \in DOMAIN f[name].ruleset : RuleMatches(f[name].ruleset[i], info, caps)
PlainMatches(f, info, caps) == \E n \in Names : PlainMatchesIn(f, n, info, caps)

(***************************************************************************)
(* apply_update: the old-style filter goes to the default name unless the  *)
(* message clears, then each name is removed or replaced.  An update says  *)
(* of a name "keep" (not in the message), "null", or a ruleset.  granted   *)
(* is the rulesets in force as the messages sent them.                     *)
(***************************************************************************)
Updates == {[say |-> "keep"], [say |-> "null"]} \cup [say : {"rules"}, ruleset : WireRulesets]

InsertOpFor(name, ruleset) == [op |-> "insert", name |-> name, ruleset |-> ruleset]
RemoveOpFor(name) == [op |-> "remove", name |-> name]

UpdateOps(packetFilter, clear, order, map) ==
    LET base == CASE clear -> <<[op |-> "clear"]>>
                  [] ~clear /\ packetFilter.given -> <<InsertOpFor(DefaultName, packetFilter.ruleset)>>
                  [] OTHER -> << >>
        forName(n) == CASE map[n].say = "keep" -> << >>
                        [] map[n].say = "null" -> <<RemoveOpFor(n)>>
                        [] map[n].say = "rules" /\ map[n].ruleset = << >> -> <<RemoveOpFor(n)>>
                        [] OTHER -> <<InsertOpFor(n, map[n].ruleset)>>
    IN  base \o FlattenSeq([i \in DOMAIN order |-> forName(order[i])])

PlainApply(f, o) ==
    CASE o.op = "clear" -> EmptyPlain
      [] o.op = "remove" -> [f EXCEPT ![o.name] = Absent]
      [] OTHER -> [f EXCEPT ![o.name] = [stored |-> TRUE, ruleset |-> o.ruleset]]

BartApply(b, o) ==
    CASE o.op = "clear" -> EmptyBart
      [] o.op = "remove" -> BartRemove(b, o.name)
      [] OTHER -> BartInsert(b, o.name, o.ruleset)

FilterInit == plain = EmptyPlain /\ bart = EmptyBart /\ granted = [n \in Names |-> << >>]

NameOrder == CHOOSE s \in [1 .. Cardinality(Names) -> Names] : \A i, j \in DOMAIN s : i # j => s[i] # s[j]

Granted(n, packetFilter, clear, map) ==
    CASE map[n].say = "null" -> << >>
      [] map[n].say = "rules" -> map[n].ruleset
      [] map[n].say = "keep" /\ clear -> << >>
      [] map[n].say = "keep" /\ ~clear /\ packetFilter.given /\ n = DefaultName ->
           packetFilter.ruleset
      [] OTHER -> granted[n]

PfField(f) == IF f.given THEN [given |-> TRUE, ruleset |-> RulesToPf(f.ruleset)] ELSE f
PfUpdate(u) == IF u.say = "rules" THEN [say |-> "rules", ruleset |-> RulesToPf(u.ruleset)] ELSE u

ApplyUpdate(packetFilter, clear, map) ==
    LET ops == UpdateOps(PfField(packetFilter), clear, NameOrder,
                         [n \in Names |-> PfUpdate(map[n])])
    IN  /\ packetFilter.given => Decodes(packetFilter.ruleset)
        /\ \A n \in Names : map[n].say = "rules" => Decodes(map[n].ruleset)
        /\ plain' = FoldLeft(PlainApply, plain, ops)
        /\ bart' = FoldLeft(BartApply, bart, ops)
        /\ granted' = [n \in Names |-> Granted(n, packetFilter, clear, map)]

FilterNext ==
    \E packetFilter \in {[given |-> FALSE]} \cup [given : {TRUE}, ruleset : WireRulesets],
       clear \in BOOLEAN, map \in [Names -> Updates] :
        ApplyUpdate(packetFilter, clear, map)

FilterSpec == FilterInit /\ [][FilterNext]_filterVars

(***************************************************************************)
(* Properties                                                              *)
(***************************************************************************)
\* What the messages said decides: a packet passes exactly if a network rule
\* of a ruleset in force has its source among its ranges or capabilities, its
\* protocol (or the default ones), and its destination and port together in
\* one of its destinations.  Application rules pass nothing.
WirePasses(w, info, caps) ==
    /\ RuleKind(w) = "network"
    /\ info.ip_proto \in (IF w.ip_proto \in {NoField, {}} THEN DefaultProtos ELSE w.ip_proto)
    /\ (\E r \in w.src_ranges : info.src \in RangeIps(r)) \/ caps \cap w.src_caps # {}
    /\ \E d \in OrEmpty(w.dst_ports) :
        info.dst \in RangeIps(d.ip) /\ info.port \in d.ports[1] .. d.ports[2]
MessagesDecide ==
    \A info \in Packets, caps \in SUBSET Caps :
        PlainMatches(plain, info, caps)
            = \E n \in Names : \E i \in DOMAIN granted[n] : WirePasses(granted[n][i], info, caps)

\* Both implementations pass the same packets, and the name BartFilter gives
\* is that of a ruleset that does match.
FiltersAgree ==
    \A info \in Packets, caps \in SUBSET Caps :
        LET name == BartMatchFor(bart, info, caps)
        IN  /\ (name # NoName) = PlainMatches(plain, info, caps)
            /\ name # NoName => PlainMatchesIn(plain, name, info, caps)

\* Ids are reused without a trace: every id any index holds is that of a live
\* rule with that part, a free id is held nowhere, and no id is lost.
IdsLive ==
    LET liveIds == {i - 1 : i \in {j \in DOMAIN bart.names : bart.names[j] # NoName}}
        slotIds(slots, none) == {i - 1 : i \in {j \in DOMAIN slots : slots[j] # none}}
    IN  /\ liveIds = UNION {bart.rulesets[n].ids : n \in {m \in Names : bart.rulesets[m].stored}}
        /\ bart.free = (0 .. Len(bart.names) - 1) \ liveIds
        /\ UNION {bart.protos[p] : p \in Protos} \subseteq liveIds
        /\ UNION {bart.srcs[p] : p \in SrcPrefixes} \subseteq liveIds
        /\ \A i \in DOMAIN bart.caps.rules : bart.caps.rules[i] \subseteq liveIds
        /\ bart.caps.free = (0 .. Len(bart.caps.rules) - 1) \ slotIds(bart.caps.rules, {})
        /\ \A i \in DOMAIN bart.dsts.rules : bart.dsts.rules[i] \in liveIds \cup {NoId}
        /\ bart.dsts.free = (0 .. Len(bart.dsts.rules) - 1) \ slotIds(bart.dsts.rules, NoId)
        /\ UNION {bart.dsts.ids[d] : d \in DstMatches} = slotIds(bart.dsts.rules, NoId)
        /\ UNION {bart.dsts.dsts[p] : p \in DstPrefixes} \subseteq slotIds(bart.dsts.rules, NoId)
=============================================================================
