------------------------------ MODULE MCTables ------------------------------
(***************************************************************************)
(* Model checking of the containers, the routing table, the packet filter  *)
(* and the datagram carriers, each by itself: part says which one runs,    *)
(* the others rest in their initial states.  The pure operators (prefix    *)
(* indices, port blocks) are checked on every pair of inputs, which probe  *)
(* holds.                                                                  *)
(***************************************************************************)
EXTENDS PacketFilter

CONSTANTS
    a, b, c,              \* the addresses the filter sees
    Values, NoValue,      \* what the containers hold
    RoutePrefixes         \* of the routing table, by address family

VARIABLES
    part,
    bits, members, dyn, wanted, occupied, storage, entries,   \* Bitset
    probe,                        \* BaseIndex, PacketFilter
    tables, routes,               \* BartTable
    datagram, pn                  \* Obfs

bitsVars == <<bits, members>>
arrayVars == <<occupied, storage, entries>>
dynVars == <<dyn, wanted>>
tableVars == <<tables, routes>>
obfsVars == <<datagram, pn>>

-----------------------------------------------------------------------------
(* The instances. *)
Others == {{}, {0}, {1, 2, 5}, {4, 5}, {0, 2, 4, 6}, {7}}
Wide == INSTANCE Bitset WITH
    WordBits <- 3, Words <- 3, MaxBit <- 7, ArrayWords <- 3, Elements <- Values, Absent <- NoValue
Narrow == INSTANCE Bitset WITH
    WordBits <- 2, Words <- 3, MaxBit <- 7, ArrayWords <- 3, Elements <- Values, Absent <- NoValue
Idx == INSTANCE BaseIndex WITH StrideBits <- 4, Strides <- 1

(* Prefixes within one stride, on its boundary, and nested across all three; *)
(* the second family has a table of its own.                                 *)
MCRoutePrefixes ==
    LET net(addr, len) == [addr |-> addr, len |-> len]
    IN  [v4 |-> {net(0, 0), net(0, 2), net(0, 3), net(0, 4), net(0, 6), net(44, 5), net(48, 2),
                 net(63, 6)},
         v6 |-> {net(16, 3)}]
Bart == INSTANCE BartTable WITH StrideBits <- 2, Strides <- 3, Stacks <- {"v4", "v6"}

(* Rules with ranges, prefixes, wildcards, capabilities, missing and empty  *)
(* protocol lists, an application rule, and a rule without destinations.    *)
Rule(srcs, caps, protos, dst, grant) ==
    [src_ranges |-> srcs, src_caps |-> caps, ip_proto |-> protos, dst_ports |-> dst,
     cap_grant |-> grant]
AnyIp == [kind |-> "wildcard"]
Pfx(ips) == [kind |-> "prefix", ips |-> ips]
Span(ips) == [kind |-> "range", ips |-> ips]
To(r, lo, hi) == [ip |-> r, ports |-> <<lo, hi>>]
R1 == Rule({Pfx({a})}, {}, {"tcp"}, {To(Pfx({a, b}), 2, 9)}, FALSE)
R2 == Rule({}, {"k"}, NoField, {To(Pfx({a}), 5, 5), To(AnyIp, 2, 9)}, FALSE)
R3 == Rule({Span({b, c})}, {"k", "l"}, {}, {To(Span({a, b}), 0, 15)}, FALSE)
R4 == Rule({Pfx({a})}, {"l"}, {"udp"}, {To(Pfx({a, b}), 2, 9)}, FALSE)
R5 == Rule({AnyIp}, {}, NoField, NoField, TRUE)
R6 == Rule({Pfx({c})}, {}, {"tcp"}, NoField, FALSE)
MCRulesets == {<< >>, <<R5, R2, R1>>, <<R3, R4, R6>>}
MCStacks == {{a, b}, {c}}

Carrier == INSTANCE Obfs WITH SymBits <- 3, MaxDatagram <- 4, Bytes <- {0, 1, 6, 9, 15},
                              DcidLen <- 2, PnLen <- 2

(* Ranges of one port less than all are cut like the whole range. *)
Cuts == {r \in Addrs \X Addrs :
            r[1] <= r[2] /\ r[2] - r[1] + 1 # MaxPort}

-----------------------------------------------------------------------------
Init ==
    /\ \/ /\ part \in {"bits", "array", "dyn", "table", "filter", "carrier"}
          /\ probe = <<0, 0>>
       \/ part = "index" /\ probe \in Idx!Octets \X Idx!Octets
       \/ part = "ports" /\ probe \in Cuts
    /\ Wide!OpsInit /\ Narrow!ArrayInit /\ Narrow!DynInit /\ Bart!TableInit /\ FilterInit
    /\ Carrier!ObfsInit

BitsStep ==
    /\ part = "bits" /\ Wide!OpsNext
    /\ UNCHANGED <<part, probe, arrayVars, dynVars, tableVars, filterVars, obfsVars>>
ArrayStep ==
    /\ part = "array" /\ Narrow!ArrayNext
    /\ UNCHANGED <<part, probe, bitsVars, dynVars, tableVars, filterVars, obfsVars>>
DynStep ==
    /\ part = "dyn" /\ Narrow!DynNext
    /\ UNCHANGED <<part, probe, bitsVars, arrayVars, tableVars, filterVars, obfsVars>>
TableStep ==
    /\ part = "table" /\ Bart!TableNext
    /\ UNCHANGED <<part, probe, bitsVars, arrayVars, dynVars, filterVars, obfsVars>>
FilterStep ==
    /\ part = "filter" /\ FilterNext
    /\ UNCHANGED <<part, probe, bitsVars, arrayVars, dynVars, tableVars, obfsVars>>
CarrierStep ==
    /\ part = "carrier" /\ Carrier!ObfsNext
    /\ UNCHANGED <<part, probe, bitsVars, arrayVars, dynVars, tableVars, filterVars>>

Next == BitsStep \/ ArrayStep \/ DynStep \/ TableStep \/ FilterStep \/ CarrierStep

vars == <<part, probe, bitsVars, arrayVars, dynVars, tableVars, filterVars, obfsVars>>
Spec == Init /\ [][Next]_vars

-----------------------------------------------------------------------------
(* The properties, of the part that runs.                                  *)

(* A container answers as what it stands for would, after any updates: the *)
(* words of a bitset, static or dynamic, with their searches, ranks and    *)
(* iterations, as a set; the packed array as a map, with elements that     *)
(* stay in place; and the trie as a map from prefix to value, of which a   *)
(* lookup finds the longest prefix, the size counts the routes, the walk   *)
(* visits each once, and no node could be a compressed leaf.               *)
ContainersMatch ==
    /\ part = "bits" => Wide!WordsHoldMembers /\ Wide!SearchesMatchMembers
    /\ part = "array" => Narrow!ElementsStayInPlace /\ Narrow!IterationsMatch
    /\ part = "dyn" => Narrow!NoTrailingEmpty /\ Narrow!DynMatchesSet
    /\ part = "table" => /\ Bart!LookupsMatchRoutes /\ Bart!SizeIsRouteCount
                         /\ Bart!PathsCompressed /\ Bart!WalkVisitsAll

(* Conversions lose nothing: prefix indices agree with the prefixes they   *)
(* number, a port range is cut into disjoint blocks that match exactly its *)
(* ports, and a carrier unwraps the datagram it wrapped.                   *)
ConversionsExact ==
    /\ part = "index" => Idx!IndexAlgebra(probe[1], probe[2])
    /\ part = "ports" => ExactCut(probe[1], probe[2])
    /\ part = "carrier" => Carrier!CarriersInvert

(* A packet passes exactly if a ruleset in force, as it was sent, says so; *)
(* the indexed filter and the plain one pass the same packets, and the ids *)
(* in the indices are those of live rules, although ids are used again.    *)
FiltersDecide == part = "filter" => MessagesDecide /\ FiltersAgree /\ IdsLive
=============================================================================
