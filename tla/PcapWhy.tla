------------------------------- MODULE PcapWhy -------------------------------
(***************************************************************************)
(* pcapwhy reads captures up to a number of packets and of flows           *)
(* (internal/pcapwhy, cmd/pcapwhy).  A packet is what its layers decode    *)
(* to; an address is a sequence, of which only the concatenation matters.  *)
(***************************************************************************)
EXTENDS Integers, Sequences, FiniteSets

\* The transports in the order endpoints asks for them; an address without one is "ip".
Transports == <<"tcp", "udp", "icmp", "icmpv6">>
HasAddress(p) == "ip" \in p.layers
endpoints(p) ==
    LET known == SelectSeq(Transports, LAMBDA t : t \in p.layers) IN
    IF ~HasAddress(p) THEN <<>>
    ELSE <<p.source, p.destination, IF known = <<>> THEN "ip" ELSE known[1]>>

\* The flags in the order they are printed.
tcpFlags(p) == SelectSeq(<<"SYN", "ACK", "RST", "FIN">>, LAMBDA f : f \in p.flags)

icmpMeaning(code) ==
    CASE code = "prohibited" -> "filtered"
      [] code \in {"fragmentation needed", "too big"} -> "mtu"
      [] code = "unreachable" -> "unreachable"
      [] code = "exceeded" -> "loop"
      [] OTHER -> "observed"

IsIcmp(p) == p.layers \intersect {"icmp", "icmpv6"} /= {}
icmpEvent(p) == [source |-> IF HasAddress(p) THEN p.source ELSE <<>>,
                 destination |-> IF HasAddress(p) THEN p.destination ELSE <<>>,
                 code |-> p.code, meaning |-> icmpMeaning(p.code)]

\* Maps that keep the last entry of a key.  The key of an ICMP event runs its
\* addresses together.
Put(map, key, value) == [k \in DOMAIN map \union {key} |-> IF k = key THEN value ELSE map[k]]
IcmpKey(e) == <<e.source \o e.destination, e.code>>

Nothing(path) ==
    [path |-> path, truncated |-> FALSE, packets |-> 0, flows |-> <<>>, vlans |-> {}, icmp |-> <<>>, resets |-> <<>>,
     payload |-> [packets |-> 0, bytes |-> 0, max |-> 0, decoders |-> {}]]

Counted(c, p) == [c EXCEPT !.packets = @ + 1, !.vlans = @ \union p.vlans]

WithFlow(c, p) ==
    LET key == endpoints(p) old == IF key \in DOMAIN c.flows THEN c.flows[key] ELSE [packets |-> 0, bytes |-> 0] IN
    IF key = <<>> THEN c
    ELSE [c EXCEPT !.flows = Put(@, key, [packets |-> old.packets + 1, bytes |-> old.bytes + p.length])]

\* A packet without a layer for addresses has empty ones.
IsReset(p) == "tcp" \in p.layers /\ "RST" \in p.flags
Way(p) == <<p.source, p.destination>>
WithReset(c, p) == IF IsReset(p) THEN [c EXCEPT !.resets = Put(@, Way(p), tcpFlags(p))] ELSE c

WithIcmp(c, p) ==
    IF IsIcmp(p) THEN [c EXCEPT !.icmp = Put(@, IcmpKey(icmpEvent(p)), icmpEvent(p))] ELSE c

WithPayload(c, p) ==
    IF p.payload = 0 THEN c
    ELSE [c EXCEPT !.payload = [packets |-> @.packets + 1, bytes |-> @.bytes + p.payload,
             max |-> IF p.payload > @.max THEN p.payload ELSE @.max,
             decoders |-> @.decoders \union (p.layers \intersect {"dns", "tls"})]]

\* A new flow for which there is no place ends the analysis of its packet.
NoPlace(c, p, maxFlows) ==
    HasAddress(p) /\ endpoints(p) \notin DOMAIN c.flows /\ Cardinality(DOMAIN c.flows) >= maxFlows

Packet(c, p, maxFlows) ==
    IF NoPlace(c, p, maxFlows) THEN Counted(c, p)
    ELSE WithPayload(WithIcmp(WithReset(WithFlow(Counted(c, p), p), p), p), p)

\* A capture is a file, its packets, and whether they end in an error.
Reached(capture, maxPackets) == Len(capture.packets) >= maxPackets
Size(capture, maxPackets) == IF Reached(capture, maxPackets) THEN maxPackets ELSE Len(capture.packets)
analyzeFile(capture, options) ==
    LET size == Size(capture, options.maxPackets)
        after[i \in 0..size] ==
            IF i = 0 THEN Nothing(capture.path) ELSE Packet(after[i - 1], capture.packets[i], options.maxFlows)
    IN  [after[size] EXCEPT !.truncated = after[size].packets = options.maxPackets]
Fails(capture, options) == ~capture.opens \/ (capture.error /\ ~Reached(capture, options.maxPackets))

\* For every flow the paths that show it.
compare(captures) ==
    LET flows == UNION {DOMAIN captures[i].flows : i \in DOMAIN captures} IN
    [f \in flows |-> {captures[i].path : i \in {i \in DOMAIN captures : f \in DOMAIN captures[i].flows}}]

MostPackets == 1000000
MostFlows == 100000
Beyond(options) ==
    \/ options.maxPackets < 1 \/ options.maxPackets > MostPackets
    \/ options.maxFlows < 1 \/ options.maxFlows > MostFlows

Analyze(in) ==
    LET Refused(status) == [exit |-> status, captures |-> <<>>, comparisons |-> <<>>]
        report == [i \in DOMAIN in.captures |-> analyzeFile(in.captures[i], in.options)]
    IN  IF in.captures = <<>> \/ Beyond(in.options) THEN Refused(2)
        ELSE IF \E i \in DOMAIN in.captures : Fails(in.captures[i], in.options) THEN Refused(4)
        ELSE [exit |-> IF \E i \in DOMAIN report : report[i].truncated THEN 3 ELSE 0, captures |-> report,
              comparisons |-> IF Len(report) > 1 THEN compare(report) ELSE <<>>]

\* The captures and options there can be.
IsCaptures(in) ==
    /\ in.captures \in Seq({in.captures[i] : i \in DOMAIN in.captures})
    /\ in.options.maxPackets \in Int /\ in.options.maxFlows \in Int
    /\ \A i \in DOMAIN in.captures : LET packets == in.captures[i].packets IN
        /\ packets \in Seq({packets[n] : n \in DOMAIN packets})
        /\ \A n \in DOMAIN packets : packets[n].payload \in Nat /\ packets[n].length \in Nat
        /\ in.captures[i].opens \in BOOLEAN /\ in.captures[i].error \in BOOLEAN

-----------------------------------------------------------------------------
\* The bytes of payload of the first packets.
Paid(packets) ==
    LET upTo[i \in 0..Len(packets)] == IF i = 0 THEN 0 ELSE upTo[i - 1] + packets[i].payload
    IN  upTo

\* Every flow, reset and byte of payload of the first n packets, and of each ICMP message
\* itself or one of the same code whose addresses run together to the same.
Whole(packets, n, c) ==
    LET icmps == {i \in 1..n : IsIcmp(packets[i])} IN
    /\ DOMAIN c.flows = {endpoints(packets[i]) : i \in {i \in 1..n : HasAddress(packets[i])}}
    /\ DOMAIN c.resets = {Way(packets[i]) : i \in {i \in 1..n : IsReset(packets[i])}}
    /\ c.payload.packets = Cardinality({i \in 1..n : packets[i].payload > 0})
    /\ c.payload.bytes = Paid(packets)[n]
    /\ \A i \in icmps : LET k == IcmpKey(icmpEvent(packets[i])) IN
        /\ k \in DOMAIN c.icmp
        /\ \E j \in icmps : c.icmp[k] = icmpEvent(packets[j]) /\ IcmpKey(c.icmp[k]) = k

\* No more flows are kept than there is place for, each with all of its packets; and all
\* that there is when there is place left.
Kept(packets, n, maxFlows, c) ==
    LET Flow(f) == {i \in 1..n : endpoints(packets[i]) = f} IN
    /\ Cardinality(DOMAIN c.flows) <= maxFlows
    /\ \A f \in DOMAIN c.flows : c.flows[f].packets = Cardinality(Flow(f)) /\ Flow(f) /= {}
    /\ Cardinality(DOMAIN c.flows) < maxFlows => Whole(packets, n, c)

\* What a report is complete about: status 0 means that every packet of every capture
\* was read, and what is kept of the packets read is all of them but for the bound of
\* flows; the comparison shows a flow in every capture that has it and in no other.
CompleteMeansAll(in, out) ==
    out.exit \notin {2, 4} =>
        /\ \A i \in DOMAIN in.captures : LET capture == in.captures[i] IN
            /\ out.exit = 0 => ~capture.error /\ out.captures[i].packets = Len(capture.packets)
            /\ Kept(capture.packets, Size(capture, in.options.maxPackets), in.options.maxFlows, out.captures[i])
        /\ \A f \in DOMAIN out.comparisons : \A i \in DOMAIN in.captures :
            in.captures[i].path \in out.comparisons[f] <=>
                \E j \in DOMAIN in.captures : in.captures[j].path = in.captures[i].path
                    /\ f \in DOMAIN out.captures[j].flows
=============================================================================
