----------------------------- MODULE OperState -----------------------------
(***************************************************************************)
(* The callbacks that answer requests for operational data:                *)
(* ietf_interface_state_cb, interface_statistics_cb (ietf_interface.cpp),  *)
(* oc_interfaces_state_cb (openconfig_interfaces.cpp) and nat_cap_state_cb *)
(* (ietf_nat.cpp), with the dump of VPP's interfaces (vpp-oper).           *)
(*                                                                         *)
(* They change no state: each is the function of the state, and of what    *)
(* VPP and the allocator do, that gives its answer, the number of values   *)
(* allocated and the values filled in.  A value is for an interface and a  *)
(* leaf; what is only copied has value "any".                              *)
(***************************************************************************)
EXTENDS Vom, FiniteSets

\* vapi_enum_if_status_flags
ADMIN_UP == 1
LINK_UP == 2

\* The interfaces VPP has.
VppItfs == LiveItf(AtBoot \cup vppUp, vppL3)

\* flags of sw_interface_details, when the interfaces in link have a carrier.
Flags(n, link) == (IF n \in vppUp THEN ADMIN_UP ELSE 0) + (IF n \in link THEN LINK_UP ELSE 0)

\* interface_dump of all interfaces: what HW::write brings; nothing if the command
\* fails.
Dump(ok) == IF ok THEN VppItfs ELSE {}

\* What interface_dump of the interface called n may bring.  The name is copied to
\* the filter but its length is not, and VPP compares with parts of names: n if VPP
\* has it, and any others.
DumpsOf(n, ok) == {s \in SUBSET Dump(ok) : n \in Dump(ok) => n \in s}

\* The flags are compared, not masked.
AdminStatus(f) == IF f = ADMIN_UP THEN "up" ELSE "down"
OperStatus(f) == IF f = LINK_UP THEN "up" ELSE "down"

Val(n, leaf, v) == [itf |-> n, leaf |-> leaf, value |-> v]
Copied(n, leaves) == {Val(n, leaf, "any") : leaf \in leaves}

IetfVals(n, f) ==
    {Val(n, "admin-status", AdminStatus(f)), Val(n, "oper-status", OperStatus(f))}
      \cup Copied(n, {"phys-address", "if-index", "speed"})

OcVals(n, f) ==
    {Val(n, "admin-status", AdminStatus(f)), Val(n, "oper-status", OperStatus(f)),
     Val(n, "enabled", IF f # 0 THEN "up" ELSE "down")}
      \cup Copied(n, {"name", "type", "mtu", "ifindex"})

StatsVals(n) == Copied(n, {"in-octets", "in-unicast-pkts", "in-broadcast-pkts",
    "in-multicast-pkts", "out-octets", "out-unicast-pkts", "out-broadcast-pkts",
    "out-multicast-pkts"})

\* The answer with room for size values; none if sr_new_values fails, or the
\* request names no interface.
Answer(size, vals, mem) ==
    IF mem THEN [size |-> size, vals |-> vals] ELSE [size |-> 0, vals |-> {}]

\* Mutant of IetfSize: memory for one interface only.
IetfSize_one(dump) == 1

\* One interface more than there are is allowed for.
IetfSize(dump) == Cardinality(dump) + 1

ietf_interface_state_cb(ok, mem, link) ==
    LET dump == Dump(ok) IN
    Answer(IetfSize(dump) * 6, UNION {IetfVals(n, Flags(n, link)) : n \in dump}, mem)

\* dump->begin() is read without a look at the end of the list: the process dies
\* if the list is empty.
OcStateDies(n, ok) == {} \in DumpsOf(n, ok)

\* The state of n is answered with what the dump has of its first interface, m.
oc_interfaces_state_cb(n, m, link, mem) == Answer(7, OcVals(n, Flags(m, link)), mem)

interface_statistics_cb(n, mem) == Answer(8, StatsVals(n), mem /\ n \in Found)

nat_cap_state_cb(mem) == Answer(1, {Val("nat", "static-mapping", "any")}, mem)

\* The answers that requests about interfaces in s can get now, as long as there
\* is memory for them, when the interfaces in link have a carrier.
Answers(s, link) ==
    {ietf_interface_state_cb(ok, TRUE, link) : ok \in BOOLEAN}
      \cup {oc_interfaces_state_cb(x[1], x[2], link, TRUE) : x \in s \X VppItfs}
      \cup {interface_statistics_cb(n, TRUE) : n \in s}
      \cup {nat_cap_state_cb(TRUE)}

-----------------------------------------------------------------------------
\* No callback fills in more values than it has allocated, whatever interfaces
\* VPP has (ietf_interface.cpp:403-448, :499-551, openconfig_interfaces.cpp:227-271).
\* Carriers change the values, not their number: all interfaces have one here.
AnswerFits == \A a \in Answers(Ifs, VppItfs) : Cardinality(a.vals) <= a.size

\* "admin-state: state as required by configuration" (ietf_interface.cpp:413): an
\* interface is reported admin up if and only if configuration has brought it up in
\* VPP, whether it has a carrier or not.  The code compares the word of flags with
\* one of them.
AdminStatusIsConfigured ==
    \A link \in SUBSET VppItfs : \A v \in ietf_interface_state_cb(TRUE, TRUE, link).vals :
        v.leaf = "admin-status" => (v.value = "up" <=> v.itf \in vppUp)
=============================================================================
