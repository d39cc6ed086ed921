-------------------------------- MODULE Vom --------------------------------
(***************************************************************************)
(* VOM, the VPP Object Model library, and VPP itself, as the plugins of    *)
(* src/plugins use them.  Neither is part of this repository: every        *)
(* definition here is external and modelled from its use                   *)
(* (OM::write, OM::remove, OM::populate, interface::find, HW::write).      *)
(*                                                                         *)
(* VOM keeps one shared instance per object and, per client key, the list  *)
(* of instances the key owns.  The plugins use three kinds of key: "boot"  *)
(* (OM::populate in sc_plugins.c), an interface's name, and                *)
(* "l3_<interface>_<prefix>".  The last two own at most the one object     *)
(* they name, so ownership is a set of interfaces and a set of bindings    *)
(* for "boot" and one each for all other keys.  An l3 binding also holds a *)
(* reference to its interface.  An object without an owner is swept: its   *)
(* configuration is taken out of VPP.                                      *)
(*                                                                         *)
(* Each attribute VOM pushes to VPP carries the outcome of the last push;  *)
(* writing an attribute that already has the desired value with outcome OK *)
(* sends nothing.  ok is the outcome of the command(s) sent, an input.     *)
(***************************************************************************)
EXTENDS Integers

CONSTANTS Ifs,          \* interface names
          Addr,         \* IP addresses
          AtBoot        \* the interfaces VPP has when the plugin is loaded

ASSUME AtBootAssumption == AtBoot \subseteq Ifs

VARIABLES bootItf,      \* interfaces owned by key "boot"
          usrItf,       \* interfaces owned by the key that is their name
          bootL3,       \* bindings owned by key "boot"
          usrL3,        \* bindings owned by their own key
          admin,        \* m_state of each interface instance, TRUE is up
          adminOk,      \* interfaces whose m_state was pushed with outcome OK
          l3Ok,         \* bindings pushed with outcome OK
          vppUp,        \* VPP: the interfaces that are admin up
          vppL3         \* VPP: the addresses configured on interfaces

vomVars == <<bootItf, usrItf, bootL3, usrL3, admin, adminOk, l3Ok>>
vppVars == <<vppUp, vppL3>>
hwVars == <<bootItf, usrItf, bootL3, usrL3, admin, adminOk, l3Ok, vppUp, vppL3>>

\* An address with its prefix length (uint8_t) on an interface: l3_binding.
Binding == [itf : Ifs, addr : Addr, plen : 0 .. 255]

VomTypeOK ==
    /\ bootItf \in SUBSET Ifs
    /\ usrItf \in SUBSET Ifs
    /\ bootL3 \in SUBSET Binding
    /\ usrL3 \in SUBSET Binding
    /\ admin \in [Ifs -> BOOLEAN]
    /\ adminOk \in SUBSET Ifs
    /\ l3Ok \in SUBSET Binding
    /\ vppUp \in SUBSET Ifs
    /\ vppL3 \in SUBSET Binding

\* The interfaces that still have an instance when itfs and l3s are
\* the interface and binding objects owned by keys.
LiveItf(itfs, l3s) == itfs \cup {b.itf : b \in l3s}

\* interface::find(name) returns an instance for these names.
Found == LiveItf(bootItf \cup usrItf, bootL3 \cup usrL3)

\* After HW::connect and OM::populate("boot") on a VPP that has no
\* configuration yet.
VomInit ==
    /\ bootItf = AtBoot
    /\ usrItf = {}
    /\ bootL3 = {}
    /\ usrL3 = {}
    /\ admin = [n \in Ifs |-> FALSE]
    /\ adminOk = AtBoot
    /\ l3Ok = {}
    /\ vppUp = {}
    /\ vppL3 = {}

\* OM::populate("boot") in a fresh process: what VPP has is read back and
\* owned by "boot".
OM_populate ==
    /\ bootItf' = LiveItf(AtBoot \cup vppUp, vppL3)
    /\ bootL3' = vppL3
    /\ usrItf' = {}
    /\ usrL3' = {}
    /\ admin' = [n \in Ifs |-> n \in vppUp]
    /\ adminOk' = bootItf'
    /\ l3Ok' = vppL3
    /\ UNCHANGED vppVars

\* interface::set(state): the instance changes, nothing is pushed.
Itf_set(n, up) ==
    /\ admin' = [admin EXCEPT ![n] = up]
    /\ adminOk' = adminOk \ {n}
    /\ UNCHANGED <<bootItf, usrItf, bootL3, usrL3, l3Ok, vppUp, vppL3>>

\* Does OM::write(n, interface(n, up)) send a command to VPP?
SendsItf(n, up) == n \notin Found \/ admin[n] # up \/ n \notin adminOk

\* OM::write(n, interface(n, up)); it returns OK iff ~SendsItf(n, up) \/ ok.
OM_write_itf(n, up, ok) ==
    LET sends == SendsItf(n, up) IN
    /\ usrItf' = usrItf \cup {n}
    /\ admin' = [admin EXCEPT ![n] = up]
    /\ adminOk' = IF sends /\ ~ok THEN adminOk \ {n} ELSE adminOk \cup {n}
    /\ vppUp' = IF sends /\ ok
                THEN IF up THEN vppUp \cup {n} ELSE vppUp \ {n}
                ELSE vppUp
    /\ UNCHANGED <<bootItf, bootL3, usrL3, l3Ok, vppL3>>

\* The instances in gone lost their last owner: interface::sweep brings an
\* interface it had pushed up down again.
SweepItf(gone, ok) ==
    /\ adminOk' = adminOk \ gone
    /\ vppUp' = IF ok THEN vppUp \ (gone \cap adminOk) ELSE vppUp
    /\ UNCHANGED admin

\* OM::remove(n), the key that is the name of interface n.
OM_remove_itf(n, ok) ==
    /\ usrItf' = usrItf \ {n}
    /\ SweepItf(Found \ LiveItf(bootItf \cup usrItf', bootL3 \cup usrL3), ok)
    /\ UNCHANGED <<bootItf, bootL3, usrL3, l3Ok, vppL3>>

\* OM::write(KEY(b), b); it returns OK iff b \in l3Ok \/ ok.
OM_write_l3(b, ok) ==
    /\ usrL3' = usrL3 \cup {b}
    /\ l3Ok' = IF ok THEN l3Ok \cup {b} ELSE l3Ok
    /\ vppL3' = IF ok /\ b \notin l3Ok THEN vppL3 \cup {b} ELSE vppL3
    /\ UNCHANGED <<bootItf, usrItf, bootL3, admin, adminOk, vppUp>>

\* OM::remove(KEY(b)).  A binding that is not owned by its own key, or that
\* "boot" owns too, stays.
OM_remove_l3(b, ok) ==
    LET gone == ({b} \cap usrL3) \ bootL3 IN
    /\ usrL3' = usrL3 \ {b}
    /\ l3Ok' = l3Ok \ gone
    /\ vppL3' = IF ok THEN vppL3 \ (gone \cap l3Ok) ELSE vppL3
    /\ SweepItf(Found \ LiveItf(bootItf \cup usrItf, bootL3 \cup usrL3'), ok)
    /\ UNCHANGED <<bootItf, usrItf, bootL3>>
=============================================================================
