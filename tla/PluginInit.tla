----------------------------- MODULE PluginInit -----------------------------
(***************************************************************************)
(* How the YANG models of the plugin are registered, initialised and       *)
(* released: src/plugins/sc_init.h, sc_init.c, and the init and cleanup    *)
(* callbacks of sc_plugins.c.                                              *)
(*                                                                         *)
(* When the library is loaded a constructor per model pushes its init      *)
(* function on a linked list.  sysrepo-plugind (external) calls            *)
(* sr_plugin_init_cb, calls it again later if it failed, calls             *)
(* sr_plugin_cleanup_cb when it is done with the plugin, after which it    *)
(* may initialise it anew or unload the library, which runs the            *)
(* destructors.  An init function makes a fixed number of subscriptions    *)
(* and returns at the first one that fails.  The exit functions of all     *)
(* models are empty.                                                       *)
(***************************************************************************)
EXTENDS Integers, Sequences, SequencesExt

CONSTANTS Fn,           \* the models' init functions
          Subs,         \* how many subscriptions each of them makes
          MaxInits      \* bound: calls of sr_plugin_init_cb

ASSUME InitAssumption ==
    /\ Subs \in [Fn -> Nat \ {0}]
    /\ MaxInits \in Nat

VARIABLES
    list,           \* init_function_registrations, head first
    is_called,      \* the functions whose is_called is set
    phase,          \* where the library or the callback is
    p,              \* position in list of the loop of sc_call_all_init_function
    k,              \* subscriptions made by the running init function
    active,         \* subscriptions in force, as <<function, number>>
    subscription,   \* sc_plugin_main.subscription: "null", "live" or "freed"
    private_ctx,    \* the context sysrepo-plugind keeps
    inits           \* calls of sr_plugin_init_cb so far

vars == <<list, is_called, phase, p, k, active, subscription, private_ctx, inits>>

Subscription == {x \in Fn \X UNION {1 .. Subs[f] : f \in Fn} : x[2] <= Subs[x[1]]}

TypeOK ==
    /\ list \in Seq(Fn)
    /\ is_called \in SUBSET Fn
    /\ phase \in {"loading", "loaded", "initfns", "subscribing", "pid", "ready",
                  "unloading", "unloaded", "crashed"}
    /\ p \in Nat
    /\ k \in Nat
    /\ active \in SUBSET Subscription
    /\ subscription \in {"null", "live", "freed"}
    /\ private_ctx \in {"null", "live", "freed"}
    /\ inits \in 0 .. MaxInits

-----------------------------------------------------------------------------
(* Loading and unloading the library.                                      *)

\* __sc_add_init_function_f: constructors run in an order the linker chooses.
AddFunction(f) ==
    /\ phase = "loading"
    /\ f \notin ToSet(list)
    /\ list' = <<f>> \o list
    /\ is_called' = is_called \ {f}
    /\ UNCHANGED <<phase, p, k, active, subscription, private_ctx, inits>>

Loaded ==
    /\ phase = "loading"
    /\ ToSet(list) = Fn
    /\ phase' = "loaded"
    /\ UNCHANGED <<list, is_called, p, k, active, subscription, private_ctx, inits>>

Unload ==
    /\ phase = "loaded"
    /\ phase' = "unloading"
    /\ UNCHANGED <<list, is_called, p, k, active, subscription, private_ctx, inits>>

\* __sc_rm_init_function_f: destructors run in any order; f is unlinked whether
\* it is the head or behind another element.
RmFunction(f) ==
    /\ phase = "unloading"
    /\ f \in ToSet(list)
    /\ list' = RemoveFirst(list, f)
    /\ UNCHANGED <<is_called, phase, p, k, active, subscription, private_ctx, inits>>

Unloaded ==
    /\ phase = "unloading"
    /\ list = <<>>
    /\ phase' = "unloaded"
    /\ UNCHANGED <<list, is_called, p, k, active, subscription, private_ctx, inits>>

-----------------------------------------------------------------------------
(* sr_plugin_init_cb                                                       *)

\* Connecting and populating VOM are in module HealthCheck; the loop begins.
InitBegin ==
    /\ phase = "loaded"
    /\ inits < MaxInits
    /\ inits' = inits + 1
    /\ phase' = "initfns"
    /\ p' = 1
    /\ UNCHANGED <<list, is_called, k, active, subscription, private_ctx>>

\* Mutant of NotCalled: is_called is not tested.
NotCalled_untested(f) == TRUE

\* if (!p->is_called)
NotCalled(f) == f \notin is_called

\* An element whose function was called before is passed over.
SkipFunction ==
    /\ phase = "initfns"
    /\ p <= Len(list)
    /\ ~NotCalled(list[p])
    /\ p' = p + 1
    /\ UNCHANGED <<list, is_called, phase, k, active, subscription, private_ctx, inits>>

\* p->is_called = true; p->func(pm) is entered.
CallFunction ==
    /\ phase = "initfns"
    /\ p <= Len(list)
    /\ NotCalled(list[p])
    /\ is_called' = is_called \cup {list[p]}
    /\ phase' = "subscribing"
    /\ k' = 0
    /\ UNCHANGED <<list, p, active, subscription, private_ctx, inits>>

\* Mutant of SubscribeOk: one subscription too many is made.
SubscribeOk_offByOne ==
    /\ phase = "subscribing"
    /\ k <= Subs[list[p]]
    /\ active' = active \cup {<<list[p], k + 1>>}
    /\ subscription' = "live"
    /\ k' = k + 1
    /\ UNCHANGED <<list, is_called, phase, p, private_ctx, inits>>

\* sr_subtree_change_subscribe or sr_dp_get_items_subscribe succeeds.
SubscribeOk ==
    /\ phase = "subscribing"
    /\ k < Subs[list[p]]
    /\ active' = active \cup {<<list[p], k + 1>>}
    /\ subscription' = "live"
    /\ k' = k + 1
    /\ UNCHANGED <<list, is_called, phase, p, private_ctx, inits>>

\* It fails: the init function and sc_call_all_init_function return the error and
\* so does sr_plugin_init_cb.
SubscribeFail ==
    /\ phase = "subscribing"
    /\ k < Subs[list[p]]
    /\ phase' = "loaded"
    /\ UNCHANGED <<list, is_called, p, k, active, subscription, private_ctx, inits>>

\* Mutant of FunctionReturn: the loop advances by two elements.
FunctionReturn_skipsNext ==
    /\ phase = "subscribing"
    /\ k = Subs[list[p]]
    /\ p' = p + 2
    /\ phase' = "initfns"
    /\ UNCHANGED <<list, is_called, k, active, subscription, private_ctx, inits>>

\* The init function returns SR_ERR_OK; p = p->next.
FunctionReturn ==
    /\ phase = "subscribing"
    /\ k = Subs[list[p]]
    /\ p' = p + 1
    /\ phase' = "initfns"
    /\ UNCHANGED <<list, is_called, k, active, subscription, private_ctx, inits>>

\* The loop is done; *private_ctx = sc_plugin_main.subscription.
AllCalled ==
    /\ phase = "initfns"
    /\ p > Len(list)
    /\ private_ctx' = subscription
    /\ phase' = "pid"
    /\ UNCHANGED <<list, is_called, p, k, active, subscription, inits>>

\* vpp_pid_start = get_vpp_pid(): init succeeds, or fails with SR_ERR_DISCONNECT.
InitEnd ==
    /\ phase = "pid"
    /\ phase' \in {"ready", "loaded"}
    /\ UNCHANGED <<list, is_called, p, k, active, subscription, private_ctx, inits>>

-----------------------------------------------------------------------------
(* sr_plugin_cleanup_cb                                                    *)

\* Mutant of Cleanup: sr_unsubscribe is not called.
Cleanup_keepsSubscription ==
    /\ phase = "ready"
    /\ phase' = "loaded"
    /\ UNCHANGED <<list, is_called, p, k, active, subscription, private_ctx, inits>>

\* sr_unsubscribe(session, private_ctx) ends the subscriptions of the context and
\* frees it.  The context sysrepo-plugind was given after an earlier cleanup is one
\* that was freed: using it does nothing, or brings the process down.
sr_unsubscribe ==
    /\ phase' \in IF private_ctx = "freed" THEN {"loaded", "crashed"} ELSE {"loaded"}
    /\ active' = IF private_ctx = "live" THEN {} ELSE active
    /\ subscription' = "freed"
    /\ private_ctx' = "freed"

\* The exit functions do nothing; the context is released if there is one.
Cleanup ==
    /\ phase = "ready"
    /\ IF private_ctx # "null"
       THEN sr_unsubscribe
       ELSE phase' = "loaded" /\ UNCHANGED <<active, subscription, private_ctx>>
    /\ UNCHANGED <<list, is_called, p, k, inits>>

-----------------------------------------------------------------------------
Init ==
    /\ list = <<>>
    /\ is_called = {}
    /\ phase = "loading"
    /\ p = 0
    /\ k = 0
    /\ active = {}
    /\ subscription = "null"
    /\ private_ctx = "null"
    /\ inits = 0

Next ==
    \/ \E f \in Fn : AddFunction(f) \/ RmFunction(f)
    \/ Loaded
    \/ Unload
    \/ Unloaded
    \/ InitBegin
    \/ SkipFunction
    \/ CallFunction
    \/ SubscribeOk
    \/ SubscribeFail
    \/ FunctionReturn
    \/ AllCalled
    \/ InitEnd
    \/ Cleanup

Spec == Init /\ [][Next]_vars

-----------------------------------------------------------------------------
\* If the first call of sr_plugin_init_cb succeeds, every subscription of every
\* registered model is in force, in whatever order the constructors ran
\* (sc_init.c:19-34).
FirstInitComplete == phase = "ready" /\ inits = 1 => active = Subscription

\* No subscription is made while it is in force, however often a failed init is
\* retried: sysrepo would call the callback twice per change.  This is what
\* is_called, set before the call, protects (sc_init.c:24-26).
NoDuplicateSubscription ==
    [][phase = "subscribing" /\ k' = k + 1 => <<list[p], k'>> \notin active]_vars

\* No subscription is added (SR_SUBSCR_CTX_REUSE) to a context that a cleanup has
\* freed, although sc_plugin_main keeps pointing to it: an init after a cleanup
\* finds is_called set everywhere (sc_plugins.c:142-158, sc_init.c:24-26).
ContextIsLive ==
    [][phase = "subscribing" /\ k' = k + 1 => subscription # "freed"]_vars

\* After the cleanup of a plugin that was initialised no subscription is in
\* force, those included that failed calls of init left behind
\* (sc_plugins.c:152-163).
CleanupReleasesAll ==
    [][phase = "ready" /\ phase' = "loaded" => active' = {}]_vars
=============================================================================
