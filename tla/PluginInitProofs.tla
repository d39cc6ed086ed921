-------------------------- MODULE PluginInitProofs --------------------------
(***************************************************************************)
(* The life cycle of the plugin's models, for any number of models that    *)
(* make any number of subscriptions, any order of the constructors and any *)
(* number of failed calls of sr_plugin_init_cb: nothing is subscribed      *)
(* twice, the first call that succeeds at once leaves nothing out, and     *)
(* cleanup releases everything.                                            *)
(***************************************************************************)
EXTENDS PluginInit, SequenceTheorems, TLAPS

\* The phases in which all constructors and no destructor has run.
Linked == {"loaded", "initfns", "subscribing", "pid", "ready"}

\* Every function is on the list at most once, and on it while the library is
\* loaded.
Registered ==
    /\ \A i, j \in 1 .. Len(list) : list[i] = list[j] => i = j
    /\ phase \in Linked => \A f \in Fn : \E i \in 1 .. Len(list) : list[i] = f

\* A function that was not called has no subscription; one that runs has made
\* its first k.
Counted ==
    /\ \A x \in active : x[1] \in is_called
    /\ phase = "initfns" => p \in 1 .. Len(list) + 1
    /\ phase = "subscribing" =>
          /\ p \in 1 .. Len(list)
          /\ list[p] \in is_called
          /\ k <= Subs[list[p]]
          /\ \A n \in Nat : <<list[p], n>> \in active <=> n \in 1 .. k

\* There is a subscription only if there is a context to release it with.
Releasable ==
    /\ subscription = "null" => active = {}
    /\ phase \in {"pid", "ready"} => private_ctx = subscription

\* The functions the loop has passed were called.
Passed ==
    /\ phase = "initfns" => \A i \in 1 .. p - 1 : list[i] \in is_called
    /\ phase = "subscribing" => \A i \in 1 .. p : list[i] \in is_called
    /\ phase \in {"pid", "ready"} => \A i \in 1 .. Len(list) : list[i] \in is_called

\* The context is freed only after all functions were called, and none is called
\* again.
Freed ==
    subscription = "freed" =>
        active = {} /\ is_called = Fn /\ phase \notin {"loading", "subscribing"}

\* During the first call of sr_plugin_init_cb the functions before position p
\* have made all their subscriptions, and the ones behind it were not called.
FirstRun ==
    /\ phase = "loading" => inits = 0
    /\ phase \in {"initfns", "subscribing", "pid", "ready"} => inits > 0
    /\ inits = 0 => is_called = {}
    /\ inits = 1 /\ phase \in {"initfns", "subscribing"} =>
          /\ \A i \in 1 .. p - 1, n \in Nat :
                n \in 1 .. Subs[list[i]] => <<list[i], n>> \in active
          /\ \A i \in 1 .. Len(list) : list[i] \in is_called =>
                i < p \/ (phase = "subscribing" /\ i = p)
    /\ inits = 1 /\ phase \in {"pid", "ready"} =>
          \A i \in 1 .. Len(list), n \in Nat :
              n \in 1 .. Subs[list[i]] => <<list[i], n>> \in active

IInv == TypeOK /\ Registered /\ Counted /\ Releasable /\ FirstRun /\ Passed /\ Freed

-----------------------------------------------------------------------------
\* The subscriptions of function f are numbered from one.
LEMMA SubscriptionIff ==
    ASSUME NEW f \in Fn, NEW n \in Nat
    PROVE  <<f, n>> \in Subscription <=> n \in 1 .. Subs[f]
  BY InitAssumption DEF Subscription

\* Pushing a new function on the list (sc_init.h:44-51).
LEMMA AddList ==
    ASSUME NEW l \in Seq(Fn), NEW f \in Fn, f \notin ToSet(l),
           \A i, j \in 1 .. Len(l) : l[i] = l[j] => i = j
    PROVE  LET m == <<f>> \o l
           IN  /\ m \in Seq(Fn)
               /\ \A i, j \in 1 .. Len(m) : m[i] = m[j] => i = j
  <1> DEFINE m == <<f>> \o l
  <1>1. /\ m \in Seq(Fn)
        /\ Len(m) = Len(l) + 1
        /\ \A i \in 1 .. Len(m) : m[i] = IF i = 1 THEN f ELSE l[i - 1]
    OBVIOUS
  <1>2. \A i \in 1 .. Len(l) : l[i] # f
    BY DEF ToSet
  <1> HIDE DEF m
  <1>3. ASSUME NEW i \in 1 .. Len(m), NEW j \in 1 .. Len(m), m[i] = m[j]
        PROVE  i = j
    <2>1. CASE i = 1 /\ j = 1
      BY <2>1
    <2>2. CASE i = 1 /\ j # 1
      <3>1. j - 1 \in 1 .. Len(l) /\ m[j] = l[j - 1] /\ m[i] = f
        BY <1>1, <2>2
      <3>2. QED BY <1>2, <1>3, <3>1
    <2>3. CASE i # 1 /\ j = 1
      <3>1. i - 1 \in 1 .. Len(l) /\ m[i] = l[i - 1] /\ m[j] = f
        BY <1>1, <2>3
      <3>2. QED BY <1>2, <1>3, <3>1
    <2>4. CASE i # 1 /\ j # 1
      <3>1. /\ i - 1 \in 1 .. Len(l) /\ m[i] = l[i - 1]
            /\ j - 1 \in 1 .. Len(l) /\ m[j] = l[j - 1]
        BY <1>1, <2>4
      <3>2. i - 1 = j - 1
        BY <1>3, <3>1
      <3>3. QED BY <3>2
    <2>5. QED BY <2>1, <2>2, <2>3, <2>4
  <1>4. QED BY <1>1, <1>3 DEF m

\* Unlinking a function, wherever on the list it is (sc_init.h:53-71).
LEMMA RmList ==
    ASSUME NEW l \in Seq(Fn), NEW f \in ToSet(l),
           \A i, j \in 1 .. Len(l) : l[i] = l[j] => i = j
    PROVE  LET m == RemoveFirst(l, f)
           IN  /\ m \in Seq(Fn)
               /\ \A i, j \in 1 .. Len(m) : m[i] = m[j] => i = j
  <1>1. PICK x \in 1 .. Len(l) : l[x] = f
    BY DEF ToSet
  <1>2. {i \in 1 .. Len(l) : l[i] = f} = {x}
    BY <1>1
  <1>3. SelectInSeq(l, LAMBDA v : v = f) = x
    <2>1. Min({x}) = x
      BY DEF Min
    <2>2. QED BY <1>2, <2>1 DEF SelectInSeq
  <1> DEFINE a == SubSeq(l, 1, x - 1)
             b == SubSeq(l, x + 1, Len(l))
             m == a \o b
  <1>4. RemoveFirst(l, f) = m
    BY <1>1, <1>3 DEF RemoveFirst, RemoveAt
  <1>5. /\ a \in Seq(Fn) /\ Len(a) = x - 1
        /\ \A i \in 1 .. x - 1 : a[i] = l[i]
    OBVIOUS
  <1>6. /\ b \in Seq(Fn) /\ Len(b) = Len(l) - x
        /\ \A i \in 1 .. Len(l) - x : b[i] = l[x + i]
    OBVIOUS
  <1> HIDE DEF a, b
  <1>7. /\ m \in Seq(Fn)
        /\ Len(m) = Len(l) - 1
        /\ \A i \in 1 .. Len(m) : m[i] = IF i < x THEN l[i] ELSE l[i + 1]
    <2>1. m \in Seq(Fn) /\ Len(m) = Len(l) - 1
      BY <1>5, <1>6
    <2>2. ASSUME NEW i \in 1 .. Len(m)
          PROVE  m[i] = IF i < x THEN l[i] ELSE l[i + 1]
      <3>1. CASE i < x
        BY <1>5, <1>6, <2>1, <3>1
      <3>2. CASE ~(i < x)
        <4>1. m[i] = b[i - (x - 1)] /\ i - (x - 1) \in 1 .. Len(l) - x
          BY <1>5, <1>6, <2>1, <3>2
        <4>2. x + (i - (x - 1)) = i + 1
          BY <2>1
        <4>3. QED BY <1>6, <3>2, <4>1, <4>2
      <3>3. QED BY <3>1, <3>2
    <2>3. QED BY <2>1, <2>2
  <1> HIDE DEF m
  <1>8. ASSUME NEW i \in 1 .. Len(m), NEW j \in 1 .. Len(m), m[i] = m[j]
        PROVE  i = j
    <2>1. i \in 1 .. Len(l) /\ i + 1 \in 1 .. Len(l) /\ j \in 1 .. Len(l) /\ j + 1 \in 1 .. Len(l)
      BY <1>7
    <2>2. CASE i < x /\ j < x
      BY <1>7, <1>8, <2>1, <2>2
    <2>3. CASE i < x /\ ~(j < x)
      BY <1>7, <1>8, <2>1, <2>3
    <2>4. CASE ~(i < x) /\ j < x
      BY <1>7, <1>8, <2>1, <2>4
    <2>5. CASE ~(i < x) /\ ~(j < x)
      BY <1>7, <1>8, <2>1, <2>5
    <2>6. QED BY <2>2, <2>3, <2>4, <2>5
  <1>9. QED BY <1>4, <1>7, <1>8

-----------------------------------------------------------------------------
(* Loading and unloading.                                                  *)

\* A constructor runs (sc_init.h:44-51).
LEMMA AddStep ==
    ASSUME IInv, NEW f \in Fn, AddFunction(f)
    PROVE  IInv'
  <1>1. /\ phase = "loading" /\ f \notin ToSet(list) /\ list' = <<f>> \o list
        /\ is_called' = is_called \ {f}
        /\ UNCHANGED <<phase, p, k, active, subscription, private_ctx, inits>>
    BY DEF AddFunction
  <1>2. inits = 0 /\ is_called = {}
    BY <1>1 DEF IInv, FirstRun
  <1>3. /\ list' \in Seq(Fn)
        /\ \A i, j \in 1 .. Len(list') : list'[i] = list'[j] => i = j
    BY <1>1, AddList DEF IInv, TypeOK, Registered
  <1>4. TypeOK'
    BY <1>1, <1>3 DEF IInv, TypeOK
  <1>5. Registered'
    BY <1>1, <1>3 DEF Registered, Linked
  <1>6. Counted' /\ Releasable' /\ FirstRun' /\ Passed' /\ Freed'
    BY <1>1, <1>2 DEF IInv, Counted, Releasable, FirstRun, Passed, Freed
  <1>7. QED BY <1>4, <1>5, <1>6 DEF IInv

\* A destructor runs (sc_init.h:53-71).
LEMMA RmStep ==
    ASSUME IInv, NEW f \in Fn, RmFunction(f)
    PROVE  IInv'
  <1>1. /\ phase = "unloading" /\ f \in ToSet(list) /\ list' = RemoveFirst(list, f)
        /\ UNCHANGED <<is_called, phase, p, k, active, subscription, private_ctx, inits>>
    BY DEF RmFunction
  <1>2. /\ list' \in Seq(Fn)
        /\ \A i, j \in 1 .. Len(list') : list'[i] = list'[j] => i = j
    BY <1>1, RmList DEF IInv, TypeOK, Registered
  <1>3. TypeOK'
    BY <1>1, <1>2 DEF IInv, TypeOK
  <1>4. Registered'
    BY <1>1, <1>2 DEF Registered, Linked
  <1>5. Counted' /\ Releasable' /\ FirstRun' /\ Passed' /\ Freed'
    BY <1>1 DEF IInv, Counted, Releasable, FirstRun, Passed, Freed
  <1>6. QED BY <1>3, <1>4, <1>5 DEF IInv

\* The library is loaded, is to be unloaded or was unloaded.
LEMMA LoadStep == IInv /\ (Loaded \/ Unload \/ Unloaded) => IInv'
  <1>1. SUFFICES ASSUME IInv, Loaded \/ Unload \/ Unloaded PROVE IInv'
    OBVIOUS
  <1>2. /\ UNCHANGED <<list, is_called, p, k, active, subscription, private_ctx, inits>>
        /\ phase' \in {"loaded", "unloading", "unloaded"}
        /\ phase' = "loaded" => ToSet(list) = Fn
    BY <1>1 DEF Loaded, Unload, Unloaded
  <1>3. TypeOK'
    BY <1>1, <1>2 DEF IInv, TypeOK
  <1>4. Registered'
    <2>1. phase' \in Linked => \A f \in Fn : \E i \in 1 .. Len(list) : list[i] = f
      BY <1>1, <1>2 DEF IInv, TypeOK, ToSet, Linked
    <2>2. QED BY <1>1, <1>2, <2>1 DEF IInv, Registered, Linked
  <1>5. Counted' /\ Releasable' /\ FirstRun' /\ Passed' /\ Freed'
    BY <1>1, <1>2 DEF IInv, Counted, Releasable, FirstRun, Passed, Freed
  <1>6. QED BY <1>3, <1>4, <1>5 DEF IInv

-----------------------------------------------------------------------------
(* sr_plugin_init_cb                                                       *)

\* The list stays as it is while the library is loaded.
LEMMA LinkedStep ==
    ASSUME IInv, phase \in Linked, phase' \in Linked, list' = list
    PROVE  Registered'
  BY DEF IInv, Registered, Linked

\* The loop over the list begins (sc_init.c:22).
LEMMA BeginStep == IInv /\ InitBegin => IInv'
  <1>1. SUFFICES ASSUME IInv, InitBegin PROVE IInv'
    OBVIOUS
  <1>2. /\ phase = "loaded" /\ inits < MaxInits /\ inits' = inits + 1
        /\ phase' = "initfns" /\ p' = 1
        /\ UNCHANGED <<list, is_called, k, active, subscription, private_ctx>>
    BY <1>1 DEF InitBegin
  <1>3. TypeOK'
    BY <1>1, <1>2, InitAssumption DEF IInv, TypeOK
  <1>4. Registered'
    BY <1>1, <1>2, LinkedStep DEF Linked
  <1>5. Counted'
    BY <1>1, <1>2 DEF IInv, TypeOK, Counted
  <1>6. Releasable'
    BY <1>1, <1>2 DEF IInv, Releasable
  <1>7. FirstRun'
    <2>1. inits' > 0 /\ (inits' = 1 => is_called = {})
      BY <1>1, <1>2 DEF IInv, TypeOK, FirstRun
    <2>2. QED BY <1>2, <2>1 DEF FirstRun
  <1>8. Passed' /\ Freed'
    BY <1>1, <1>2 DEF IInv, Passed, Freed
  <1>9. QED BY <1>3, <1>4, <1>5, <1>6, <1>7, <1>8 DEF IInv

\* A function that was called in an earlier call of init is passed over, which
\* the first call never does (sc_init.c:24).
LEMMA SkipStep == IInv /\ SkipFunction => IInv'
  <1>1. SUFFICES ASSUME IInv, SkipFunction PROVE IInv'
    OBVIOUS
  <1>2. /\ phase = "initfns" /\ p <= Len(list) /\ list[p] \in is_called /\ p' = p + 1
        /\ UNCHANGED <<list, is_called, phase, k, active, subscription, private_ctx, inits>>
    BY <1>1 DEF SkipFunction, NotCalled
  <1>3. p \in 1 .. Len(list) /\ Len(list) \in Nat
    BY <1>1, <1>2 DEF IInv, TypeOK, Counted
  <1>4. inits # 1
    BY <1>1, <1>2, <1>3 DEF IInv, FirstRun
  <1>5. TypeOK'
    BY <1>1, <1>2 DEF IInv, TypeOK
  <1>6. Registered'
    BY <1>1, <1>2, LinkedStep DEF Linked
  <1>7. Counted'
    BY <1>1, <1>2, <1>3 DEF IInv, Counted
  <1>8. Releasable' /\ FirstRun'
    BY <1>1, <1>2, <1>4 DEF IInv, Releasable, FirstRun
  <1>9. Passed' /\ Freed'
    <2>1. \A i \in 1 .. p' - 1 : i \in 1 .. p - 1 \/ i = p
      BY <1>2, <1>3
    <2>2. QED BY <1>1, <1>2, <2>1 DEF IInv, Passed, Freed
  <1>10. QED BY <1>5, <1>6, <1>7, <1>8, <1>9 DEF IInv

\* A function is entered: it has made no subscription before (sc_init.c:25-26).
LEMMA CallStep == IInv /\ CallFunction => IInv'
  <1>1. SUFFICES ASSUME IInv, CallFunction PROVE IInv'
    OBVIOUS
  <1>2. /\ phase = "initfns" /\ p <= Len(list) /\ list[p] \notin is_called
        /\ is_called' = is_called \cup {list[p]} /\ phase' = "subscribing" /\ k' = 0
        /\ UNCHANGED <<list, p, active, subscription, private_ctx, inits>>
    BY <1>1 DEF CallFunction, NotCalled
  <1>3. p \in 1 .. Len(list) /\ Len(list) \in Nat /\ list[p] \in Fn
    BY <1>1, <1>2 DEF IInv, TypeOK, Counted
  <1>4. \A n \in Nat : <<list[p], n>> \notin active
    <2>1. ASSUME NEW n \in Nat, <<list[p], n>> \in active PROVE FALSE
      <3>1. <<list[p], n>>[1] \in is_called
        BY <1>1, <2>1 DEF IInv, Counted
      <3>2. QED BY <1>2, <3>1
    <2>2. QED BY <2>1
  <1>5. TypeOK'
    BY <1>1, <1>2, <1>3 DEF IInv, TypeOK
  <1>6. Registered'
    BY <1>1, <1>2, LinkedStep DEF Linked
  <1>7. Counted'
    <2>1. \A x \in active' : x[1] \in is_called'
      BY <1>1, <1>2 DEF IInv, Counted
    <2>2. k' <= Subs[list'[p']]
      BY <1>2, <1>3, InitAssumption
    <2>3. \A n \in Nat : <<list'[p'], n>> \in active' <=> n \in 1 .. k'
      BY <1>2, <1>4
    <2>4. QED BY <1>2, <1>3, <2>1, <2>2, <2>3 DEF Counted
  <1>8. Releasable'
    BY <1>1, <1>2 DEF IInv, Releasable
  <1>9. FirstRun'
    <2>1. inits > 0 /\ inits # 0
      BY <1>1, <1>2 DEF IInv, TypeOK, FirstRun
    <2>2. ASSUME inits = 1, NEW i \in 1 .. Len(list), list[i] \in is_called'
          PROVE  i < p \/ i = p
      <3>1. CASE list[i] \in is_called
        BY <1>1, <1>2, <2>2, <3>1 DEF IInv, FirstRun
      <3>2. CASE list[i] = list[p]
        BY <1>1, <1>3, <3>2 DEF IInv, Registered
      <3>3. QED BY <1>2, <2>2, <3>1, <3>2
    <2>3. QED BY <1>1, <1>2, <2>1, <2>2 DEF IInv, FirstRun
  <1>10. Passed' /\ Freed'
    <2>1. \A i \in 1 .. p : i \in 1 .. p - 1 \/ i = p
      BY <1>3
    <2>2. QED BY <1>1, <1>2, <1>3, <2>1 DEF IInv, Passed, Freed
  <1>11. QED BY <1>5, <1>6, <1>7, <1>8, <1>9, <1>10 DEF IInv

\* The running function makes its next subscription.
LEMMA SubscribeStep == IInv /\ SubscribeOk => IInv'
  <1>1. SUFFICES ASSUME IInv, SubscribeOk PROVE IInv'
    OBVIOUS
  <1>2. /\ phase = "subscribing" /\ k < Subs[list[p]]
        /\ active' = active \cup {<<list[p], k + 1>>}
        /\ subscription' = "live" /\ k' = k + 1
        /\ UNCHANGED <<list, is_called, phase, p, private_ctx, inits>>
    BY <1>1 DEF SubscribeOk
  <1>3. /\ p \in 1 .. Len(list) /\ list[p] \in Fn /\ list[p] \in is_called
        /\ k \in Nat /\ Subs[list[p]] \in Nat
    BY <1>1, <1>2, InitAssumption DEF IInv, TypeOK, Counted
  <1>4. <<list[p], k + 1>> \in Subscription
    BY <1>2, <1>3, SubscriptionIff
  <1>5. TypeOK'
    BY <1>1, <1>2, <1>3, <1>4 DEF IInv, TypeOK
  <1>6. Registered'
    BY <1>1, <1>2, LinkedStep DEF Linked
  <1>7. Counted'
    <2>1. \A x \in active' : x[1] \in is_called
      BY <1>1, <1>2, <1>3 DEF IInv, Counted
    <2>2. ASSUME NEW n \in Nat
          PROVE  <<list[p], n>> \in active' <=> n \in 1 .. k'
      <3>1. <<list[p], n>> \in active <=> n \in 1 .. k
        BY <1>1, <1>2 DEF IInv, Counted
      <3>2. <<list[p], n>> = <<list[p], k + 1>> <=> n = k + 1
        OBVIOUS
      <3>3. n \in 1 .. k + 1 <=> n \in 1 .. k \/ n = k + 1
        BY <1>3
      <3>4. QED BY <1>2, <3>1, <3>2, <3>3
    <2>3. k' <= Subs[list[p]]
      BY <1>2, <1>3
    <2>4. QED BY <1>2, <1>3, <2>1, <2>2, <2>3 DEF Counted
  <1>8. Releasable'
    BY <1>2 DEF Releasable
  <1>9. FirstRun'
    BY <1>1, <1>2 DEF IInv, FirstRun
  <1>10. Passed' /\ Freed'
    BY <1>1, <1>2 DEF IInv, Passed, Freed
  <1>11. QED BY <1>5, <1>6, <1>7, <1>8, <1>9, <1>10 DEF IInv

\* A subscription fails, and with it init (sc_init.c:27-29).
LEMMA FailStep == IInv /\ SubscribeFail => IInv'
  <1>1. SUFFICES ASSUME IInv, SubscribeFail PROVE IInv'
    OBVIOUS
  <1>2. /\ phase = "subscribing" /\ phase' = "loaded"
        /\ UNCHANGED <<list, is_called, p, k, active, subscription, private_ctx, inits>>
    BY <1>1 DEF SubscribeFail
  <1>3. TypeOK'
    BY <1>1, <1>2 DEF IInv, TypeOK
  <1>4. Registered'
    BY <1>1, <1>2, LinkedStep DEF Linked
  <1>5. Counted' /\ Releasable' /\ FirstRun' /\ Passed' /\ Freed'
    BY <1>1, <1>2 DEF IInv, Counted, Releasable, FirstRun, Passed, Freed
  <1>6. QED BY <1>3, <1>4, <1>5 DEF IInv

\* The running function returns; it has made all its subscriptions
\* (sc_init.c:31).
LEMMA ReturnStep == IInv /\ FunctionReturn => IInv'
  <1>1. SUFFICES ASSUME IInv, FunctionReturn PROVE IInv'
    OBVIOUS
  <1>2. /\ phase = "subscribing" /\ k = Subs[list[p]] /\ p' = p + 1 /\ phase' = "initfns"
        /\ UNCHANGED <<list, is_called, k, active, subscription, private_ctx, inits>>
    BY <1>1 DEF FunctionReturn
  <1>3. p \in 1 .. Len(list) /\ Len(list) \in Nat
    BY <1>1, <1>2 DEF IInv, TypeOK, Counted
  <1>4. TypeOK'
    BY <1>1, <1>2 DEF IInv, TypeOK
  <1>5. Registered'
    BY <1>1, <1>2, LinkedStep DEF Linked
  <1>6. Counted'
    BY <1>1, <1>2, <1>3 DEF IInv, Counted
  <1>7. Releasable'
    BY <1>1, <1>2 DEF IInv, Releasable
  <1>8. FirstRun'
    <2>1. ASSUME inits = 1, NEW i \in 1 .. p, NEW n \in Nat, n \in 1 .. Subs[list[i]]
          PROVE  <<list[i], n>> \in active
      <3>1. CASE i = p
        BY <1>1, <1>2, <2>1, <3>1 DEF IInv, Counted
      <3>2. CASE i # p
        <4>1. i \in 1 .. p - 1
          BY <1>3, <3>2
        <4>2. QED BY <1>1, <1>2, <2>1, <4>1 DEF IInv, FirstRun
      <3>3. QED BY <3>1, <3>2
    <2>2. ASSUME inits = 1, NEW i \in 1 .. Len(list), list[i] \in is_called
          PROVE  i < p + 1
      BY <1>1, <1>2, <1>3, <2>2 DEF IInv, FirstRun
    <2>3. (p + 1) - 1 = p
      BY <1>3
    <2>4. QED BY <1>1, <1>2, <2>1, <2>2, <2>3 DEF IInv, FirstRun
  <1>9. Passed' /\ Freed'
    <2>1. p' - 1 = p
      BY <1>2, <1>3
    <2>2. QED BY <1>1, <1>2, <2>1 DEF IInv, Passed, Freed
  <1>10. QED BY <1>4, <1>5, <1>6, <1>7, <1>8, <1>9 DEF IInv

\* The loop ends (sc_init.c:33, sc_plugins.c:138).
LEMMA AllCalledStep == IInv /\ AllCalled => IInv'
  <1>1. SUFFICES ASSUME IInv, AllCalled PROVE IInv'
    OBVIOUS
  <1>2. /\ phase = "initfns" /\ p > Len(list) /\ private_ctx' = subscription /\ phase' = "pid"
        /\ UNCHANGED <<list, is_called, p, k, active, subscription, inits>>
    BY <1>1 DEF AllCalled
  <1>3. Len(list) \in Nat /\ p = Len(list) + 1
    BY <1>1, <1>2 DEF IInv, TypeOK, Counted
  <1>4. TypeOK'
    BY <1>1, <1>2 DEF IInv, TypeOK
  <1>5. Registered'
    BY <1>1, <1>2, LinkedStep DEF Linked
  <1>6. Counted' /\ Releasable'
    BY <1>1, <1>2 DEF IInv, Counted, Releasable
  <1>7. FirstRun'
    <2>1. p - 1 = Len(list)
      BY <1>3
    <2>2. QED BY <1>1, <1>2, <2>1 DEF IInv, FirstRun
  <1>8. Passed' /\ Freed'
    <2>1. p - 1 = Len(list)
      BY <1>3
    <2>2. QED BY <1>1, <1>2, <2>1 DEF IInv, Passed, Freed
  <1>9. QED BY <1>4, <1>5, <1>6, <1>7, <1>8 DEF IInv

\* init returns, with or without the pid of VPP (sc_plugins.c:141-145).
LEMMA EndStep == IInv /\ InitEnd => IInv'
  <1>1. SUFFICES ASSUME IInv, InitEnd PROVE IInv'
    OBVIOUS
  <1>2. /\ phase = "pid" /\ phase' \in {"ready", "loaded"}
        /\ UNCHANGED <<list, is_called, p, k, active, subscription, private_ctx, inits>>
    BY <1>1 DEF InitEnd
  <1>3. TypeOK'
    BY <1>1, <1>2 DEF IInv, TypeOK
  <1>4. Registered'
    BY <1>1, <1>2, LinkedStep DEF Linked
  <1>5. Counted' /\ Releasable' /\ FirstRun' /\ Passed' /\ Freed'
    BY <1>1, <1>2 DEF IInv, Counted, Releasable, FirstRun, Passed, Freed
  <1>6. QED BY <1>3, <1>4, <1>5 DEF IInv

\* sr_plugin_cleanup_cb (sc_plugins.c:150-163).
LEMMA CleanupStep == IInv /\ Cleanup => IInv' /\ active' = {}
  <1>1. SUFFICES ASSUME IInv, Cleanup PROVE IInv' /\ active' = {}
    OBVIOUS
  <1>2. /\ phase = "ready" /\ phase' \in {"loaded", "crashed"}
        /\ active' = {}
        /\ subscription' \in {subscription, "freed"}
        /\ private_ctx' \in {private_ctx, "freed"}
        /\ UNCHANGED <<list, is_called, p, k, inits>>
    <2>1. private_ctx = subscription /\ subscription \in {"null", "live", "freed"}
      BY <1>1 DEF Cleanup, IInv, Releasable, TypeOK
    <2>2. QED BY <1>1, <2>1 DEF Cleanup, sr_unsubscribe, IInv, Releasable, Freed
  <1>3. TypeOK'
    BY <1>1, <1>2 DEF IInv, TypeOK
  <1>4. Registered'
    BY <1>1, <1>2 DEF IInv, Registered, Linked
  <1>5. is_called = Fn
    <2>1. ASSUME NEW f \in Fn PROVE f \in is_called
      <3>1. PICK i \in 1 .. Len(list) : list[i] = f
        BY <1>1, <1>2 DEF IInv, Registered, Linked
      <3>2. QED BY <1>1, <1>2, <3>1 DEF IInv, Passed
    <2>2. QED BY <1>1, <2>1 DEF IInv, TypeOK
  <1>6. Counted' /\ Releasable' /\ FirstRun' /\ Passed' /\ Freed'
    BY <1>1, <1>2, <1>5 DEF IInv, Counted, Releasable, FirstRun, Passed, Freed
  <1>7. QED BY <1>2, <1>3, <1>4, <1>6 DEF IInv

-----------------------------------------------------------------------------
\* IInv is inductive.
LEMMA Inductive == Spec => []IInv
  <1>1. Init => IInv
    <2>1. SUFFICES ASSUME Init PROVE IInv
      OBVIOUS
    <2>2. TypeOK
      BY <2>1, InitAssumption DEF Init, TypeOK
    <2>3. Registered
      BY <2>1 DEF Init, Registered, Linked
    <2>4. Counted /\ Releasable /\ FirstRun /\ Passed /\ Freed
      BY <2>1 DEF Init, Counted, Releasable, FirstRun, Passed, Freed
    <2>5. QED BY <2>2, <2>3, <2>4 DEF IInv
  <1>2. IInv /\ [Next]_vars => IInv'
    <2>1. SUFFICES ASSUME IInv, [Next]_vars PROVE IInv'
      OBVIOUS
    <2>2. CASE UNCHANGED vars
      <3>1. TypeOK' /\ Registered'
        BY <2>1, <2>2 DEF IInv, TypeOK, Registered, vars
      <3>2. Counted' /\ Releasable' /\ FirstRun' /\ Passed' /\ Freed'
        BY <2>1, <2>2 DEF IInv, Counted, Releasable, FirstRun, Passed, Freed, vars
      <3>3. QED BY <3>1, <3>2 DEF IInv
    <2>3. CASE Next
      BY <2>1, <2>3, AddStep, RmStep, LoadStep, BeginStep, SkipStep, CallStep,
         SubscribeStep, FailStep, ReturnStep, AllCalledStep, EndStep, CleanupStep
      DEF Next
    <2>4. QED BY <2>1, <2>2, <2>3
  <1>3. QED BY <1>1, <1>2, PTL DEF Spec

\* The plugin's list, positions and subscriptions stay in their types, in
\* particular no function makes more subscriptions than it has, whatever failed
\* and was retried (sc_init.c:19-34).
THEOREM PluginInitTypeCorrect == Spec => []TypeOK
  <1>1. IInv => TypeOK
    BY DEF IInv
  <1>2. QED BY Inductive, <1>1, PTL

\* If the first call of sr_plugin_init_cb succeeds, all subscriptions of all
\* models are in force, for any models in any order (sc_init.c:19-34).
THEOREM FirstInitIsComplete == Spec => []FirstInitComplete
  <1>1. IInv => FirstInitComplete
    <2>1. SUFFICES ASSUME IInv, phase = "ready", inits = 1 PROVE active = Subscription
      BY DEF FirstInitComplete
    <2>2. active \subseteq Subscription
      BY <2>1 DEF IInv, TypeOK
    <2>3. ASSUME NEW x \in Subscription PROVE x \in active
      <3>1. PICK f \in Fn, n \in Nat : x = <<f, n>>
        BY InitAssumption DEF Subscription
      <3>2. n \in 1 .. Subs[f]
        BY <2>3, <3>1, SubscriptionIff
      <3>3. PICK i \in 1 .. Len(list) : list[i] = f
        BY <2>1 DEF IInv, Registered, Linked
      <3>4. QED BY <2>1, <3>1, <3>2, <3>3 DEF IInv, FirstRun
    <2>4. QED BY <2>2, <2>3
  <1>2. QED BY Inductive, <1>1, PTL

\* No subscription is made while it is in force, however often init is retried
\* (sc_init.c:24-26).
THEOREM NothingSubscribedTwice == Spec => NoDuplicateSubscription
  <1>1. IInv => (phase = "subscribing" /\ k' = k + 1 => <<list[p], k'>> \notin active)
    <2>1. SUFFICES ASSUME IInv, phase = "subscribing", k' = k + 1
                   PROVE  <<list[p], k'>> \notin active
      OBVIOUS
    <2>2. k \in Nat /\ k' \in Nat /\ k' \notin 1 .. k
      BY <2>1 DEF IInv, TypeOK
    <2>3. QED BY <2>1, <2>2 DEF IInv, Counted
  <1>2. IInv => [phase = "subscribing" /\ k' = k + 1 => <<list[p], k'>> \notin active]_vars
    BY <1>1
  <1>3. QED BY Inductive, <1>2, PTL DEF NoDuplicateSubscription

\* No subscription is added to a freed context, however often the plugin is cleaned
\* up and initialised again (sc_plugins.c:142-158, sc_init.c:24-26).
THEOREM SubscribesToLiveContext == Spec => ContextIsLive
  <1>1. IInv => [phase = "subscribing" /\ k' = k + 1 => subscription # "freed"]_vars
    BY DEF IInv, Freed
  <1>2. QED BY Inductive, <1>1, PTL DEF ContextIsLive

\* Cleaning up an initialised plugin leaves no subscription in force, those of
\* failed calls of init included (sc_plugins.c:150-163).
THEOREM CleanupReleases == Spec => CleanupReleasesAll
  <1>1. IInv /\ [Next]_vars => [phase = "ready" /\ phase' = "loaded" => active' = {}]_vars
    <2>1. SUFFICES ASSUME IInv, Next, phase = "ready", phase' = "loaded" PROVE active' = {}
      OBVIOUS
    <2>2. Cleanup
      BY <2>1 DEF Next, AddFunction, RmFunction, Loaded, Unload, Unloaded, InitBegin,
         SkipFunction, CallFunction, SubscribeOk, SubscribeFail, FunctionReturn,
         AllCalled, InitEnd
    <2>3. QED BY <2>1, <2>2, CleanupStep
  <1>2. QED BY Inductive, <1>1, PTL DEF Spec, CleanupReleasesAll
=============================================================================
