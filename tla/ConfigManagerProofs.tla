------------------------- MODULE ConfigManagerProofs -------------------------
(***************************************************************************)
(* What the cache holds, that detected values outlast the resets, and that *)
(* an aggregator follows its settings, for any threads, sources and        *)
(* answers of the collector.                                               *)
(***************************************************************************)
EXTENDS ConfigManager, TLAPS

LEMMA KeysAreDifferent ==
  /\ Enabled # Limit /\ Enabled # Method /\ Limit # Method
  /\ Enabled \in Keys /\ Limit \in Keys /\ Method \in Keys
BY DEF Enabled, Limit, Method, Keys

LEMMA LayersAre ==
  /\ Layers = {"high_security", "environment", "server", "manual", "yaml", "default"}
  /\ DOMAIN Stack = 1..6
  /\ Stack[1] = "high_security" /\ Stack[2] = "environment" /\ Stack[3] = "server"
  /\ Stack[4] = "manual" /\ Stack[5] = "yaml" /\ Stack[6] = "default"
BY DEF Layers, Stack

LEMMA NoneIsSource == None \in Sources /\ \A k \in Keys : None[k] = Absent
BY DEF None, Sources

\* The first layer that has the key gives the value.
LEMMA ResolveFirst ==
  ASSUME NEW stack, NEW k, NEW i \in DOMAIN Stack,
         stack[Stack[i]][k] # Absent,
         \A j \in DOMAIN Stack : j < i => stack[Stack[j]][k] = Absent
  PROVE  Resolve(stack, k) = stack[Stack[i]][k]
<1> DEFINE Has(j) == stack[Stack[j]][k] # Absent
           First(n) == Has(n) /\ \A j \in DOMAIN Stack : Has(j) => n <= j
           first == CHOOSE n \in DOMAIN Stack : First(n)
<1>1. \A j \in DOMAIN Stack : Has(j) => i <= j
  BY LayersAre
<1>2. first \in DOMAIN Stack /\ First(first)
  BY <1>1
<1>3. Resolve(stack, k) = stack[Stack[first]][k]
  BY DEF Resolve
<1>4. first \in 1..6 /\ i \in 1..6 /\ i <= first /\ first <= i
  BY <1>1, <1>2, LayersAre
<1> HIDE DEF first
<1>5. first = i
  BY <1>4
<1> QED
  BY <1>3, <1>5

\* There is such a layer, if the defaults have the key.
LEMMA FirstExists ==
  ASSUME NEW stack, NEW k, stack["default"][k] # Absent
  PROVE  \E i \in DOMAIN Stack :
           /\ stack[Stack[i]][k] # Absent
           /\ \A j \in DOMAIN Stack : j < i => stack[Stack[j]][k] = Absent
<1> DEFINE Has(i) == stack[Stack[i]][k] # Absent
<1>1. Has(6)
  BY LayersAre
<1>2. CASE Has(1)
  BY <1>2, LayersAre
<1>3. CASE ~Has(1) /\ Has(2)
  BY <1>3, LayersAre
<1>4. CASE ~Has(1) /\ ~Has(2) /\ Has(3)
  BY <1>4, LayersAre
<1>5. CASE ~Has(1) /\ ~Has(2) /\ ~Has(3) /\ Has(4)
  BY <1>5, LayersAre
<1>6. CASE ~Has(1) /\ ~Has(2) /\ ~Has(3) /\ ~Has(4) /\ Has(5)
  BY <1>6, LayersAre
<1>7. CASE ~Has(1) /\ ~Has(2) /\ ~Has(3) /\ ~Has(4) /\ ~Has(5)
  BY <1>1, <1>7, LayersAre
<1> QED
  BY <1>2, <1>3, <1>4, <1>5, <1>6, <1>7

\* The value in effect is that of a layer, and never missing.
LEMMA ResolveGives ==
  ASSUME NEW stack \in [Layers -> Sources], NEW k \in Keys, stack["default"][k] # Absent
  PROVE  Resolve(stack, k) \in Values /\ Resolve(stack, k) # Absent
<1>1. PICK i \in DOMAIN Stack :
           /\ stack[Stack[i]][k] # Absent
           /\ \A j \in DOMAIN Stack : j < i => stack[Stack[j]][k] = Absent
  BY FirstExists
<1>2. Resolve(stack, k) = stack[Stack[i]][k]
  BY <1>1, ResolveFirst
<1>3. stack[Stack[i]][k] \in Values \cup {Absent}
  BY DEF Layers, Sources
<1> QED
  BY <1>1, <1>2, <1>3

\* Two stacks that agree on a key resolve it alike.
LEMMA ResolveSame ==
  ASSUME NEW one, NEW two, NEW k, one["default"][k] # Absent,
         \A l \in Layers : one[l][k] = two[l][k]
  PROVE  Resolve(one, k) = Resolve(two, k)
<1>1. PICK i \in DOMAIN Stack :
           /\ one[Stack[i]][k] # Absent
           /\ \A j \in DOMAIN Stack : j < i => one[Stack[j]][k] = Absent
  BY FirstExists
<1>2. \A j \in DOMAIN Stack : one[Stack[j]][k] = two[Stack[j]][k]
  BY DEF Layers
<1>3. Resolve(one, k) = one[Stack[i]][k]
  BY <1>1, ResolveFirst
<1>4. Resolve(two, k) = two[Stack[i]][k]
  BY <1>1, <1>2, ResolveFirst
<1> QED
  BY <1>2, <1>3, <1>4

-----------------------------------------------------------------------------
(* Types *)

Afters == {"idle", "enabling", "yielding", "detecting", "running", "gating", "comparing"}

\* Only the key the detection writes has a detected value in the cache; what is
\* fetched comes from the stack.
Typed ==
  /\ TypeOK
  /\ \A k \in Keys : layers["default"][k] # Absent
  /\ \A k \in Keys : cache[k] = Found => k = Method
  /\ \A t \in Threads :
       /\ preserved[t] \subseteq {Method}
       /\ access[t].after \in Afters
       /\ pc[t] = "storing" => value[t] \in Values
       /\ pc[t] = "recording" => t = Main /\ access[t].key = Method
  /\ value[Worker] # Found

\* The strings are different, and no value is one of the two markers.
LEMMA FoundIsDifferent == Found # Absent /\ Found \notin Values /\ Absent \notin Values
BY LimitsAssumption DEF Found, Absent, Values

LEMMA ThreadsAre == Main \in Threads /\ Worker \in Threads /\ \A r \in Readers : r \in Threads
BY DEF Threads

\* A read leaves the types as they are, and its thread at p or in the fetch.
LEMMA LookupType ==
  ASSUME Typed, NEW t \in Threads, NEW k \in Keys, NEW p \in Afters, Lookup(t, k, p)
  PROVE  /\ pc' \in [Threads -> PCs] /\ value' \in [Threads -> Values \cup {Absent, Found}]
         /\ access' \in [Threads -> [hash : Nat, key : Keys, after : PCs]]
         /\ \A u \in Threads : access'[u].after \in Afters
         /\ \A u \in Threads \ {t} : pc'[u] = pc[u] /\ value'[u] = value[u] /\ access'[u] = access[u]
         /\ \/ pc'[t] = p /\ value'[t] = cache[k] /\ access'[t] = access[t]
            \/ pc'[t] = "fetching" /\ value'[t] = value[t] /\ cache[k] = Absent
               /\ access'[t] = [hash |-> generation, key |-> k, after |-> p]
<1>1. p \in PCs /\ "fetching" \in PCs
  BY DEF Afters, PCs
<1>2. CASE /\ cache[k] # Absent
           /\ value' = [value EXCEPT ![t] = cache[k]]
           /\ Goto(t, p)
           /\ UNCHANGED access
  BY <1>1, <1>2 DEF Typed, TypeOK, Goto
<1>3. CASE /\ cache[k] = Absent
           /\ access' = [access EXCEPT ![t] = [hash |-> generation, key |-> k, after |-> p]]
           /\ Goto(t, "fetching")
           /\ UNCHANGED value
  BY <1>1, <1>3 DEF Typed, TypeOK, Goto
<1> QED
  BY <1>2, <1>3 DEF Lookup

LEMMA InitTyped == Init => Typed
<1> SUFFICES ASSUME Init PROVE Typed
  OBVIOUS
<1>1. layers \in [Layers -> Sources] /\ \A k \in Keys : layers["default"][k] # Absent
  BY ConfigurationsAssumption DEF Init
<1>2. None \in [Keys -> Values \cup {Absent, Found}]
  BY DEF None
<1>3. NoAccess \in [hash : Nat, key : Keys, after : PCs] /\ NoAccess.after \in Afters
  BY KeysAreDifferent DEF NoAccess, PCs, Afters
<1>4. pc \in [Threads -> PCs] /\ \A t \in Threads : pc[t] \in {"idle", "constructing"}
  BY DEF Init, PCs
<1>5. TypeOK
  <2>1. /\ access \in [Threads -> [hash : Nat, key : Keys, after : PCs]]
        /\ value \in [Threads -> Values \cup {Absent, Found}]
        /\ source \in [Threads -> Sources]
        /\ preserved \in [Threads -> SUBSET Keys]
    BY <1>3, NoneIsSource DEF Init
  <2>2. /\ cache \in [Keys -> Values \cup {Absent, Found}] /\ generation \in Nat
        /\ target \in {"manual", "server"}
        /\ connects \in 0..MaxConnects
    BY <1>2, BoundAssumption DEF Init
  <2>3. reply \in [gate : {"on", "off", Absent}, enabled : {"on", "off", Absent},
                   limit : Limits \cup {Absent}]
    BY DEF Init
  <2> QED
    BY <1>1, <1>4, <2>1, <2>2, <2>3 DEF Init, TypeOK
<1> QED
  BY <1>1, <1>3, <1>4, <1>5, ThreadsAre, NoneIsSource, FoundIsDifferent DEF Init, Typed

\* A step that begins with a read, and changes nothing but where it stands.
LEMMA LookupTyped ==
  ASSUME Typed, NEW t \in Threads, NEW k \in Keys, NEW p \in Afters, Lookup(t, k, p),
         t = Worker => k # Method,
         UNCHANGED <<cacheVars, layers, source, preserved, told, applied, history, started>>,
         target' \in {"manual", "server"}, connects' \in 0..MaxConnects,
         reply' \in [gate : {"on", "off", Absent}, enabled : {"on", "off", Absent},
                     limit : Limits \cup {Absent}]
  PROVE  Typed'
<1>0. /\ pc' \in [Threads -> PCs] /\ value' \in [Threads -> Values \cup {Absent, Found}]
      /\ access' \in [Threads -> [hash : Nat, key : Keys, after : PCs]]
      /\ \A u \in Threads : access'[u].after \in Afters
      /\ \A u \in Threads \ {t} : pc'[u] = pc[u] /\ value'[u] = value[u] /\ access'[u] = access[u]
      /\ \/ pc'[t] = p /\ value'[t] = cache[k]
         \/ pc'[t] = "fetching" /\ value'[t] = value[t]
  BY LookupType, ZenonT(60)
<1>1. TypeOK'
  BY <1>0 DEF Typed, TypeOK, cacheVars, history
<1>2. /\ \A q \in Keys : layers'["default"][q] # Absent
      /\ \A q \in Keys : cache'[q] = Found => q = Method
  BY DEF Typed, cacheVars
<1>3. ASSUME NEW u \in Threads
      PROVE  /\ preserved'[u] \subseteq {Method}
             /\ access'[u].after \in Afters
             /\ pc'[u] = "storing" => value'[u] \in Values
             /\ pc'[u] = "recording" => u = Main /\ access'[u].key = Method
  <2>1. CASE u = t
    BY <1>0, <2>1 DEF Typed, Afters
  <2>2. CASE u # t
    BY <1>0, <2>2 DEF Typed
  <2> QED
    BY <2>1, <2>2
<1>4. value'[Worker] # Found
  <2>1. CASE t = Worker
    BY <1>0, <2>1 DEF Typed
  <2>2. CASE t # Worker
    BY <1>0, <2>2, ThreadsAre DEF Typed
  <2> QED
    BY <2>1, <2>2
<1> QED
  BY <1>1, <1>2, <1>3, <1>4 DEF Typed

\* A step that writes what an access was for.
LEMMA WriteTyped ==
  ASSUME Typed, NEW t \in Threads, NEW v \in Values \cup {Found}, Write(t, v),
         v = Found => access[t].key = Method
  PROVE  /\ cache' \in [Keys -> Values \cup {Absent, Found}]
         /\ \A k \in Keys : cache'[k] = Found => k = Method
         /\ pc' = [pc EXCEPT ![t] = access[t].after] /\ pc' \in [Threads -> PCs]
         /\ access' \in [Threads -> [hash : Nat, key : Keys, after : PCs]]
         /\ \A u \in Threads : access'[u].after \in Afters
         /\ \A u \in Threads \ {t} : access'[u] = access[u]
<1>1. NoAccess \in [hash : Nat, key : Keys, after : PCs] /\ NoAccess.after \in Afters
  BY KeysAreDifferent DEF NoAccess, PCs, Afters
<1>2. access[t] \in [hash : Nat, key : Keys, after : PCs]
  BY DEF Typed, TypeOK
<1>3. /\ cache' \in [Keys -> Values \cup {Absent, Found}]
      /\ \A k \in Keys : cache'[k] = Found => k = Method
  BY <1>2 DEF Typed, TypeOK, Write
<1>4. pc' = [pc EXCEPT ![t] = access[t].after] /\ pc' \in [Threads -> PCs]
  BY <1>2 DEF Typed, TypeOK, Write, Goto
<1>5. access' = [access EXCEPT ![t] = NoAccess]
  BY DEF Write
<1> QED
  BY <1>1, <1>3, <1>4, <1>5 DEF Typed, TypeOK

LEMMA ReadTyped == ASSUME Typed, NEW t \in Threads, ReadStep(t) PROVE Typed'
<1>0. access[t] \in [hash : Nat, key : Keys, after : PCs]
  BY DEF Typed, TypeOK
<1>1. CASE Fetch(t)
  <2>1. Effective(access[t].key) \in Values
    BY <1>0, ResolveGives DEF Typed, TypeOK, Effective
  <2>2. TypeOK'
    BY <1>1, <2>1 DEF Fetch, Goto, Typed, TypeOK, PCs, cacheVars, changeVars, agentVars, history
  <2>3. \A u \in Threads : /\ pc'[u] = "storing" => value'[u] \in Values
                           /\ pc'[u] = "recording" => u = Main /\ access'[u].key = Method
    BY <1>1, <2>1 DEF Fetch, Goto, Typed, TypeOK
  <2>4. value'[Worker] # Found
    BY <1>1, <2>1, ThreadsAre, FoundIsDifferent DEF Fetch, Typed, TypeOK
  <2>5. /\ \A k \in Keys : layers'["default"][k] # Absent
        /\ \A k \in Keys : cache'[k] = Found => k = Method
        /\ \A u \in Threads : preserved'[u] \subseteq {Method} /\ access'[u].after \in Afters
    BY <1>1 DEF Fetch, Typed, cacheVars, changeVars
  <2>6. ASSUME NEW u \in Threads
        PROVE  /\ preserved'[u] \subseteq {Method}
               /\ access'[u].after \in Afters
               /\ pc'[u] = "storing" => value'[u] \in Values
               /\ pc'[u] = "recording" => u = Main /\ access'[u].key = Method
    BY <2>3, <2>5
  <2> QED
    BY <2>2, <2>4, <2>5, <2>6 DEF Typed
<1>2. CASE Store(t)
  <2>1. value[t] \in Values /\ value[t] # Found /\ Write(t, value[t])
    BY <1>2, FoundIsDifferent DEF Store, Typed
  <2>2. /\ cache' \in [Keys -> Values \cup {Absent, Found}]
        /\ \A k \in Keys : cache'[k] = Found => k = Method
        /\ pc' = [pc EXCEPT ![t] = access[t].after] /\ pc' \in [Threads -> PCs]
        /\ access' \in [Threads -> [hash : Nat, key : Keys, after : PCs]]
        /\ \A u \in Threads : access'[u].after \in Afters
        /\ \A u \in Threads \ {t} : access'[u] = access[u]
    BY <2>1, WriteTyped
  <2>3. /\ value' \in [Threads -> Values \cup {Absent, Found}]
        /\ \A u \in Threads \ {t} : value'[u] = value[u]
        /\ value'[t] # Found
    BY <1>2, <2>1, FoundIsDifferent DEF Store, Typed, TypeOK
  <2>4. TypeOK'
    <3>1. overtaken' \in BOOLEAN
      BY <1>2 DEF Store, Typed, TypeOK
    <3> QED
      BY <1>2, <2>2, <2>3, <3>1 DEF Store, Typed, TypeOK, changeVars, agentVars
  <2>5. \A u \in Threads : /\ pc'[u] = "storing" => value'[u] \in Values
                           /\ pc'[u] = "recording" => u = Main /\ access'[u].key = Method
    <3>1. pc'[t] \notin {"storing", "recording"}
      BY <2>2 DEF Typed, TypeOK, Afters
    <3>2. \A u \in Threads \ {t} : pc'[u] = pc[u]
      BY <2>2 DEF Typed, TypeOK
    <3> QED
      BY <2>2, <2>3, <3>1, <3>2 DEF Typed
  <2>6. value'[Worker] # Found
    BY <2>2, <2>3, ThreadsAre DEF Typed, TypeOK
  <2>7. /\ \A k \in Keys : layers'["default"][k] # Absent
        /\ \A u \in Threads : preserved'[u] \subseteq {Method}
    BY <1>2 DEF Store, Typed, changeVars
  <2>8. ASSUME NEW u \in Threads
        PROVE  /\ preserved'[u] \subseteq {Method}
               /\ access'[u].after \in Afters
               /\ pc'[u] = "storing" => value'[u] \in Values
               /\ pc'[u] = "recording" => u = Main /\ access'[u].key = Method
    BY <2>2, <2>5, <2>7
  <2> QED
    BY <2>2, <2>4, <2>6, <2>7, <2>8 DEF Typed
<1> QED
  BY <1>1, <1>2 DEF ReadStep

LEMMA ResetTyped == ASSUME Typed, NEW t \in Threads, ResetStep(t) PROVE Typed'
<1>1. CASE ResetCache(t)
  <2>1. preserved' \in [Threads -> SUBSET Keys] /\ \A u \in Threads : preserved'[u] \subseteq {Method}
    BY <1>1 DEF ResetCache, Typed, TypeOK
  <2>2. TypeOK'
    BY <1>1, <2>1 DEF ResetCache, Goto, Typed, TypeOK, PCs, cacheVars, agentVars, history
  <2> QED
    BY <1>1, <2>1, <2>2, ThreadsAre DEF ResetCache, Goto, Typed, TypeOK, cacheVars
<1>2. CASE NewCache(t)
  <2>1. /\ cache' \in [Keys -> Values \cup {Absent, Found}] /\ generation' \in Nat
        /\ \A k \in Keys : cache'[k] # Found
    BY <1>2, NoneIsSource, FoundIsDifferent DEF NewCache, Typed, TypeOK, None
  <2>2. TypeOK'
    BY <1>2, <2>1 DEF NewCache, Goto, Typed, TypeOK, PCs, changeVars, agentVars, history
  <2> QED
    BY <1>2, <2>1, <2>2, ThreadsAre DEF NewCache, Goto, Typed, TypeOK, changeVars
<1>3. CASE Restore(t)
  <2>1. /\ cache' \in [Keys -> Values \cup {Absent, Found}]
        /\ \A k \in Keys : cache'[k] = Found => k = Method
        /\ preserved' \in [Threads -> SUBSET Keys]
        /\ \A u \in Threads : preserved'[u] \subseteq {Method}
    BY <1>3 DEF Restore, Typed, TypeOK
  <2>2. pc' \in [Threads -> PCs] /\ \A u \in Threads \ {t} : pc'[u] = pc[u]
    BY <1>3 DEF Restore, Goto, Typed, TypeOK, PCs
  <2>3. pc'[t] \in {"notifying", "removed"}
    BY <1>3 DEF Restore, Goto, Typed, TypeOK
  <2>4. TypeOK'
    BY <1>3, <2>1, <2>2 DEF Restore, Typed, TypeOK, agentVars, history
  <2> QED
    BY <1>3, <2>1, <2>2, <2>3, <2>4, ThreadsAre DEF Restore, Typed
<1> QED
  BY <1>1, <1>2, <1>3 DEF ResetStep

\* What the worker builds of an answer is a source.
LEMMA ServerSourceType ==
  ASSUME Typed, pc[Worker] = "gating" PROVE ServerSource \in Sources
<1>1. value[Worker] \in Values \cup {Absent}
  BY ThreadsAre DEF Typed, TypeOK
<1>2. Requested \in Values \cup {Absent} /\ reply.enabled \in Values \cup {Absent}
      /\ reply.limit \in Values \cup {Absent} /\ "off" \in Values
  BY <1>1 DEF Requested, Typed, TypeOK, Values
<1> QED
  BY <1>2, NoneIsSource DEF ServerSource, Sources

\* A step that goes to a place where nothing is fetched, stored or written.
LEMMA GotoTyped ==
  ASSUME Typed, NEW t \in Threads, NEW p \in PCs \ {"storing", "recording"},
         Goto(t, p), UNCHANGED <<access, value, cacheVars, preserved>>, TypeOK',
         \A k \in Keys : layers'["default"][k] # Absent
  PROVE  Typed'
<1>1. /\ \A k \in Keys : cache'[k] = Found => k = Method
      /\ \A u \in Threads : preserved'[u] \subseteq {Method} /\ access'[u].after \in Afters
  BY DEF Typed, cacheVars
<1>2. \A u \in Threads : /\ pc'[u] = "storing" => value'[u] \in Values
                         /\ pc'[u] = "recording" => u = Main /\ access'[u].key = Method
  BY DEF Typed, TypeOK, Goto
<1>3. value'[Worker] # Found
  BY ThreadsAre DEF Typed, TypeOK, Goto
<1>4. ASSUME NEW u \in Threads
      PROVE  /\ preserved'[u] \subseteq {Method}
             /\ access'[u].after \in Afters
             /\ pc'[u] = "storing" => value'[u] \in Values
             /\ pc'[u] = "recording" => u = Main /\ access'[u].key = Method
  BY <1>1, <1>2
<1> QED
  BY <1>1, <1>3, <1>4 DEF Typed

LEMMA GotoType ==
  ASSUME Typed, NEW t \in Threads, NEW p \in PCs, Goto(t, p) PROVE pc' \in [Threads -> PCs]
BY DEF Goto, Typed, TypeOK

LEMMA AggregatorTyped ==
  ASSUME Typed, Construct \/ RegisterCallback \/ YieldAndStart \/ \E t \in Threads : Enable(t)
  PROVE  Typed'
<1>1. CASE Construct
  BY <1>1, LookupTyped, ThreadsAre, KeysAreDifferent DEF Construct, Typed, TypeOK, Afters, changeVars, agentVars
<1>2. CASE RegisterCallback
  BY <1>2, LookupTyped, ThreadsAre, KeysAreDifferent DEF RegisterCallback, Typed, TypeOK, Afters, changeVars, agentVars
<1>3. CASE YieldAndStart
  <2>1. TypeOK'
    BY <1>3, ThreadsAre DEF YieldAndStart, Goto, Typed, TypeOK, PCs, cacheVars, changeVars, history
  <2> QED
    BY <1>3, <2>1, GotoTyped, ThreadsAre DEF YieldAndStart, Typed, PCs, changeVars
<1>4. ASSUME NEW t \in Threads, Enable(t) PROVE Typed'
  <2>1. PICK p \in {"registering", "idle"} : Goto(t, p)
    BY <1>4 DEF Enable
  <2>2. TypeOK'
    BY <1>4, <2>1 DEF Enable, Goto, Typed, TypeOK, PCs, cacheVars, changeVars, agentVars, history
  <2> QED
    BY <1>4, <2>1, <2>2, GotoTyped DEF Enable, Typed, PCs, changeVars
<1> QED
  BY <1>1, <1>2, <1>3, <1>4

LEMMA DetectionTyped == ASSUME Typed, Detect \/ UsePrepend \/ UpdateConfigValue PROVE Typed'
<1>1. CASE Detect
  BY <1>1, LookupTyped, ThreadsAre, ThreadsAssumption, KeysAreDifferent
  DEF Detect, Typed, TypeOK, Afters, changeVars, agentVars
<1>2. CASE UsePrepend /\ value[Main] = "auto"
  <2>1. [hash |-> generation, key |-> Method, after |-> "running"] \in [hash : Nat, key : Keys, after : PCs]
    BY KeysAreDifferent DEF Typed, TypeOK, PCs
  <2>2. access' = [access EXCEPT ![Main] = [hash |-> generation, key |-> Method, after |-> "running"]]
        /\ Goto(Main, "recording")
    BY <1>2 DEF UsePrepend
  <2>3. TypeOK'
    BY <1>2, <2>1, <2>2, ThreadsAre
    DEF UsePrepend, Goto, Typed, TypeOK, PCs, cacheVars, changeVars, agentVars, history
  <2>4. ASSUME NEW u \in Threads
        PROVE  /\ preserved'[u] \subseteq {Method}
               /\ access'[u].after \in Afters
               /\ pc'[u] = "storing" => value'[u] \in Values
               /\ pc'[u] = "recording" => u = Main /\ access'[u].key = Method
    BY <1>2, <2>2, ThreadsAre DEF UsePrepend, Goto, Typed, TypeOK, Afters, changeVars
  <2>5. value'[Worker] # Found
    BY <1>2, <2>2, ThreadsAre DEF UsePrepend, Goto, Typed, TypeOK
  <2> QED
    BY <1>2, <2>3, <2>4, <2>5 DEF UsePrepend, Typed, cacheVars, changeVars
<1>3. CASE UsePrepend /\ value[Main] # "auto"
  <2>1. TypeOK'
    BY <1>3, ThreadsAre DEF UsePrepend, Goto, Typed, TypeOK, PCs, cacheVars, changeVars, agentVars, history
  <2> QED
    BY <1>3, <2>1, GotoTyped, ThreadsAre DEF UsePrepend, Typed, PCs, changeVars
<1>4. CASE UpdateConfigValue
  <2>1. Write(Main, Found) /\ access[Main].key = Method
    BY <1>4, ThreadsAre DEF UpdateConfigValue, Typed
  <2>2. /\ cache' \in [Keys -> Values \cup {Absent, Found}]
        /\ \A k \in Keys : cache'[k] = Found => k = Method
        /\ pc' = [pc EXCEPT ![Main] = access[Main].after] /\ pc' \in [Threads -> PCs]
        /\ access' \in [Threads -> [hash : Nat, key : Keys, after : PCs]]
        /\ \A u \in Threads : access'[u].after \in Afters
        /\ \A u \in Threads \ {Main} : access'[u] = access[u]
    BY <2>1, WriteTyped, ThreadsAre
  <2>3. overtaken' \in BOOLEAN /\ detected' \in BOOLEAN
    BY <1>4 DEF UpdateConfigValue
  <2>4. TypeOK'
    BY <1>4, <2>2, <2>3 DEF UpdateConfigValue, Typed, TypeOK, changeVars, agentVars
  <2>5. ASSUME NEW u \in Threads
        PROVE  /\ preserved'[u] \subseteq {Method}
               /\ access'[u].after \in Afters
               /\ pc'[u] = "storing" => value'[u] \in Values
               /\ pc'[u] = "recording" => u = Main /\ access'[u].key = Method
    BY <1>4, <2>2 DEF UpdateConfigValue, Typed, TypeOK, Afters, changeVars
  <2>6. value'[Worker] # Found
    BY <1>4, <2>2, ThreadsAre, ThreadsAssumption DEF UpdateConfigValue, Typed, TypeOK
  <2> QED
    BY <1>4, <2>2, <2>4, <2>5, <2>6 DEF UpdateConfigValue, Typed, changeVars
<1> QED
  BY <1>1, <1>2, <1>3, <1>4

LEMMA ConnectTyped ==
  ASSUME Typed, (\E rep \in Replies : Connect(rep)) \/ ApplyFeatureGates PROVE Typed'
<1>1. ASSUME NEW rep \in Replies, Connect(rep) PROVE Typed'
  <2>1. /\ connects' \in 0..MaxConnects
        /\ reply' \in [gate : {"on", "off", Absent}, enabled : {"on", "off", Absent},
                       limit : Limits \cup {Absent}]
    BY <1>1, RepliesAssumption, BoundAssumption DEF Connect, Typed, TypeOK
  <2>2. CASE Lookup(Worker, Enabled, "gating")
    BY <1>1, <2>1, <2>2, LookupTyped, ThreadsAre, KeysAreDifferent
    DEF Connect, Typed, TypeOK, Afters, changeVars
  <2>3. CASE Goto(Worker, "gating") /\ UNCHANGED <<access, value>>
    <3>1. TypeOK'
      BY <1>1, <2>1, <2>3 DEF Connect, Goto, Typed, TypeOK, PCs, cacheVars, changeVars, history
    <3> QED
      BY <1>1, <2>3, <3>1, GotoTyped, ThreadsAre DEF Connect, Typed, PCs, changeVars
  <2> QED
    BY <1>1, <2>2, <2>3 DEF Connect
<1>2. CASE ApplyFeatureGates
  <2>1. source' \in [Threads -> Sources]
    BY <1>2, ServerSourceType DEF ApplyFeatureGates, Typed, TypeOK
  <2>2. TypeOK'
    BY <1>2, <2>1 DEF ApplyFeatureGates, Goto, Typed, TypeOK, PCs, cacheVars, agentVars, history
  <2> QED
    BY <1>2, <2>2, GotoTyped, ThreadsAre DEF ApplyFeatureGates, Typed, PCs
<1> QED
  BY <1>1, <1>2

LEMMA AddingTyped ==
  ASSUME Typed, InvokeCallbacks \/ CallBack \/ Assign \/ NotifyServerSourceAdded
  PROVE  Typed'
<1>1. CASE InvokeCallbacks
  <2>1. CASE Lookup(Worker, Limit, "comparing")
    BY <1>1, <2>1, LookupTyped, ThreadsAre, KeysAreDifferent
    DEF InvokeCallbacks, Typed, TypeOK, Afters, changeVars, agentVars
  <2>2. CASE Goto(Worker, "assigning") /\ UNCHANGED <<access, value>>
    <3>0. pc' \in [Threads -> PCs]
      BY <2>2, GotoType, ThreadsAre DEF PCs
    <3>1. TypeOK'
      BY <1>1, <2>2, <3>0
      DEF InvokeCallbacks, Typed, TypeOK, cacheVars, changeVars, agentVars, history
    <3> QED
      BY <1>1, <2>2, <3>1, GotoTyped, ThreadsAre DEF InvokeCallbacks, Typed, PCs, changeVars
  <2> QED
    BY <1>1, <2>1, <2>2 DEF InvokeCallbacks
<1>2. CASE CallBack
  <2>1. told' \in Values \cup {Absent, Found}
    BY <1>2, KeysAreDifferent, ThreadsAre DEF CallBack, Typed, TypeOK, Sources
  <2>2. pc' \in [Threads -> PCs]
    BY <1>2, GotoType, ThreadsAre DEF CallBack, PCs
  <2>3. TypeOK'
    BY <1>2, <2>1, <2>2 DEF CallBack, Typed, TypeOK, cacheVars, changeVars, agentVars, history
  <2> QED
    BY <1>2, <2>3, GotoTyped, ThreadsAre DEF CallBack, Typed, PCs, changeVars
<1>3. CASE Assign
  <2>1. layers' \in [Layers -> Sources] /\ layers'["default"] = layers["default"]
    BY <1>3, LayersAre, ThreadsAre DEF Assign, Typed, TypeOK
  <2>2. dropped' \in BOOLEAN
    BY <1>3 DEF Assign, Typed, TypeOK
  <2>3. pc' \in [Threads -> PCs]
    BY <1>3, GotoType, ThreadsAre DEF Assign, PCs
  <2>4. TypeOK'
    BY <1>3, <2>1, <2>2, <2>3 DEF Assign, Typed, TypeOK, cacheVars, agentVars
  <2> QED
    BY <1>3, <2>1, <2>4, GotoTyped, ThreadsAre DEF Assign, Typed, PCs
<1>4. CASE NotifyServerSourceAdded
  BY <1>4, LookupTyped, ThreadsAre, KeysAreDifferent
  DEF NotifyServerSourceAdded, Typed, TypeOK, Afters, changeVars, agentVars
<1> QED
  BY <1>1, <1>2, <1>3, <1>4

LEMMA RemovingTyped ==
  ASSUME Typed, Shutdown \/ RemoveConfigType \/ InvokeRemoveCallbacks \/ CallBackRemoved
  PROVE  Typed'
<1>0. ASSUME NextRemoval
      PROVE  target' \in {"manual", "server"} /\ \E p \in {"reverting", "ended"} : Goto(Main, p)
  BY <1>0 DEF NextRemoval
<1>1. CASE Shutdown
  <2>0. pc' \in [Threads -> PCs]
    BY <1>1, GotoType, ThreadsAre DEF Shutdown, PCs
  <2>1. TypeOK'
    BY <1>1, <2>0 DEF Shutdown, Typed, TypeOK, cacheVars, changeVars, agentVars, history
  <2> QED
    BY <1>1, <2>1, GotoTyped, ThreadsAre DEF Shutdown, Typed, PCs, changeVars
<1>2. CASE RemoveConfigType
  <2>1. /\ layers' \in [Layers -> Sources] /\ layers'["default"] = layers["default"]
        /\ source' \in [Threads -> Sources]
    BY <1>2, NoneIsSource, ThreadsAre DEF RemoveConfigType, Typed, TypeOK, Layers, Stack
  <2>2. TypeOK'
    BY <1>2, <2>1 DEF RemoveConfigType, Goto, Typed, TypeOK, PCs, cacheVars, agentVars, history
  <2> QED
    BY <1>2, <2>1, <2>2, GotoTyped, ThreadsAre DEF RemoveConfigType, Typed, PCs
<1>3. CASE InvokeRemoveCallbacks
  <2>1. CASE Lookup(Main, Limit, "comparing") /\ UNCHANGED target
    BY <1>3, <2>1, LookupTyped, ThreadsAre, ThreadsAssumption
    , KeysAreDifferent DEF InvokeRemoveCallbacks, Typed, TypeOK, Afters, agentVars
  <2>2. CASE NextRemoval /\ UNCHANGED <<access, value>>
    <3>1. PICK p \in {"reverting", "ended"} : Goto(Main, p)
      BY <1>0, <2>2
    <3>0. pc' \in [Threads -> PCs]
      BY <3>1, GotoType, ThreadsAre DEF PCs
    <3>2. TypeOK'
      BY <1>0, <1>3, <2>2, <3>0
      DEF InvokeRemoveCallbacks, Typed, TypeOK, cacheVars, agentVars, history
    <3> QED
      BY <1>3, <2>2, <3>1, <3>2, GotoTyped, ThreadsAre DEF InvokeRemoveCallbacks, Typed, PCs
  <2> QED
    BY <1>3, <2>1, <2>2 DEF InvokeRemoveCallbacks
<1>4. CASE CallBackRemoved
  <2>1. told' \in Values \cup {Absent, Found}
    BY <1>4, ThreadsAre DEF CallBackRemoved, Typed, TypeOK
  <2>2. NextRemoval
    BY <1>4 DEF CallBackRemoved
  <2>3. PICK p \in {"reverting", "ended"} : Goto(Main, p)
    BY <1>0, <2>2
  <2>4. pc' \in [Threads -> PCs]
    BY <2>3, GotoType, ThreadsAre DEF PCs
  <2>5. TypeOK'
    BY <1>0, <1>4, <2>1, <2>2, <2>4
    DEF CallBackRemoved, Typed, TypeOK, cacheVars, agentVars, history
  <2> QED
    BY <1>4, <2>3, <2>5, GotoTyped, ThreadsAre DEF CallBackRemoved, Typed, PCs
<1> QED
  BY <1>1, <1>2, <1>3, <1>4

LEMMA StepTyped == Typed /\ [Next]_vars => Typed'
<1> SUFFICES ASSUME Typed, [Next]_vars PROVE Typed'
  OBVIOUS
<1>1. CASE \E t \in Threads : ReadStep(t) \/ ResetStep(t) \/ Enable(t)
  BY <1>1, ReadTyped, ResetTyped, AggregatorTyped
<1>2. ASSUME NEW r \in Readers, NEW k \in Keys, Read(r, k) PROVE Typed'
  BY <1>2, LookupTyped, ThreadsAre, ThreadsAssumption
  DEF Read, Typed, TypeOK, Afters, changeVars, agentVars
<1>3. CASE MainStep
  BY <1>3, AggregatorTyped, DetectionTyped, RemovingTyped DEF MainStep
<1>4. CASE WorkerStep
  BY <1>4, ConnectTyped, AddingTyped DEF WorkerStep
<1>5. CASE UNCHANGED vars
  BY <1>5 DEF vars, readVars, cacheVars, changeVars, agentVars, history, Typed, TypeOK
<1> QED
  BY <1>1, <1>2, <1>3, <1>4, <1>5 DEF Next

\* Every variable keeps its type: no thread reads a missing value as a setting,
\* and nothing but the detection's own key is ever cached as detected.
THEOREM TypeCorrect == Spec => []TypeOK
<1>1. Typed => TypeOK
  BY DEF Typed
<1> QED
  BY InitTyped, StepTyped, <1>1, PTL DEF Spec

-----------------------------------------------------------------------------
(* The cache *)

\* What is about to be stored in the cache of now was the value in effect, or
\* the cache is about to be renewed.
AnswersAreCurrent ==
  \A t \in Threads :
    pc[t] = "storing" /\ access[t].hash = generation
    => value[t] = Effective(access[t].key) \/ Stale

\* An access is to the cache of now or to an older one.
HashesAreOld ==
  \A t \in Threads :
    pc[t] \in {"fetching", "storing", "recording"} => access[t].hash <= generation

CacheInv == CacheIsCurrent /\ AnswersAreCurrent /\ HashesAreOld

\* A step that leaves the cache and the resets alone: a thread starts an access
\* to the cache of now, fetches the value in effect, or has done with either.
Quiet ==
  /\ UNCHANGED <<cache, generation, preserved, detected, overtaken>>
  /\ \A t \in Threads :
       \/ pc'[t] = pc[t] /\ access'[t] = access[t] /\ value'[t] = value[t]
       \/ /\ pc[t] \notin {"resetting", "renewing", "restoring"}
          /\ pc'[t] \notin {"renewing", "restoring"}
          /\ pc'[t] \in {"fetching", "recording"} => access'[t].hash = generation
          /\ pc'[t] = "storing" => /\ pc[t] = "fetching" /\ access'[t] = access[t]
                                   /\ value'[t] = Effective(access[t].key)

LEMMA GotoQuiet ==
  ASSUME Typed, NEW t \in Threads,
         NEW p \in PCs \ {"fetching", "storing", "recording", "renewing", "restoring"},
         Goto(t, p), pc[t] \notin {"resetting", "renewing", "restoring"},
         UNCHANGED <<access, value, cache, generation, preserved, detected, overtaken>>
  PROVE  Quiet
BY DEF Goto, Quiet, Typed, TypeOK

LEMMA LookupQuiet ==
  ASSUME Typed, NEW t \in Threads, NEW k \in Keys, NEW p \in Afters, Lookup(t, k, p),
         pc[t] \notin {"resetting", "renewing", "restoring"},
         UNCHANGED <<cache, generation, preserved, detected, overtaken>>
  PROVE  Quiet
<1>1. /\ \A u \in Threads \ {t} : pc'[u] = pc[u] /\ value'[u] = value[u] /\ access'[u] = access[u]
      /\ \/ pc'[t] = p
         \/ /\ pc'[t] = "fetching"
            /\ access'[t] = [hash |-> generation, key |-> k, after |-> p]
  BY LookupType
<1>2. CASE pc'[t] = p
  BY <1>1, <1>2 DEF Quiet, Afters
<1>3. CASE pc'[t] = "fetching" /\ access'[t] = [hash |-> generation, key |-> k, after |-> p]
  <2>1. access'[t].hash = generation
    BY <1>3
  <2> QED
    BY <1>1, <1>3, <2>1 DEF Quiet
<1> QED
  BY <1>1, <1>2, <1>3

\* The steps that change neither the cache nor the stack.
Other ==
  \/ \E t \in Threads : Fetch(t) \/ Enable(t)
  \/ \E r \in Readers, k \in Keys : Read(r, k)
  \/ Construct \/ RegisterCallback \/ YieldAndStart \/ Detect \/ UsePrepend
  \/ Shutdown \/ InvokeRemoveCallbacks \/ CallBackRemoved
  \/ \E rep \in Replies : Connect(rep)
  \/ ApplyFeatureGates \/ InvokeCallbacks \/ CallBack \/ NotifyServerSourceAdded

LEMMA OtherQuiet == ASSUME Typed, Other PROVE Quiet /\ layers' = layers
<1> USE ThreadsAre, KeysAreDifferent
<1>1. ASSUME NEW t \in Threads, Fetch(t) PROVE Quiet /\ layers' = layers
  BY <1>1 DEF Fetch, Goto, Quiet, Typed, TypeOK, cacheVars, changeVars, history
<1>2. ASSUME NEW t \in Threads, Enable(t) PROVE Quiet /\ layers' = layers
  <2>1. PICK p \in {"registering", "idle"} : Goto(t, p)
    BY <1>2 DEF Enable
  <2> QED
    BY <1>2, <2>1, GotoQuiet DEF Enable, PCs, cacheVars, changeVars, history
<1>3. ASSUME NEW r \in Readers, NEW k \in Keys, Read(r, k) PROVE Quiet /\ layers' = layers
  BY <1>3, LookupQuiet DEF Read, Afters, cacheVars, changeVars, history
<1>4. CASE Construct
  BY <1>4, LookupQuiet DEF Construct, Afters, cacheVars, changeVars, history
<1>5. CASE RegisterCallback
  BY <1>5, LookupQuiet DEF RegisterCallback, Afters, cacheVars, changeVars, history
<1>6. CASE YieldAndStart
  BY <1>6, GotoQuiet DEF YieldAndStart, PCs, cacheVars, changeVars, history
<1>7. CASE Detect
  BY <1>7, LookupQuiet DEF Detect, Afters, cacheVars, changeVars, history
<1>8. CASE UsePrepend
  <2>1. CASE value[Main] = "auto"
    <3>1. \A t \in Threads : \/ pc'[t] = pc[t] /\ access'[t] = access[t]
                             \/ /\ t = Main /\ pc'[t] = "recording"
                                /\ access'[t].hash = generation
      BY <1>8, <2>1 DEF UsePrepend, Goto, Typed, TypeOK
    <3> QED
      BY <1>8, <2>1, <3>1 DEF UsePrepend, Quiet, cacheVars, changeVars, history
  <2>2. CASE value[Main] # "auto"
    BY <1>8, <2>2, GotoQuiet DEF UsePrepend, PCs, cacheVars, changeVars, history
  <2> QED
    BY <2>1, <2>2
<1>9. CASE Shutdown
  BY <1>9, GotoQuiet DEF Shutdown, PCs, cacheVars, changeVars, history
<1>10. CASE InvokeRemoveCallbacks
  <2>1. CASE NextRemoval /\ UNCHANGED <<access, value>>
    <3>1. PICK p \in {"reverting", "ended"} : Goto(Main, p)
      BY <2>1 DEF NextRemoval
    <3> QED
      BY <1>10, <2>1, <3>1, GotoQuiet DEF InvokeRemoveCallbacks, PCs, cacheVars, history
  <2>2. CASE Lookup(Main, Limit, "comparing")
    BY <1>10, <2>2, LookupQuiet DEF InvokeRemoveCallbacks, Afters, cacheVars, history
  <2> QED
    BY <1>10, <2>1, <2>2 DEF InvokeRemoveCallbacks
<1>11. CASE CallBackRemoved
  <2>1. PICK p \in {"reverting", "ended"} : Goto(Main, p)
    BY <1>11 DEF CallBackRemoved, NextRemoval
  <2> QED
    BY <1>11, <2>1, GotoQuiet DEF CallBackRemoved, PCs, cacheVars, history
<1>12. ASSUME NEW rep \in Replies, Connect(rep) PROVE Quiet /\ layers' = layers
  <2>1. CASE Goto(Worker, "gating") /\ UNCHANGED <<access, value>>
    BY <1>12, <2>1, GotoQuiet DEF Connect, PCs, cacheVars, changeVars, history
  <2>2. CASE Lookup(Worker, Enabled, "gating")
    BY <1>12, <2>2, LookupQuiet DEF Connect, Afters, cacheVars, changeVars, history
  <2> QED
    BY <1>12, <2>1, <2>2 DEF Connect
<1>13. CASE ApplyFeatureGates
  BY <1>13, GotoQuiet DEF ApplyFeatureGates, PCs, cacheVars, history
<1>14. CASE InvokeCallbacks
  <2>1. CASE Goto(Worker, "assigning") /\ UNCHANGED <<access, value>>
    BY <1>14, <2>1, GotoQuiet DEF InvokeCallbacks, PCs, cacheVars, changeVars, history
  <2>2. CASE Lookup(Worker, Limit, "comparing")
    BY <1>14, <2>2, LookupQuiet DEF InvokeCallbacks, Afters, cacheVars, changeVars, history
  <2> QED
    BY <1>14, <2>1, <2>2 DEF InvokeCallbacks
<1>15. CASE CallBack
  BY <1>15, GotoQuiet DEF CallBack, PCs, cacheVars, changeVars, history
<1>16. CASE NotifyServerSourceAdded
  BY <1>16, LookupQuiet DEF NotifyServerSourceAdded, Afters, cacheVars, changeVars, history
<1> QED
  BY <1>1, <1>2, <1>3, <1>4, <1>5, <1>6, <1>7, <1>8, <1>9, <1>10, <1>11, <1>12, <1>13,
     <1>14, <1>15, <1>16 DEF Other

\* The source is put into the stack, or taken out of it: the cache is stale.
LEMMA ChangeQuiet ==
  ASSUME Typed, Assign \/ RemoveConfigType PROVE Quiet /\ Stale'
<1>1. CASE Assign
  <2>1. pc'[Worker] = "resetting"
    BY <1>1, ThreadsAre DEF Assign, Goto, Typed, TypeOK
  <2> QED
    BY <1>1, <2>1, GotoQuiet, ThreadsAre DEF Assign, PCs, Stale, cacheVars
<1>2. CASE RemoveConfigType
  <2>1. pc'[Main] = "resetting"
    BY <1>2, ThreadsAre DEF RemoveConfigType, Goto, Typed, TypeOK
  <2> QED
    BY <1>2, <2>1, GotoQuiet, ThreadsAre DEF RemoveConfigType, PCs, Stale, cacheVars, history
<1> QED
  BY <1>1, <1>2

LEMMA NextIs ==
  [Next]_vars => \/ Other \/ Assign \/ RemoveConfigType \/ UpdateConfigValue \/ UNCHANGED vars
                 \/ \E t \in Threads : Store(t) \/ ResetStep(t)
BY DEF Next, ReadStep, MainStep, WorkerStep, Other

LEMMA InitCache == Init => CacheInv
<1> SUFFICES ASSUME Init PROVE CacheInv
  OBVIOUS
<1>1. \A k \in Keys : cache[k] = Absent
  BY NoneIsSource DEF Init
<1>2. \A t \in Threads : pc[t] \notin {"fetching", "storing", "recording"}
  BY DEF Init
<1> QED
  BY <1>1, <1>2 DEF CacheInv, CacheIsCurrent, AnswersAreCurrent, HashesAreOld

\* Nothing is stored, and the stack is the same or the cache known to be stale.
LEMMA QuietCache ==
  ASSUME Typed, CacheInv, Quiet, layers' = layers \/ Stale' PROVE CacheInv'
<1>1. Stale => Stale'
  BY DEF Stale, Quiet
<1>2. layers' = layers => \A k \in Keys : Effective(k)' = Effective(k)
  BY DEF Effective
<1>3. CacheIsCurrent'
  BY <1>1, <1>2 DEF CacheInv, CacheIsCurrent, Quiet
<1>4. AnswersAreCurrent'
  <2> SUFFICES ASSUME NEW t \in Threads, pc'[t] = "storing", access'[t].hash = generation',
                      ~Stale'
               PROVE  value'[t] = Effective(access[t].key)'
    BY DEF AnswersAreCurrent
  <2>1. access[t].key \in Keys /\ layers' = layers /\ generation' = generation
    BY DEF Typed, TypeOK, Quiet
  <2>2. access'[t] = access[t]
    BY DEF Quiet
  <2>3. value'[t] = Effective(access[t].key)
    BY <1>1, <2>1, <2>2 DEF Quiet, CacheInv, AnswersAreCurrent
  <2> QED
    BY <1>2, <2>1, <2>2, <2>3
<1>5. HashesAreOld'
  <2> SUFFICES ASSUME NEW t \in Threads, pc'[t] \in {"fetching", "storing", "recording"}
               PROVE  access'[t].hash <= generation'
    BY DEF HashesAreOld
  <2>1. generation' = generation /\ generation \in Nat
    BY DEF Quiet, Typed, TypeOK
  <2>2. CASE access'[t] = access[t] /\ pc[t] \in {"fetching", "storing", "recording"}
    BY <2>1, <2>2 DEF CacheInv, HashesAreOld
  <2>3. CASE access'[t].hash = generation
    BY <2>1, <2>3
  <2> QED
    BY <2>2, <2>3 DEF Quiet
<1> QED
  BY <1>3, <1>4, <1>5 DEF CacheInv

\* A stored answer is current when it goes into the cache of now.
LEMMA StoreCache == ASSUME Typed, CacheInv, NEW t \in Threads, Store(t) PROVE CacheInv'
<1>1. /\ pc[t] = "storing" /\ access[t].key \in Keys /\ access[t].after \in Afters
  BY DEF Store, Typed, TypeOK
<1>2. /\ layers' = layers /\ generation' = generation /\ pc'[t] = access[t].after
      /\ \A u \in Threads \ {t} : pc'[u] = pc[u] /\ access'[u] = access[u] /\ value'[u] = value[u]
  BY DEF Store, Write, Goto, Typed, TypeOK, changeVars
<1>3. \A k \in Keys : Effective(k)' = Effective(k)
  BY <1>2 DEF Effective
<1>4. Stale => Stale'
  BY <1>1, <1>2 DEF Stale
<1>5. CacheIsCurrent'
  <2>1. CASE access[t].hash = generation
    <3>1. cache' = [cache EXCEPT ![access[t].key] = value[t]]
      BY <2>1 DEF Store, Write
    <3>2. value[t] = Effective(access[t].key) \/ Stale
      BY <1>1, <2>1 DEF CacheInv, AnswersAreCurrent
    <3> QED
      BY <1>1, <1>3, <1>4, <3>1, <3>2 DEF CacheInv, CacheIsCurrent, Typed, TypeOK
  <2>2. CASE access[t].hash # generation
    <3>1. cache' = cache
      BY <2>2 DEF Store, Write
    <3> QED
      BY <1>3, <1>4, <3>1 DEF CacheInv, CacheIsCurrent
  <2> QED
    BY <2>1, <2>2
<1>6. \A u \in Threads : pc'[u] \in {"fetching", "storing", "recording"} => u # t
  BY <1>1, <1>2 DEF Afters
<1>7. AnswersAreCurrent'
  <2> SUFFICES ASSUME NEW u \in Threads, pc'[u] = "storing", access'[u].hash = generation', ~Stale'
               PROVE  value'[u] = Effective(access[u].key)'
    BY <1>2, <1>6 DEF AnswersAreCurrent
  <2>1. access[u].key \in Keys
    BY DEF Typed, TypeOK
  <2> QED
    BY <1>2, <1>3, <1>4, <1>6, <2>1 DEF CacheInv, AnswersAreCurrent
<1>8. HashesAreOld'
  BY <1>2, <1>6 DEF CacheInv, HashesAreOld
<1> QED
  BY <1>5, <1>7, <1>8 DEF CacheInv

\* The detection writes what the invariant allows for its key.
LEMMA UpdateCache == ASSUME Typed, CacheInv, UpdateConfigValue PROVE CacheInv'
<1>1. /\ pc[Main] = "recording" /\ access[Main].key = Method /\ access[Main].after \in Afters
  BY ThreadsAre DEF UpdateConfigValue, Typed, TypeOK
<1>2. /\ layers' = layers /\ generation' = generation /\ pc'[Main] = access[Main].after
      /\ value' = value
      /\ \A u \in Threads \ {Main} : pc'[u] = pc[u] /\ access'[u] = access[u]
  BY ThreadsAre DEF UpdateConfigValue, Write, Goto, Typed, TypeOK, changeVars
<1>3. \A k \in Keys : Effective(k)' = Effective(k)
  BY <1>2 DEF Effective
<1>4. Stale => Stale'
  BY <1>1, <1>2 DEF Stale
<1>5. cache' = cache \/ cache' = [cache EXCEPT ![Method] = Found]
  BY <1>1 DEF UpdateConfigValue, Write
<1>6. CacheIsCurrent'
  BY <1>3, <1>4, <1>5, KeysAreDifferent DEF CacheInv, CacheIsCurrent, Typed, TypeOK
<1>7. \A u \in Threads : pc'[u] \in {"fetching", "storing", "recording"} => u # Main
  BY <1>1, <1>2 DEF Afters
<1>8. AnswersAreCurrent'
  <2> SUFFICES ASSUME NEW u \in Threads, pc'[u] = "storing", access'[u].hash = generation', ~Stale'
               PROVE  value'[u] = Effective(access[u].key)'
    BY <1>2, <1>7 DEF AnswersAreCurrent
  <2>1. access[u].key \in Keys
    BY DEF Typed, TypeOK
  <2> QED
    BY <1>2, <1>3, <1>4, <1>7, <2>1 DEF CacheInv, AnswersAreCurrent
<1>9. HashesAreOld'
  BY <1>2, <1>7 DEF CacheInv, HashesAreOld
<1> QED
  BY <1>6, <1>8, <1>9 DEF CacheInv

\* A new cache is empty, and no access under way is to it.
LEMMA ResetCacheInv == ASSUME Typed, CacheInv, NEW t \in Threads, ResetStep(t) PROVE CacheInv'
<1>0. /\ layers' = layers /\ access' = access /\ value' = value
      /\ \A u \in Threads \ {t} : pc'[u] = pc[u]
      /\ pc'[t] \notin {"fetching", "storing", "recording"}
  BY DEF ResetStep, ResetCache, NewCache, Restore, Goto, Typed, TypeOK, changeVars
<1>1. \A k \in Keys : Effective(k)' = Effective(k)
  BY <1>0 DEF Effective
<1>2. \A u \in Threads : access[u].key \in Keys /\ access[u].hash \in Nat
  BY DEF Typed, TypeOK
<1>3. CASE ResetCache(t)
  <2>1. Stale' /\ cache' = cache /\ generation' = generation
    BY <1>3 DEF ResetCache, Goto, Stale, Typed, TypeOK, cacheVars
  <2> QED
    BY <1>0, <2>1 DEF CacheInv, CacheIsCurrent, AnswersAreCurrent, HashesAreOld
<1>4. CASE NewCache(t)
  <2>1. cache' = None /\ generation' = generation + 1 /\ generation \in Nat
    BY <1>4 DEF NewCache, Typed, TypeOK
  <2>2. CacheIsCurrent'
    BY <2>1, NoneIsSource DEF CacheIsCurrent
  <2>3. \A u \in Threads : pc'[u] \in {"fetching", "storing", "recording"}
                           => access'[u].hash <= generation
    BY <1>0 DEF CacheInv, HashesAreOld
  <2>4. AnswersAreCurrent' /\ HashesAreOld'
    BY <1>0, <1>2, <2>1, <2>3 DEF AnswersAreCurrent, HashesAreOld
  <2> QED
    BY <2>2, <2>4 DEF CacheInv
<1>5. CASE Restore(t)
  <2>0. /\ cache' = [k \in Keys |-> IF k \in preserved[t] THEN Found ELSE cache[k]]
        /\ preserved[t] \subseteq {Method}
    BY <1>5 DEF Restore, Typed
  <2>1. /\ generation' = generation /\ pc[t] = "restoring"
        /\ \A k \in Keys : cache'[k] = cache[k] \/ (k = Method /\ cache'[k] = Found)
    BY <1>5, <2>0 DEF Restore
  <2>2. Stale => Stale'
    BY <1>0, <2>1 DEF Stale
  <2>3. CacheIsCurrent'
    BY <1>1, <2>1, <2>2 DEF CacheInv, CacheIsCurrent
  <2>4. AnswersAreCurrent'
    BY <1>0, <1>1, <1>2, <2>1, <2>2 DEF CacheInv, AnswersAreCurrent
  <2>5. HashesAreOld'
    BY <1>0, <2>1 DEF CacheInv, HashesAreOld
  <2> QED
    BY <2>3, <2>4, <2>5 DEF CacheInv
<1> QED
  BY <1>3, <1>4, <1>5 DEF ResetStep

LEMMA CacheStep == Typed /\ CacheInv /\ [Next]_vars => CacheInv'
<1> SUFFICES ASSUME Typed, CacheInv, [Next]_vars PROVE CacheInv'
  OBVIOUS
<1>1. CASE Other
  BY <1>1, OtherQuiet, QuietCache
<1>2. CASE Assign \/ RemoveConfigType
  BY <1>2, ChangeQuiet, QuietCache
<1>3. CASE UpdateConfigValue
  BY <1>3, UpdateCache
<1>4. ASSUME NEW t \in Threads, Store(t) \/ ResetStep(t) PROVE CacheInv'
  BY <1>4, StoreCache, ResetCacheInv
<1>5. CASE UNCHANGED vars
  BY <1>5 DEF vars, readVars, cacheVars, changeVars, CacheInv, CacheIsCurrent,
                    AnswersAreCurrent, HashesAreOld, Stale, Effective
<1> QED
  BY <1>1, <1>2, <1>3, <1>4, <1>5, NextIs

\* The cache never holds an answer that a change of the stack overtook, for any
\* readers and sources: a default proc writes into the hash that called it.
THEOREM CacheIsCurrentHolds == Spec => []CacheIsCurrent
<1>1. CacheInv => CacheIsCurrent
  BY DEF CacheInv
<1> QED
  BY InitTyped, StepTyped, InitCache, CacheStep, <1>1, PTL DEF Spec

-----------------------------------------------------------------------------
(* Detected values *)

\* One thread at a time is between reset_cache's copy and what it restores, and
\* what it copied has the detected value.
KeepInv ==
  /\ DetectionKept
  /\ \A t, u \in Threads : Holding(t) /\ Holding(u) => t = u
  /\ detected /\ ~overtaken =>
       \A t \in Threads : pc[t] = "renewing" => Method \in preserved[t]

LEMMA InitKeep == Init => KeepInv
BY DEF Init, KeepInv, DetectionKept, Holding

LEMMA QuietKeep == ASSUME Typed, KeepInv, Quiet PROVE KeepInv'
<1>1. \A t \in Threads : pc[t] = "restoring" <=> pc'[t] = "restoring"
  BY DEF Quiet
<1>2. \A t \in Threads : pc[t] = "renewing" <=> pc'[t] = "renewing"
  BY DEF Quiet
<1>3. \A t \in Threads : Holding(t)' <=> Holding(t)
  BY <1>1, <1>2 DEF Holding
<1> QED
  BY <1>1, <1>2, <1>3 DEF KeepInv, DetectionKept, Quiet

\* A thread that stores or records is not resetting, and is not after it.
LEMMA WriteKeep ==
  ASSUME Typed, KeepInv, NEW t \in Threads, NEW v \in Values \cup {Found}, Write(t, v),
         pc[t] \in {"storing", "recording"}, UNCHANGED preserved
  PROVE  /\ \A u \in Threads : pc'[u] = pc[u] \/ (u = t /\ ~Holding(t) /\ ~Holding(t)')
         /\ \A u \in Threads : Holding(u)' <=> Holding(u)
<1>1. access[t].after \in Afters
  BY DEF Typed
<1>2. \A u \in Threads : pc'[u] = IF u = t THEN access[t].after ELSE pc[u]
  BY DEF Write, Goto, Typed, TypeOK
<1> QED
  BY <1>1, <1>2 DEF Holding, Afters

LEMMA StoreKeep == ASSUME Typed, KeepInv, NEW t \in Threads, Store(t) PROVE KeepInv'
<1>1. /\ pc[t] = "storing" /\ value[t] \in Values /\ Write(t, value[t])
      /\ detected' = detected /\ preserved' = preserved
      /\ overtaken' = (overtaken \/ (cache[Method] = Found /\ cache'[Method] # Found))
  BY DEF Store, Typed, changeVars
<1>2. /\ \A u \in Threads : pc'[u] = pc[u] \/ (u = t /\ ~Holding(t) /\ ~Holding(t)')
      /\ \A u \in Threads : Holding(u)' <=> Holding(u)
  BY <1>1, WriteKeep
<1>3. \A u \in Threads : /\ pc[u] = "restoring" <=> pc'[u] = "restoring"
                         /\ pc[u] = "renewing" <=> pc'[u] = "renewing"
  BY <1>2 DEF Holding
<1>4. DetectionKept'
  BY <1>1, <1>3 DEF KeepInv, DetectionKept
<1> QED
  BY <1>1, <1>2, <1>3, <1>4 DEF KeepInv

LEMMA UpdateKeep == ASSUME Typed, KeepInv, UpdateConfigValue PROVE KeepInv'
<1>1. /\ pc[Main] = "recording" /\ access[Main].key = Method /\ Write(Main, Found)
      /\ preserved' = preserved
      /\ overtaken' = (\/ access[Main].hash # generation
                       \/ \E t \in Threads : pc[t] = "renewing")
  BY ThreadsAre DEF UpdateConfigValue, Typed, changeVars
<1>2. /\ \A u \in Threads : pc'[u] = pc[u] \/ (u = Main /\ ~Holding(Main) /\ ~Holding(Main)')
      /\ \A u \in Threads : Holding(u)' <=> Holding(u)
  BY <1>1, WriteKeep, ThreadsAre
<1>3. ~overtaken' => cache' = [cache EXCEPT ![Method] = Found]
  BY <1>1 DEF Write
<1>4. ~overtaken' => cache'[Method] = Found
  BY <1>3, KeysAreDifferent DEF Typed, TypeOK
<1>5. ~overtaken' => \A u \in Threads : pc'[u] # "renewing"
  BY <1>1, <1>2 DEF Holding
<1> QED
  BY <1>2, <1>4, <1>5 DEF KeepInv, DetectionKept

LEMMA ResetKeep == ASSUME Typed, KeepInv, NEW t \in Threads, ResetStep(t) PROVE KeepInv'
<1>0. /\ detected' = detected /\ overtaken' = overtaken
      /\ \A u \in Threads \ {t} : pc'[u] = pc[u] /\ preserved'[u] = preserved[u]
  BY DEF ResetStep, ResetCache, NewCache, Restore, Goto, Typed, TypeOK, changeVars, history
<1>1. CASE ResetCache(t)
  <2>1. /\ \A u \in Threads : ~Holding(u)
        /\ pc'[t] = "renewing" /\ cache' = cache
        /\ preserved'[t] = {k \in Keys : cache[k] = Found}
    BY <1>1 DEF ResetCache, Goto, Typed, TypeOK, cacheVars
  <2>2. detected /\ ~overtaken => cache[Method] = Found
    BY <2>1 DEF KeepInv, DetectionKept, Holding
  <2>3. \A u \in Threads : Holding(u)' => u = t
    BY <1>0, <2>1 DEF Holding
  <2> QED
    BY <1>0, <2>1, <2>2, <2>3, KeysAreDifferent DEF KeepInv, DetectionKept, Holding
<1>2. CASE NewCache(t)
  <2>1. pc[t] = "renewing" /\ pc'[t] = "restoring" /\ preserved' = preserved
    BY <1>2 DEF NewCache, Goto, Typed, TypeOK, changeVars
  <2>2. \A u \in Threads : Holding(u)' => u = t
    BY <1>0, <2>1 DEF KeepInv, Holding
  <2> QED
    BY <1>0, <2>1, <2>2 DEF KeepInv, DetectionKept, Holding
<1>3. CASE Restore(t)
  <2>1. /\ pc[t] = "restoring" /\ pc'[t] \notin {"renewing", "restoring"}
        /\ cache' = [k \in Keys |-> IF k \in preserved[t] THEN Found ELSE cache[k]]
    BY <1>3 DEF Restore, Goto, Typed, TypeOK
  <2>2. \A u \in Threads : ~Holding(u)'
    BY <1>0, <2>1 DEF KeepInv, Holding
  <2>3. detected /\ ~overtaken => cache'[Method] = Found
    BY <2>1, KeysAreDifferent DEF KeepInv, DetectionKept, Holding
  <2> QED
    BY <1>0, <2>2, <2>3 DEF KeepInv, DetectionKept, Holding
<1> QED
  BY <1>1, <1>2, <1>3 DEF ResetStep

\* Resets of several threads never lose a detected value, for any readers and
\* sources: the lock makes the copy, the new cache and what is put back one.
THEOREM DetectionKeptHolds == Spec => []DetectionKept
<1>1. ASSUME Typed, KeepInv, [Next]_vars PROVE KeepInv'
  <2>1. CASE Other \/ Assign \/ RemoveConfigType
    BY <1>1, <2>1, OtherQuiet, ChangeQuiet, QuietKeep
  <2>2. CASE UpdateConfigValue
    BY <1>1, <2>2, UpdateKeep
  <2>3. ASSUME NEW t \in Threads, Store(t) \/ ResetStep(t) PROVE KeepInv'
    BY <1>1, <2>3, StoreKeep, ResetKeep
  <2>4. CASE UNCHANGED vars
    BY <1>1, <2>4 DEF vars, readVars, cacheVars, changeVars, history, KeepInv, DetectionKept,
                      Holding
  <2> QED
    BY <1>1, <2>1, <2>2, <2>3, <2>4, NextIs
<1>2. KeepInv => DetectionKept
  BY DEF KeepInv
<1> QED
  BY InitTyped, StepTyped, InitKeep, <1>1, <1>2, PTL DEF Spec

-----------------------------------------------------------------------------
(* The aggregator *)

InAccess(t, after) == pc[t] \in {"fetching", "storing"} /\ access[t].after \in after

Early == \/ pc[Main] \in {"constructing", "enabling", "registering", "yielding"}
         \/ InAccess(Main, {"enabling", "yielding"})
Running == \/ pc[Main] \in {"starting", "detecting", "running"}
           \/ pc[Main] = "recording" /\ access[Main].after = "running"
           \/ InAccess(Main, {"detecting"})
Reverting == \/ pc[Main] \in {"reverting", "resetting", "renewing", "restoring", "removed",
                              "comparing", "ended"}
             \/ InAccess(Main, {"comparing"})

\* Where the threads are: the main thread gets from one part to the next and
\* never back, the worker begins after the start, and a reader only reads.
Shaped ==
  /\ Early \/ Running \/ Reverting
  /\ Early => ~started
  /\ ~started => pc[Worker] = "idle"
  /\ \/ pc[Worker] \in {"idle", "gating", "announcing", "comparing", "assigning", "resetting",
                        "renewing", "restoring", "notifying", "enabling"}
     \/ InAccess(Worker, {"gating", "comparing", "enabling"})
  /\ \A r \in Readers : pc[r] = "idle" \/ InAccess(r, {"idle"})
  /\ \A t \in Threads : InAccess(t, {"enabling"}) => access[t].key = Enabled

\* Where a thread gets to by a read, by a write, or otherwise.
LEMMA LookupGoes ==
  ASSUME Typed, NEW t \in Threads, NEW k \in Keys, NEW p \in Afters, Lookup(t, k, p)
  PROVE  /\ \A u \in Threads \ {t} : pc'[u] = pc[u] /\ value'[u] = value[u] /\ access'[u] = access[u]
         /\ \/ pc'[t] = p /\ value'[t] = cache[k] /\ cache[k] # Absent /\ access'[t] = access[t]
            \/ pc'[t] = "fetching" /\ access'[t].after = p /\ access'[t].key = k
<1>1. /\ \A u \in Threads \ {t} : pc'[u] = pc[u] /\ value'[u] = value[u] /\ access'[u] = access[u]
      /\ \/ pc'[t] = p /\ value'[t] = cache[k] /\ access'[t] = access[t]
         \/ pc'[t] = "fetching" /\ value'[t] = value[t] /\ cache[k] = Absent
            /\ access'[t] = [hash |-> generation, key |-> k, after |-> p]
  BY LookupType
<1>2. pc'[t] = "fetching" \/ cache[k] # Absent
  BY DEF Lookup, Goto, Typed, TypeOK
<1> QED
  BY <1>1, <1>2 DEF Afters

LEMMA GotoGoes ==
  ASSUME Typed, NEW t \in Threads, NEW p, Goto(t, p)
  PROVE  pc'[t] = p /\ \A u \in Threads \ {t} : pc'[u] = pc[u]
BY DEF Goto, Typed, TypeOK

LEMMA WriteGoes ==
  ASSUME Typed, NEW t \in Threads, NEW v, Write(t, v)
  PROVE  /\ pc'[t] = access[t].after
         /\ \A u \in Threads \ {t} : pc'[u] = pc[u] /\ access'[u] = access[u]
BY DEF Write, Goto, Typed, TypeOK

LEMMA InitShaped == Init => Shaped
<1> SUFFICES ASSUME Init PROVE Shaped
  OBVIOUS
<1>1. /\ pc[Main] = "constructing" /\ started = FALSE
      /\ \A t \in Threads \ {Main} : pc[t] = "idle"
  BY ThreadsAre DEF Init
<1> QED
  BY <1>1, ThreadsAre, ThreadsAssumption DEF Shaped, Early, InAccess, Init

\* A step of one thread leaves the others where they are.
Alone(t) == \A u \in Threads \ {t} : pc'[u] = pc[u] /\ access'[u] = access[u]

LEMMA MainMoves ==
  ASSUME Shaped, Alone(Main), started' = started \/ started',
         Early' \/ Running' \/ Reverting', Early' => ~started',
         InAccess(Main, {"enabling"})' => access'[Main].key = Enabled
  PROVE  Shaped'
<1>1. Worker \in Threads \ {Main} /\ \A r \in Readers : r \in Threads \ {Main}
  BY ThreadsAre, ThreadsAssumption
<1>2. \A u \in Threads \ {Main} : pc'[u] = pc[u] /\ access'[u] = access[u]
  BY DEF Alone
<1> QED
  BY <1>1, <1>2 DEF Shaped, InAccess

LEMMA WorkerMoves ==
  ASSUME Shaped, Alone(Worker), started, started',
         \/ pc'[Worker] \in {"idle", "gating", "announcing", "comparing", "assigning", "resetting",
                             "renewing", "restoring", "notifying", "enabling"}
         \/ InAccess(Worker, {"gating", "comparing", "enabling"})',
         InAccess(Worker, {"enabling"})' => access'[Worker].key = Enabled
  PROVE  Shaped'
<1>1. Main \in Threads \ {Worker} /\ \A r \in Readers : r \in Threads \ {Worker}
  BY ThreadsAre, ThreadsAssumption
<1>2. \A u \in Threads \ {Worker} : pc'[u] = pc[u] /\ access'[u] = access[u]
  BY DEF Alone
<1>3. (Early <=> Early') /\ (Running <=> Running') /\ (Reverting <=> Reverting')
  BY <1>1, <1>2 DEF Early, Running, Reverting, InAccess
<1> QED
  BY <1>1, <1>2, <1>3 DEF Shaped, InAccess

LEMMA ReaderMoves ==
  ASSUME Shaped, NEW r \in Readers, Alone(r), started' = started,
         pc'[r] = "idle" \/ InAccess(r, {"idle"})'
  PROVE  Shaped'
<1>1. Main \in Threads \ {r} /\ Worker \in Threads \ {r} /\ r \in Threads
  BY ThreadsAre, ThreadsAssumption
<1>2. \A u \in Threads \ {r} : pc'[u] = pc[u] /\ access'[u] = access[u]
  BY DEF Alone
<1>3. (Early <=> Early') /\ (Running <=> Running') /\ (Reverting <=> Reverting')
  BY <1>1, <1>2 DEF Early, Running, Reverting, InAccess
<1>4. \A q \in Readers : pc'[q] = "idle" \/ InAccess(q, {"idle"})'
  BY <1>2, ThreadsAre DEF Shaped, InAccess
<1>5. \A t \in Threads : InAccess(t, {"enabling"})' => access'[t].key = Enabled
  BY <1>1, <1>2 DEF Shaped, InAccess
<1> QED
  BY <1>1, <1>2, <1>3, <1>4, <1>5 DEF Shaped, InAccess

\* Who is anywhere but at an idle or a fetching place is known.
LEMMA WhoMoves ==
  ASSUME Shaped, NEW t \in Threads
  PROVE  t = Main \/ (t = Worker /\ (started \/ pc[t] = "idle")) \/ t \in Readers
BY DEF Shaped, Threads

LEMMA ReadShaped == ASSUME Typed, Shaped, NEW t \in Threads, ReadStep(t) PROVE Shaped'
<1>1. started' = started /\ Alone(t) /\ pc[t] \in {"fetching", "storing"}
  BY WriteGoes DEF ReadStep, Fetch, Store, Goto, Alone, Typed, TypeOK, agentVars
<1>2. \/ pc'[t] = "storing" /\ access'[t] = access[t]
      \/ pc'[t] = access[t].after
  BY WriteGoes DEF ReadStep, Fetch, Store, Goto, Typed, TypeOK
<1>3. CASE t = Main
  <2>1. access[Main].after \in {"enabling", "yielding", "detecting", "comparing"}
    BY <1>1, <1>3 DEF Shaped, Early, Running, Reverting, InAccess
  <2>2. /\ access[Main].after \in {"enabling", "yielding"} => Early' /\ ~started
        /\ access[Main].after = "detecting" => Running'
        /\ access[Main].after = "comparing" => Reverting'
    BY <1>1, <1>2, <1>3 DEF Shaped, Early, Running, Reverting, InAccess
  <2>3. InAccess(Main, {"enabling"})' => access'[Main].key = Enabled
    BY <1>1, <1>2, <1>3, <2>1 DEF Shaped, InAccess
  <2>4. Early' => ~started'
    BY <1>1, <1>2, <1>3, <2>1, <2>2 DEF Early, InAccess
  <2> QED
    BY <1>1, <1>3, <2>1, <2>2, <2>3, <2>4, MainMoves
<1>4. CASE t = Worker
  <2>1. started /\ access[Worker].after \in {"gating", "comparing", "enabling"}
    BY <1>1, <1>4 DEF Shaped, InAccess
  <2>2. InAccess(Worker, {"enabling"})' => access'[Worker].key = Enabled
    BY <1>1, <1>2, <1>4, <2>1 DEF Shaped, InAccess
  <2>3. \/ pc'[Worker] \in {"gating", "comparing", "enabling"}
        \/ InAccess(Worker, {"gating", "comparing", "enabling"})'
    BY <1>2, <1>4, <2>1 DEF InAccess
  <2> QED
    BY <1>1, <1>4, <2>1, <2>2, <2>3, WorkerMoves
<1>5. CASE t \in Readers
  <2>1. access[t].after = "idle"
    BY <1>1, <1>5 DEF Shaped, InAccess
  <2>2. pc'[t] = "idle" \/ InAccess(t, {"idle"})'
    BY <1>2, <2>1 DEF InAccess
  <2> QED
    BY <1>1, <1>5, <2>2, ReaderMoves
<1> QED
  BY <1>3, <1>4, <1>5, WhoMoves

LEMMA ResetShaped == ASSUME Typed, Shaped, NEW t \in Threads, ResetStep(t) PROVE Shaped'
<1>1. started' = started /\ access' = access /\ pc[t] \in {"resetting", "renewing", "restoring"}
  BY DEF ResetStep, ResetCache, NewCache, Restore, changeVars, agentVars
<1>2. /\ pc'[t] \in {"renewing", "restoring", IF t = Worker THEN "notifying" ELSE "removed"}
      /\ Alone(t)
  BY <1>1 DEF ResetStep, ResetCache, NewCache, Restore, Goto, Alone, Typed, TypeOK
<1>3. CASE t = Main
  <2>1. Reverting' /\ ~Early' /\ ~InAccess(Main, {"enabling"})'
    BY <1>2, <1>3, ThreadsAssumption DEF Reverting, Early, InAccess
  <2> QED
    BY <1>1, <1>2, <1>3, <2>1, MainMoves
<1>4. CASE t = Worker
  <2>1. started
    BY <1>1, <1>4 DEF Shaped
  <2>2. ~InAccess(Worker, {"enabling"})'
    BY <1>2, <1>4 DEF InAccess
  <2> QED
    BY <1>1, <1>2, <1>4, <2>1, <2>2, WorkerMoves
<1>5. t \notin Readers
  BY <1>1 DEF Shaped, InAccess
<1> QED
  BY <1>3, <1>4, <1>5, WhoMoves

LEMMA EnableShaped == ASSUME Typed, Shaped, NEW t \in Threads, Enable(t) PROVE Shaped'
<1>1. /\ started' = started /\ access' = access /\ pc[t] = "enabling"
      /\ pc'[t] = (IF t = Main THEN "registering" ELSE "idle") /\ Alone(t)
  BY GotoGoes DEF Enable, Alone, agentVars
<1>2. CASE t = Main
  <2>1. Early' /\ ~InAccess(Main, {"enabling"})' /\ ~started
    BY <1>1, <1>2 DEF Early, InAccess, Shaped
  <2> QED
    BY <1>1, <1>2, <2>1, MainMoves
<1>3. CASE t = Worker
  <2>1. started /\ pc'[Worker] = "idle" /\ ~InAccess(Worker, {"enabling"})'
    BY <1>1, <1>3, ThreadsAssumption DEF InAccess, Shaped
  <2> QED
    BY <1>1, <1>3, <2>1, WorkerMoves
<1>4. t \notin Readers
  BY <1>1 DEF Shaped, InAccess
<1> QED
  BY <1>2, <1>3, <1>4, WhoMoves

LEMMA MainShaped == ASSUME Typed, Shaped, MainStep PROVE Shaped'
<1>1. CASE Construct
  <2>1. /\ Alone(Main) /\ started' = started /\ pc[Main] = "constructing"
        /\ \/ pc'[Main] = "enabling"
           \/ pc'[Main] = "fetching" /\ access'[Main].after = "enabling" /\ access'[Main].key = Enabled
    BY <1>1, LookupGoes, ThreadsAre, KeysAreDifferent DEF Construct, Alone, Afters, agentVars
  <2> QED
    BY <2>1, MainMoves DEF Shaped, Early, InAccess
<1>2. CASE RegisterCallback
  <2>1. /\ Alone(Main) /\ started' = started /\ pc[Main] = "registering"
        /\ \/ pc'[Main] = "yielding"
           \/ pc'[Main] = "fetching" /\ access'[Main].after = "yielding"
    BY <1>2, LookupGoes, ThreadsAre, KeysAreDifferent DEF RegisterCallback, Alone, Afters, agentVars
  <2> QED
    BY <2>1, MainMoves DEF Shaped, Early, InAccess
<1>3. CASE YieldAndStart
  <2>1. Alone(Main) /\ started' /\ pc'[Main] = "starting"
    BY <1>3, GotoGoes, ThreadsAre DEF YieldAndStart, Alone
  <2> QED
    BY <2>1, MainMoves DEF Shaped, Early, Running, InAccess
<1>4. CASE Detect
  <2>1. /\ Alone(Main) /\ started' = started
        /\ \/ pc'[Main] = "detecting"
           \/ pc'[Main] = "fetching" /\ access'[Main].after = "detecting"
    BY <1>4, LookupGoes, ThreadsAre, KeysAreDifferent DEF Detect, Alone, Afters, agentVars
  <2> QED
    BY <2>1, MainMoves DEF Shaped, Early, Running, InAccess
<1>5. CASE UsePrepend
  <2>1. /\ Alone(Main) /\ started' = started
        /\ \/ pc'[Main] = "running"
           \/ pc'[Main] = "recording" /\ access'[Main].after = "running"
    BY <1>5, ThreadsAre, KeysAreDifferent DEF UsePrepend, Goto, Alone, Typed, TypeOK, agentVars
  <2> QED
    BY <2>1, MainMoves DEF Shaped, Early, Running, InAccess
<1>6. CASE UpdateConfigValue
  <2>1. Alone(Main) /\ started' = started /\ pc[Main] = "recording" /\ pc'[Main] = access[Main].after
    BY <1>6, WriteGoes, ThreadsAre DEF UpdateConfigValue, Alone, agentVars
  <2>2. pc'[Main] = "running"
    BY <2>1 DEF Shaped, Early, Running, Reverting, InAccess
  <2> QED
    BY <2>1, <2>2, MainMoves DEF Shaped, Early, Running, InAccess
<1>7. CASE Shutdown \/ RemoveConfigType
  <2>1. Alone(Main) /\ started' = started /\ pc'[Main] \in {"reverting", "resetting"}
    BY <1>7, GotoGoes, ThreadsAre DEF Shutdown, RemoveConfigType, Alone, agentVars
  <2> QED
    BY <2>1, MainMoves DEF Shaped, Early, Reverting, InAccess
<1>8. CASE InvokeRemoveCallbacks \/ CallBackRemoved
  <2>1. Alone(Main) /\ started' = started
    BY <1>8, LookupGoes, GotoGoes, ThreadsAre, KeysAreDifferent
    DEF InvokeRemoveCallbacks, CallBackRemoved, NextRemoval, Alone, Afters, agentVars
  <2>2. \/ pc'[Main] \in {"reverting", "ended", "comparing"}
        \/ pc'[Main] = "fetching" /\ access'[Main].after = "comparing"
    BY <1>8, LookupGoes, GotoGoes, ThreadsAre, KeysAreDifferent
    DEF InvokeRemoveCallbacks, CallBackRemoved, NextRemoval, Afters
  <2> QED
    BY <2>1, <2>2, MainMoves DEF Shaped, Early, Reverting, InAccess
<1> QED
  BY <1>1, <1>2, <1>3, <1>4, <1>5, <1>6, <1>7, <1>8 DEF MainStep

LEMMA WorkerShaped == ASSUME Typed, Shaped, WorkerStep PROVE Shaped'
<1>0. Worker \in Threads /\ Enabled \in Keys /\ Limit \in Keys
      /\ {"gating", "comparing", "enabling"} \subseteq Afters
  BY ThreadsAre, KeysAreDifferent DEF Afters
<1>1. ASSUME NEW rep \in Replies, Connect(rep) PROVE Shaped'
  <2>1. /\ Alone(Worker) /\ started /\ started'
        /\ \/ pc'[Worker] = "gating"
           \/ pc'[Worker] = "fetching" /\ access'[Worker].after = "gating"
    BY <1>0, <1>1, LookupGoes, GotoGoes DEF Connect, Alone
  <2> QED
    BY <2>1, WorkerMoves DEF InAccess
<1>2. CASE ApplyFeatureGates \/ CallBack \/ Assign
  <2>1. /\ Alone(Worker) /\ started' = started /\ pc[Worker] # "idle"
        /\ pc'[Worker] \in {"announcing", "assigning", "resetting"}
    BY <1>0, <1>2, GotoGoes DEF ApplyFeatureGates, CallBack, Assign, Alone, agentVars
  <2>2. started
    BY <2>1 DEF Shaped
  <2> QED
    BY <2>1, <2>2, WorkerMoves DEF InAccess
<1>3. CASE InvokeCallbacks
  <2>1. /\ Alone(Worker) /\ started' = started /\ pc[Worker] # "idle"
        /\ \/ pc'[Worker] \in {"assigning", "comparing"}
           \/ pc'[Worker] = "fetching" /\ access'[Worker].after = "comparing"
    BY <1>0, <1>3, GotoGoes, LookupGoes DEF InvokeCallbacks, Alone, agentVars
  <2>2. started
    BY <2>1 DEF Shaped
  <2> QED
    BY <2>1, <2>2, WorkerMoves DEF InAccess
<1>4. CASE NotifyServerSourceAdded
  <2>1. /\ Alone(Worker) /\ started' = started /\ pc[Worker] # "idle"
        /\ \/ pc'[Worker] = "enabling"
           \/ pc'[Worker] = "fetching" /\ access'[Worker].after = "enabling" /\ access'[Worker].key = Enabled
    BY <1>0, <1>4, LookupGoes DEF NotifyServerSourceAdded, Alone, agentVars
  <2>2. started
    BY <2>1 DEF Shaped
  <2> QED
    BY <2>1, <2>2, WorkerMoves DEF InAccess
<1> QED
  BY <1>1, <1>2, <1>3, <1>4 DEF WorkerStep

LEMMA StepShaped == Typed /\ Shaped /\ [Next]_vars => Shaped'
<1> SUFFICES ASSUME Typed, Shaped, [Next]_vars PROVE Shaped'
  OBVIOUS
<1>1. ASSUME NEW r \in Readers, NEW k \in Keys, Read(r, k) PROVE Shaped'
  <2>1. /\ Alone(r) /\ started' = started
        /\ \/ pc'[r] = "idle"
           \/ pc'[r] = "fetching" /\ access'[r].after = "idle"
    BY <1>1, LookupGoes, ThreadsAre DEF Read, Alone, Afters, agentVars
  <2> QED
    BY <2>1, ReaderMoves DEF InAccess
<1>2. CASE UNCHANGED vars
  BY <1>2 DEF vars, readVars, cacheVars, changeVars, agentVars, Shaped, Early, Running,
              Reverting, InAccess
<1> QED
  BY <1>1, <1>2, ReadShaped, ResetShaped, EnableShaped, MainShaped, WorkerShaped DEF Next

Constructing == pc[Main] \in {"constructing", "enabling"} \/ InAccess(Main, {"enabling"})
Announcing == \/ pc[Worker] \in {"resetting", "renewing", "restoring", "notifying", "enabling"}
              \/ InAccess(Worker, {"enabling"})

\* Until the shutdown, what is about to be applied is the value in effect, and
\* what was applied still is, unless the aggregator is being made or the worker
\* is on its way from the new source to the handler of its event.
FollowInv ==
  ~Reverting =>
    /\ \A t \in Threads : \/ pc[t] = "enabling"
                          \/ pc[t] = "storing" /\ access[t].after = "enabling"
                          => value[t] = Effective(Enabled)
    /\ applied = Effective(Enabled) \/ Constructing \/ Announcing

LEMMA InitFollows == Init => FollowInv
<1> SUFFICES ASSUME Init PROVE FollowInv
  OBVIOUS
<1>1. pc[Main] = "constructing" /\ \A t \in Threads : pc[t] \in {"constructing", "idle"}
  BY ThreadsAre DEF Init
<1> QED
  BY <1>1 DEF FollowInv, Constructing

\* A hit outside of a change of the stack gives the value in effect.
LEMMA HitIsCurrent ==
  ASSUME CacheInv, Shaped, ~Reverting, NEW k \in Keys \ {Method}, cache[k] # Absent,
         pc[Worker] \notin {"resetting", "renewing"}
  PROVE  cache[k] = Effective(k)
<1>1. ~Stale
  BY WhoMoves DEF Stale, Shaped, Reverting, InAccess
<1> QED
  BY <1>1 DEF CacheInv, CacheIsCurrent

\* Threads that change neither the stack nor what is applied.
LEMMA MainElse ==
  ASSUME FollowInv, layers' = layers, applied' = applied, Alone(Main),
         \A u \in Threads \ {Main} : value'[u] = value[u],
         ~Reverting' => ~Reverting /\ ~Constructing,
         ~InAccess(Main, {"enabling"})' /\ pc'[Main] # "enabling"
  PROVE  FollowInv'
<1> SUFFICES ASSUME ~Reverting' PROVE FollowInv'
  BY DEF FollowInv
<1>1. Effective(Enabled)' = Effective(Enabled)
  BY DEF Effective
<1>2. Announcing <=> Announcing'
  BY ThreadsAre, ThreadsAssumption DEF Announcing, Alone, InAccess
<1> QED
  BY <1>1, <1>2 DEF FollowInv, Alone, InAccess

LEMMA WorkerElse ==
  ASSUME FollowInv, layers' = layers, applied' = applied, Alone(Worker),
         \A u \in Threads \ {Worker} : value'[u] = value[u],
         Announcing => Announcing',
         ~InAccess(Worker, {"enabling"})' /\ pc'[Worker] # "enabling"
  PROVE  FollowInv'
<1>1. Effective(Enabled)' = Effective(Enabled)
  BY DEF Effective
<1>2. (Reverting <=> Reverting') /\ (Constructing <=> Constructing')
  BY ThreadsAre, ThreadsAssumption DEF Reverting, Constructing, Alone, InAccess
<1> QED
  BY <1>1, <1>2 DEF FollowInv, Alone, InAccess

LEMMA ReaderElse ==
  ASSUME FollowInv, NEW r \in Readers, layers' = layers, applied' = applied, Alone(r),
         \A u \in Threads \ {r} : value'[u] = value[u],
         pc'[r] = "idle" \/ access'[r].after = "idle", pc'[r] # "enabling"
  PROVE  FollowInv'
<1>1. Effective(Enabled)' = Effective(Enabled)
  BY DEF Effective
<1>2. (Reverting <=> Reverting') /\ (Constructing <=> Constructing') /\ (Announcing <=> Announcing')
  BY ThreadsAre, ThreadsAssumption DEF Reverting, Constructing, Announcing, Alone, InAccess
<1> QED
  BY <1>1, <1>2 DEF FollowInv, Alone

LEMMA ReadFollows ==
  ASSUME Typed, Shaped, FollowInv, NEW t \in Threads, ReadStep(t) PROVE FollowInv'
<1>1. /\ layers' = layers /\ applied' = applied
      /\ \A u \in Threads \ {t} : pc'[u] = pc[u] /\ access'[u] = access[u] /\ value'[u] = value[u]
  BY WriteGoes DEF ReadStep, Fetch, Store, Goto, Typed, TypeOK, changeVars
<1>2. Effective(Enabled)' = Effective(Enabled)
  BY <1>1 DEF Effective
<1>3. /\ Reverting => Reverting'
      /\ Constructing => Constructing'
      /\ Announcing => Announcing'
  <2>1. \/ pc'[t] = "storing" /\ access'[t] = access[t]
        \/ pc'[t] = access[t].after
    BY WriteGoes DEF ReadStep, Fetch, Store, Goto, Typed, TypeOK
  <2>2. pc[t] \in {"fetching", "storing"}
    BY DEF ReadStep, Fetch, Store
  <2> QED
    BY <1>1, <2>1, <2>2, ThreadsAre DEF Reverting, Constructing, Announcing, InAccess
<1>4. CASE Fetch(t)
  <2>1. access[t].after = "enabling" => value'[t] = Effective(Enabled)
    BY <1>4 DEF Fetch, Shaped, InAccess, Typed, TypeOK
  <2>2. pc'[t] = "storing" /\ access'[t] = access[t]
    BY <1>4 DEF Fetch, Goto, Typed, TypeOK
  <2> QED
    BY <1>1, <1>2, <1>3, <2>1, <2>2 DEF FollowInv
<1>5. CASE Store(t)
  <2>1. pc[t] = "storing" /\ pc'[t] = access[t].after /\ access[t].after # "storing"
    BY <1>5, WriteGoes DEF Store, Typed, Afters
  <2>2. access[t].after = "enabling" => value'[t] = value[t]
    BY <1>5 DEF Store, Shaped, InAccess
  <2> QED
    BY <1>1, <1>2, <1>3, <2>1, <2>2 DEF FollowInv
<1> QED
  BY <1>4, <1>5 DEF ReadStep

LEMMA ResetFollows ==
  ASSUME Typed, Shaped, FollowInv, NEW t \in Threads, ResetStep(t) PROVE FollowInv'
<1>1. /\ layers' = layers /\ applied' = applied /\ access' = access /\ value' = value
      /\ pc[t] \in {"resetting", "renewing", "restoring"}
      /\ pc'[t] \in {"renewing", "restoring", IF t = Worker THEN "notifying" ELSE "removed"}
      /\ \A u \in Threads \ {t} : pc'[u] = pc[u]
  BY DEF ResetStep, ResetCache, NewCache, Restore, Goto, Typed, TypeOK, changeVars
<1>2. CASE t = Main
  BY <1>1, <1>2, ThreadsAssumption DEF FollowInv, Reverting
<1>3. CASE t = Worker
  <2>1. Announcing' /\ ~InAccess(Worker, {"enabling"})' /\ pc'[Worker] # "enabling"
    BY <1>1, <1>3 DEF Announcing, InAccess
  <2> QED
    BY <1>1, <1>3, <2>1, WorkerElse DEF Alone
<1>4. t \notin Readers
  BY <1>1 DEF Shaped, InAccess
<1> QED
  BY <1>2, <1>3, <1>4, WhoMoves

LEMMA EnableFollows ==
  ASSUME Typed, Shaped, FollowInv, NEW t \in Threads, Enable(t) PROVE FollowInv'
<1>1. /\ layers' = layers /\ applied' = value[t] /\ access' = access /\ value' = value
      /\ pc[t] = "enabling" /\ pc'[t] \in {"registering", "idle"}
      /\ \A u \in Threads \ {t} : pc'[u] = pc[u]
  BY GotoGoes DEF Enable, changeVars
<1>2. Effective(Enabled)' = Effective(Enabled)
  BY <1>1 DEF Effective
<1>3. Reverting => Reverting'
  BY <1>1, ThreadsAre DEF Reverting, InAccess
<1> QED
  BY <1>1, <1>2, <1>3 DEF FollowInv

LEMMA MainFollows ==
  ASSUME Typed, CacheInv, Shaped, FollowInv, MainStep PROVE FollowInv'
<1>1. CASE Construct
  <2>1. /\ layers' = layers /\ applied' = applied /\ Alone(Main)
        /\ \A u \in Threads \ {Main} : value'[u] = value[u]
        /\ \/ pc'[Main] = "enabling" /\ value'[Main] = cache[Enabled] /\ cache[Enabled] # Absent
           \/ pc'[Main] = "fetching" /\ access'[Main].after = "enabling"
    BY <1>1, LookupGoes, ThreadsAre, KeysAreDifferent DEF Construct, Alone, Afters, changeVars
  <2>2. ~Reverting /\ pc[Worker] = "idle"
    BY <1>1 DEF Construct, Shaped, Early, Reverting, InAccess
  <2>3. pc'[Main] = "enabling" => value'[Main] = Effective(Enabled)
    BY <2>1, <2>2, HitIsCurrent, KeysAreDifferent
  <2>4. Effective(Enabled)' = Effective(Enabled) /\ Constructing'
    BY <2>1 DEF Effective, Constructing, InAccess
  <2> QED
    BY <2>1, <2>2, <2>3, <2>4 DEF FollowInv, Alone
<1>2. CASE RegisterCallback
  <2>1. /\ layers' = layers /\ applied' = applied /\ Alone(Main)
        /\ \A u \in Threads \ {Main} : value'[u] = value[u]
        /\ pc[Main] = "registering"
        /\ \/ pc'[Main] = "yielding"
           \/ pc'[Main] = "fetching" /\ access'[Main].after = "yielding"
    BY <1>2, LookupGoes, ThreadsAre, KeysAreDifferent DEF RegisterCallback, Alone, Afters, changeVars
  <2> QED
    BY <2>1, MainElse DEF Reverting, Constructing, InAccess
<1>3. CASE YieldAndStart
  <2>1. /\ layers' = layers /\ applied' = applied /\ Alone(Main) /\ value' = value
        /\ pc[Main] = "yielding" /\ pc'[Main] = "starting"
    BY <1>3, GotoGoes, ThreadsAre DEF YieldAndStart, Alone, changeVars
  <2> QED
    BY <2>1, MainElse DEF Reverting, Constructing, InAccess
<1>4. CASE Detect
  <2>1. /\ layers' = layers /\ applied' = applied /\ Alone(Main)
        /\ \A u \in Threads \ {Main} : value'[u] = value[u]
        /\ pc[Main] = "starting"
        /\ \/ pc'[Main] = "detecting"
           \/ pc'[Main] = "fetching" /\ access'[Main].after = "detecting"
    BY <1>4, LookupGoes, ThreadsAre, KeysAreDifferent DEF Detect, Alone, Afters, changeVars
  <2> QED
    BY <2>1, MainElse DEF Reverting, Constructing, InAccess
<1>5. CASE UsePrepend
  <2>1. /\ layers' = layers /\ applied' = applied /\ Alone(Main) /\ value' = value
        /\ pc[Main] = "detecting" /\ pc'[Main] \in {"running", "recording"}
    BY <1>5, ThreadsAre DEF UsePrepend, Goto, Alone, Typed, TypeOK, changeVars
  <2> QED
    BY <2>1, MainElse DEF Reverting, Constructing, InAccess
<1>6. CASE UpdateConfigValue
  <2>1. /\ layers' = layers /\ applied' = applied /\ Alone(Main) /\ value' = value
        /\ pc[Main] = "recording" /\ pc'[Main] = access[Main].after
    BY <1>6, WriteGoes, ThreadsAre DEF UpdateConfigValue, Alone, changeVars
  <2>2. pc'[Main] = "running"
    BY <2>1 DEF Shaped, Early, Running, Reverting, InAccess
  <2> QED
    BY <2>1, <2>2, MainElse DEF Reverting, Constructing, InAccess
<1>7. CASE Shutdown \/ RemoveConfigType
  <2>1. pc'[Main] \in {"reverting", "resetting"}
    BY <1>7, GotoGoes, ThreadsAre DEF Shutdown, RemoveConfigType
  <2> QED
    BY <2>1 DEF FollowInv, Reverting
<1>8. CASE InvokeRemoveCallbacks \/ CallBackRemoved
  <2>1. \/ pc'[Main] \in {"reverting", "ended", "comparing"}
        \/ pc'[Main] = "fetching" /\ access'[Main].after = "comparing"
    BY <1>8, LookupGoes, GotoGoes, ThreadsAre, KeysAreDifferent
    DEF InvokeRemoveCallbacks, CallBackRemoved, NextRemoval, Afters
  <2> QED
    BY <2>1 DEF FollowInv, Reverting, InAccess
<1> QED
  BY <1>1, <1>2, <1>3, <1>4, <1>5, <1>6, <1>7, <1>8 DEF MainStep

LEMMA WorkerFollows ==
  ASSUME Typed, CacheInv, Shaped, FollowInv, WorkerStep PROVE FollowInv'
<1>0. Worker \in Threads /\ Enabled \in Keys /\ Limit \in Keys
      /\ {"gating", "comparing", "enabling"} \subseteq Afters
  BY ThreadsAre, KeysAreDifferent DEF Afters
<1>1. ASSUME NEW rep \in Replies, Connect(rep) PROVE FollowInv'
  <2>1. /\ layers' = layers /\ applied' = applied /\ Alone(Worker) /\ pc[Worker] = "idle"
        /\ \A u \in Threads \ {Worker} : value'[u] = value[u]
        /\ \/ pc'[Worker] = "gating"
           \/ pc'[Worker] = "fetching" /\ access'[Worker].after = "gating"
    BY <1>0, <1>1, LookupGoes, GotoGoes DEF Connect, Alone, changeVars
  <2> QED
    BY <2>1, WorkerElse DEF Announcing, InAccess
<1>2. CASE ApplyFeatureGates \/ CallBack
  <2>1. /\ layers' = layers /\ applied' = applied /\ Alone(Worker) /\ value' = value
        /\ pc[Worker] \in {"gating", "comparing"} /\ pc'[Worker] \in {"announcing", "assigning"}
    BY <1>0, <1>2, GotoGoes DEF ApplyFeatureGates, CallBack, Alone, changeVars
  <2> QED
    BY <2>1, WorkerElse DEF Announcing, InAccess
<1>3. CASE InvokeCallbacks
  <2>1. /\ layers' = layers /\ applied' = applied /\ Alone(Worker) /\ pc[Worker] = "announcing"
        /\ \A u \in Threads \ {Worker} : value'[u] = value[u]
        /\ \/ pc'[Worker] \in {"assigning", "comparing"}
           \/ pc'[Worker] = "fetching" /\ access'[Worker].after = "comparing"
    BY <1>0, <1>3, LookupGoes, GotoGoes DEF InvokeCallbacks, Alone, changeVars
  <2> QED
    BY <2>1, WorkerElse DEF Announcing, InAccess
<1>4. CASE Assign
  <2>1. /\ Alone(Worker) /\ pc[Worker] = "assigning" /\ pc'[Worker] = "resetting"
    BY <1>0, <1>4, GotoGoes DEF Assign, Alone
  <2>2. ~Early
    BY <2>1 DEF Shaped
  <2>3. ASSUME NEW t \in Threads
        PROVE  pc'[t] # "enabling" /\ (pc'[t] = "storing" => access'[t].after # "enabling")
    BY <2>1, <2>2, <2>3, WhoMoves DEF Shaped, Early, Running, Reverting, InAccess, Alone
  <2> QED
    BY <2>1, <2>3 DEF FollowInv, Announcing
<1>5. CASE NotifyServerSourceAdded
  <2>1. /\ layers' = layers /\ applied' = applied /\ Alone(Worker) /\ pc[Worker] = "notifying"
        /\ \A u \in Threads \ {Worker} : value'[u] = value[u]
        /\ \/ pc'[Worker] = "enabling" /\ value'[Worker] = cache[Enabled] /\ cache[Enabled] # Absent
           \/ pc'[Worker] = "fetching" /\ access'[Worker].after = "enabling"
    BY <1>0, <1>5, LookupGoes DEF NotifyServerSourceAdded, Alone, changeVars
  <2>2. pc'[Worker] = "enabling" /\ ~Reverting => value'[Worker] = Effective(Enabled)
    BY <2>1, HitIsCurrent, KeysAreDifferent
  <2>3. Effective(Enabled)' = Effective(Enabled) /\ Announcing'
    BY <2>1 DEF Effective, Announcing, InAccess
  <2>4. Reverting => Reverting'
    BY <2>1, ThreadsAre, ThreadsAssumption DEF Reverting, InAccess, Alone
  <2> QED
    BY <2>1, <2>2, <2>3, <2>4 DEF FollowInv, Alone
<1> QED
  BY <1>1, <1>2, <1>3, <1>4, <1>5 DEF WorkerStep

\* An aggregator is enabled as the configuration says whenever no connect is
\* under way, for any readers, sources and answers: the event comes after the
\* new cache, and nothing of the old one gets into that.
THEOREM AggregatorFollowsHolds == Spec => []AggregatorFollows
<1>1. ASSUME Typed, CacheInv, Shaped, FollowInv, [Next]_vars PROVE FollowInv'
  <2>1. ASSUME NEW r \in Readers, NEW k \in Keys, Read(r, k) PROVE FollowInv'
    <3>1. /\ layers' = layers /\ applied' = applied /\ Alone(r)
          /\ \A u \in Threads \ {r} : value'[u] = value[u]
          /\ pc'[r] = "idle" \/ (pc'[r] = "fetching" /\ access'[r].after = "idle")
      BY <1>1, <2>1, LookupGoes, ThreadsAre DEF Read, Alone, Afters, changeVars
    <3> QED
      BY <1>1, <3>1, ReaderElse
  <2>2. CASE UNCHANGED vars
    BY <1>1, <2>2 DEF vars, readVars, cacheVars, changeVars, FollowInv, Effective, Reverting,
                      Constructing, Announcing, InAccess
  <2> QED
    BY <1>1, <2>1, <2>2, ReadFollows, ResetFollows, EnableFollows, MainFollows, WorkerFollows
    DEF Next
<1>2. FollowInv => AggregatorFollows
  BY DEF FollowInv, AggregatorFollows, Settled, Reverting, Constructing, Announcing, InAccess
<1> QED
  BY InitTyped, StepTyped, InitCache, InitShaped, StepShaped, InitFollows, CacheStep,
     <1>1, <1>2, PTL DEF Spec

-----------------------------------------------------------------------------
(* The subscriber *)

Above == \E l \in {"high_security", "environment"} : layers[l][Limit] # Absent
Excused == Reverting \/ dropped \/ Above

HasLimit(t) == \/ pc[t] \in {"yielding", "comparing"}
               \/ pc[t] = "storing" /\ access[t].after \in {"yielding", "comparing"}
Told == IF pc[Worker] = "assigning" /\ source[Worker][Limit] # Absent
        THEN source[Worker][Limit] ELSE Effective(Limit)

\* Reads for a callback are of its key, and made for a source that has it.
Asked ==
  /\ \A t \in Threads : InAccess(t, {"yielding", "comparing"}) => access[t].key = Limit
  /\ pc[Worker] = "comparing" \/ InAccess(Worker, {"comparing"})
     => source[Worker][Limit] # Absent

\* The subscriber was told what is in effect, or what will be with the source
\* that is about to be assigned.
TellInv ==
  /\ Asked
  /\ ~Excused => /\ \A t \in Threads : HasLimit(t) => value[t] = Effective(Limit)
                 /\ told = Told \/ Early

LEMMA InitTells == Init => TellInv
<1> SUFFICES ASSUME Init PROVE TellInv
  OBVIOUS
<1>1. pc[Main] = "constructing" /\ \A t \in Threads : pc[t] \in {"constructing", "idle"}
  BY ThreadsAre DEF Init
<1> QED
  BY <1>1, ThreadsAre DEF TellInv, Asked, Early, HasLimit, InAccess

\* A step that neither tells anything nor changes the stack.
LEMMA TellElse ==
  ASSUME Typed, TellInv, layers' = layers, told' = told, dropped' = dropped,
         Reverting => Reverting', Early => Early', Asked',
         pc[Worker] # "assigning", pc'[Worker] = "assigning" => source'[Worker][Limit] = Absent,
         \A t \in Threads : HasLimit(t)' => \/ HasLimit(t) /\ value'[t] = value[t]
                                            \/ ~Excused' => value'[t] = Effective(Limit)
  PROVE  TellInv'
<1>1. Effective(Limit)' = Effective(Limit) /\ (Above <=> Above')
  BY DEF Effective, Above
<1>2. ~Excused' => ~Excused
  BY <1>1 DEF Excused
<1>3. Told' = Told
  BY <1>1 DEF Told
<1> QED
  BY <1>1, <1>2, <1>3 DEF TellInv

\* The same, by another thread than the worker, wherever that is.
LEMMA OtherElse ==
  ASSUME Typed, TellInv, NEW t \in Threads \ {Worker}, Alone(t),
         layers' = layers, told' = told, dropped' = dropped, source'[Worker] = source[Worker],
         \A u \in Threads \ {t} : value'[u] = value[u],
         Reverting => Reverting', Early => Early',
         InAccess(t, {"yielding", "comparing"})' => access'[t].key = Limit,
         HasLimit(t)' => \/ HasLimit(t) /\ value'[t] = value[t]
                         \/ ~Excused' => value'[t] = Effective(Limit)
  PROVE  TellInv'
<1>1. Effective(Limit)' = Effective(Limit) /\ (Above <=> Above')
  BY DEF Effective, Above
<1>2. ~Excused' => ~Excused
  BY <1>1 DEF Excused
<1>3. Told' = Told /\ Asked'
  BY <1>1, ThreadsAre DEF Told, TellInv, Asked, Alone, InAccess
<1>4. \A u \in Threads \ {t} : HasLimit(u)' <=> HasLimit(u)
  BY DEF HasLimit, Alone
<1> QED
  BY <1>1, <1>2, <1>3, <1>4 DEF TellInv

LEMMA ReadTells ==
  ASSUME Typed, Shaped, TellInv, NEW t \in Threads, ReadStep(t) PROVE TellInv'
<1>1. /\ layers' = layers /\ told' = told /\ dropped' = dropped /\ source' = source /\ Alone(t)
      /\ \A u \in Threads \ {t} : value'[u] = value[u]
      /\ pc[t] \in {"fetching", "storing"}
  BY WriteGoes DEF ReadStep, Fetch, Store, Goto, Alone, Typed, TypeOK, changeVars, history
<1>2. \/ pc'[t] = "storing" /\ access'[t] = access[t] /\ value'[t] = Effective(access[t].key)
      \/ /\ pc[t] = "storing" /\ pc'[t] = access[t].after
         /\ access[t].after # "idle" => value'[t] = value[t]
  <2>1. Store(t) /\ access[t].after # "idle" => t \notin Readers
    BY DEF Store, Shaped, InAccess
  <2> QED
    BY <2>1, WriteGoes DEF ReadStep, Fetch, Store, Goto, Typed, TypeOK
<1>3. access[t].after \in Afters
  BY DEF Typed
<1>4. (Reverting => Reverting') /\ (Early => Early')
  BY <1>1, <1>2, ThreadsAre DEF Reverting, Early, InAccess, Alone
<1>5. InAccess(t, {"yielding", "comparing"})' => InAccess(t, {"yielding", "comparing"}) /\ access'[t].key = Limit
  BY <1>1, <1>2, <1>3 DEF TellInv, Asked, InAccess, Afters
<1>6. HasLimit(t)' => \/ HasLimit(t) /\ value'[t] = value[t]
                      \/ value'[t] = Effective(Limit)
  BY <1>1, <1>2, <1>3 DEF HasLimit, TellInv, Asked, InAccess, Afters
<1>7. CASE t # Worker
  BY <1>1, <1>4, <1>5, <1>6, <1>7, OtherElse
<1>8. CASE t = Worker
  <2>1. Asked'
    BY <1>1, <1>2, <1>3, <1>5, <1>8 DEF TellInv, Asked, InAccess, Afters, Alone
  <2>2. pc[Worker] # "assigning" /\ pc'[Worker] # "assigning"
    BY <1>1, <1>2, <1>3, <1>8 DEF Afters
  <2>3. \A u \in Threads \ {t} : HasLimit(u)' => HasLimit(u) /\ value'[u] = value[u]
    BY <1>1 DEF HasLimit, Alone
  <2> QED
    BY <1>1, <1>4, <1>6, <2>1, <2>2, <2>3, TellElse
<1> QED
  BY <1>7, <1>8

LEMMA ResetTells ==
  ASSUME Typed, Shaped, TellInv, NEW t \in Threads, ResetStep(t) PROVE TellInv'
<1>1. /\ layers' = layers /\ told' = told /\ dropped' = dropped /\ source' = source
      /\ access' = access /\ value' = value
      /\ pc[t] \in {"resetting", "renewing", "restoring"}
      /\ pc'[t] \in {"renewing", "restoring", "notifying", "removed"} /\ Alone(t)
  BY DEF ResetStep, ResetCache, NewCache, Restore, Goto, Alone, Typed, TypeOK, changeVars, history
<1>2. Early => Early'
  BY <1>1, ThreadsAre DEF Early, InAccess, Alone
<1>3. Reverting => Reverting'
  <2>1. t = Main => pc'[t] # "notifying"
    BY ThreadsAssumption DEF ResetStep, ResetCache, NewCache, Restore, Goto, Typed, TypeOK
  <2> QED
    BY <1>1, <2>1, ThreadsAre DEF Reverting, InAccess, Alone
<1>4. ~HasLimit(t)' /\ ~InAccess(t, {"yielding", "comparing"})' /\ ~InAccess(t, {"comparing"})'
  BY <1>1 DEF HasLimit, InAccess
<1>5. Asked'
  BY <1>1, <1>4, ThreadsAre DEF TellInv, Asked, InAccess, Alone
<1>6. \A u \in Threads \ {t} : HasLimit(u)' => HasLimit(u) /\ value'[u] = value[u]
  BY <1>1 DEF HasLimit, Alone
<1>7. \/ pc[Worker] # "assigning" /\ pc'[Worker] # "assigning"
      \/ t # Worker
  BY <1>1
<1>8. CASE t = Worker
  BY <1>1, <1>2, <1>3, <1>4, <1>5, <1>6, <1>7, <1>8, TellElse
<1>9. CASE t # Worker
  BY <1>1, <1>2, <1>3, <1>4, <1>9, OtherElse
<1> QED
  BY <1>8, <1>9

LEMMA EnableTells ==
  ASSUME Typed, Shaped, TellInv, NEW t \in Threads, Enable(t) PROVE TellInv'
<1>1. /\ layers' = layers /\ told' = told /\ dropped' = dropped /\ source' = source
      /\ access' = access /\ value' = value /\ pc[t] = "enabling"
      /\ pc'[t] = (IF t = Main THEN "registering" ELSE "idle") /\ Alone(t)
  BY GotoGoes DEF Enable, Alone, changeVars, history
<1>2. (Reverting => Reverting') /\ (Early => Early')
  BY <1>1, ThreadsAre DEF Reverting, Early, InAccess, Alone
<1>3. ~HasLimit(t)' /\ ~InAccess(t, {"yielding", "comparing"})' /\ ~InAccess(t, {"comparing"})'
  BY <1>1 DEF HasLimit, InAccess
<1>4. Asked'
  BY <1>1, <1>3, ThreadsAre DEF TellInv, Asked, InAccess, Alone
<1>5. \A u \in Threads \ {t} : HasLimit(u)' => HasLimit(u) /\ value'[u] = value[u]
  BY <1>1 DEF HasLimit, Alone
<1>6. CASE t = Worker
  BY <1>1, <1>2, <1>3, <1>4, <1>5, <1>6, ThreadsAssumption, TellElse
<1>7. CASE t # Worker
  BY <1>1, <1>2, <1>3, <1>7, OtherElse
<1> QED
  BY <1>6, <1>7

LEMMA MainTells ==
  ASSUME Typed, CacheInv, Shaped, TellInv, MainStep PROVE TellInv'
<1>0. /\ Main \in Threads \ {Worker} /\ Enabled \in Keys /\ Method \in Keys
      /\ Limit \in Keys \ {Method}
      /\ {"enabling", "yielding", "detecting", "comparing"} \subseteq Afters
  BY ThreadsAre, ThreadsAssumption, KeysAreDifferent DEF Afters
<1>1. CASE Construct
  <2>1. /\ layers' = layers /\ told' = told /\ dropped' = dropped /\ source' = source /\ Alone(Main)
        /\ \A u \in Threads \ {Main} : value'[u] = value[u]
        /\ pc[Main] = "constructing"
        /\ \/ pc'[Main] = "enabling"
           \/ pc'[Main] = "fetching" /\ access'[Main].after = "enabling"
    BY <1>0, <1>1, LookupGoes DEF Construct, Alone, changeVars, history
  <2> QED
    BY <1>0, <2>1, OtherElse DEF Reverting, Early, InAccess, HasLimit
<1>2. CASE RegisterCallback
  <2>1. /\ layers' = layers /\ told' = told /\ dropped' = dropped /\ source' = source /\ Alone(Main)
        /\ \A u \in Threads \ {Main} : value'[u] = value[u]
        /\ pc[Main] = "registering"
        /\ \/ pc'[Main] = "yielding" /\ value'[Main] = cache[Limit] /\ cache[Limit] # Absent
           \/ pc'[Main] = "fetching" /\ access'[Main].after = "yielding" /\ access'[Main].key = Limit
    BY <1>0, <1>2, LookupGoes DEF RegisterCallback, Alone, changeVars, history
  <2>2. ~Reverting /\ pc[Worker] = "idle"
    BY <2>1 DEF Shaped, Early, Reverting, InAccess
  <2>3. pc'[Main] = "yielding" => value'[Main] = Effective(Limit)
    BY <1>0, <2>1, <2>2, HitIsCurrent
  <2> QED
    BY <1>0, <2>1, <2>2, <2>3, OtherElse DEF Early, InAccess, HasLimit
<1>3. CASE YieldAndStart
  <2>1. /\ layers' = layers /\ told' = value[Main] /\ dropped' = dropped /\ source' = source
        /\ Alone(Main) /\ value' = value /\ pc[Main] = "yielding" /\ pc'[Main] = "starting"
    BY <1>0, <1>3, GotoGoes DEF YieldAndStart, Alone, changeVars, history
  <2>2. pc[Worker] = "idle"
    BY <2>1 DEF Shaped, Early
  <2>3. Effective(Limit)' = Effective(Limit) /\ (Above <=> Above')
    BY <2>1 DEF Effective, Above
  <2>4. ~Reverting
    BY <2>1 DEF Reverting, InAccess
  <2>5. Told' = Effective(Limit) /\ Asked'
    BY <1>0, <2>1, <2>2, <2>3, ThreadsAre DEF Told, TellInv, Asked, Alone, InAccess
  <2> QED
    BY <1>0, <2>1, <2>3, <2>4, <2>5 DEF TellInv, HasLimit, Alone, Excused
<1>4. CASE Detect
  <2>1. /\ layers' = layers /\ told' = told /\ dropped' = dropped /\ source' = source /\ Alone(Main)
        /\ \A u \in Threads \ {Main} : value'[u] = value[u]
        /\ pc[Main] = "starting"
        /\ \/ pc'[Main] = "detecting"
           \/ pc'[Main] = "fetching" /\ access'[Main].after = "detecting"
    BY <1>0, <1>4, LookupGoes DEF Detect, Alone, changeVars, history
  <2> QED
    BY <1>0, <2>1, OtherElse DEF Reverting, Early, InAccess, HasLimit
<1>5. CASE UsePrepend
  <2>1. /\ layers' = layers /\ told' = told /\ dropped' = dropped /\ source' = source /\ Alone(Main)
        /\ value' = value /\ pc[Main] = "detecting" /\ pc'[Main] \in {"running", "recording"}
    BY <1>0, <1>5 DEF UsePrepend, Goto, Alone, Typed, TypeOK, changeVars, history
  <2> QED
    BY <1>0, <2>1, OtherElse DEF Reverting, Early, InAccess, HasLimit
<1>6. CASE UpdateConfigValue
  <2>1. /\ layers' = layers /\ told' = told /\ dropped' = dropped /\ source' = source /\ Alone(Main)
        /\ value' = value /\ pc[Main] = "recording" /\ pc'[Main] = access[Main].after
    BY <1>0, <1>6, WriteGoes DEF UpdateConfigValue, Alone, changeVars
  <2>2. pc'[Main] = "running"
    BY <2>1 DEF Shaped, Early, Running, Reverting, InAccess
  <2> QED
    BY <1>0, <2>1, <2>2, OtherElse DEF Reverting, Early, InAccess, HasLimit
<1>7. CASE Shutdown \/ RemoveConfigType
  <2>1. Alone(Main) /\ pc'[Main] \in {"reverting", "resetting"} /\ source'[Worker] = source[Worker]
    BY <1>0, <1>7, GotoGoes, ThreadsAre DEF Shutdown, RemoveConfigType, Alone, changeVars, Typed, TypeOK
  <2>2. Asked'
    BY <1>0, <2>1, ThreadsAre DEF TellInv, Asked, Alone, InAccess
  <2> QED
    BY <2>1, <2>2 DEF TellInv, Excused, Reverting
<1>8. CASE InvokeRemoveCallbacks \/ CallBackRemoved
  <2>1. /\ Alone(Main) /\ source' = source
        /\ \/ pc'[Main] \in {"reverting", "ended", "comparing"}
           \/ pc'[Main] = "fetching" /\ access'[Main].after = "comparing" /\ access'[Main].key = Limit
    BY <1>0, <1>8, LookupGoes, GotoGoes
    DEF InvokeRemoveCallbacks, CallBackRemoved, NextRemoval, Alone
  <2>2. Asked'
    BY <1>0, <2>1, ThreadsAre DEF TellInv, Asked, Alone, InAccess
  <2> QED
    BY <2>1, <2>2 DEF TellInv, Excused, Reverting, InAccess
<1> QED
  BY <1>1, <1>2, <1>3, <1>4, <1>5, <1>6, <1>7, <1>8 DEF MainStep

\* Nothing above the server source has the setting: the new one's counts, or
\* that of before if neither the new one nor the old one has it.
LEMMA AssignTells == ASSUME Typed, Shaped, TellInv, Assign PROVE TellInv'
<1>1. /\ pc[Worker] = "assigning" /\ pc'[Worker] = "resetting" /\ Alone(Worker)
      /\ told' = told /\ value' = value /\ source' = source
      /\ layers' = [layers EXCEPT !["server"] = source[Worker]]
      /\ dropped' = (dropped \/ (layers["server"][Limit] # Absent /\ source[Worker][Limit] = Absent))
  BY GotoGoes, ThreadsAre DEF Assign, Alone
<1>2. started /\ ~Early
  BY <1>1 DEF Shaped
<1>3. (Reverting <=> Reverting') /\ ~Early'
  BY <1>1, <1>2, ThreadsAre, ThreadsAssumption DEF Reverting, Early, InAccess, Alone
<1>4. /\ \A l \in Layers \ {"server"} : layers'[l] = layers[l]
      /\ layers'["server"] = source[Worker]
  BY <1>1, LayersAre DEF Typed, TypeOK
<1>5. Above <=> Above'
  BY <1>4, LayersAre DEF Above
<1>6. Asked'
  BY <1>1, ThreadsAre DEF TellInv, Asked, InAccess, Alone
<1>7. ~Reverting => \A t \in Threads : ~HasLimit(t)'
  BY <1>1, <1>2, WhoMoves DEF HasLimit, Shaped, Early, Running, Reverting, InAccess, Alone
<1>8. ASSUME ~Excused' PROVE told' = Effective(Limit)'
  <2>1. ~Excused /\ told = Told /\ ~dropped'
    BY <1>1, <1>2, <1>3, <1>5, <1>8 DEF Excused, TellInv
  <2>2. CASE source[Worker][Limit] # Absent
    <3>1. \A j \in DOMAIN Stack : j < 3 => layers'[Stack[j]][Limit] = Absent
      BY <1>5, <2>1, LayersAre DEF Excused, Above
    <3>2. layers'[Stack[3]][Limit] # Absent /\ 3 \in DOMAIN Stack
      BY <1>4, <2>2, LayersAre
    <3>3. Resolve(layers', Limit) = layers'[Stack[3]][Limit]
      BY <3>1, <3>2, ResolveFirst
    <3> QED
      BY <1>1, <1>4, <2>1, <2>2, <3>3, LayersAre DEF Told, Effective
  <2>3. CASE source[Worker][Limit] = Absent
    <3>1. layers["server"][Limit] = Absent
      BY <1>1, <2>1, <2>3
    <3>2. \A l \in Layers : layers[l][Limit] = layers'[l][Limit]
      BY <1>4, <2>3, <3>1
    <3>3. layers["default"][Limit] # Absent
      BY KeysAreDifferent DEF Typed
    <3>4. Resolve(layers, Limit) = Resolve(layers', Limit)
      BY <3>2, <3>3, ResolveSame
    <3> QED
      BY <1>1, <2>1, <2>3, <3>4 DEF Told, Effective
  <2> QED
    BY <2>2, <2>3
<1> QED
  BY <1>1, <1>3, <1>6, <1>7, <1>8 DEF TellInv, Told, Excused

LEMMA WorkerTells ==
  ASSUME Typed, CacheInv, Shaped, TellInv, WorkerStep PROVE TellInv'
<1>0. /\ Worker \in Threads /\ Enabled \in Keys /\ Limit \in Keys \ {Method}
      /\ {"gating", "comparing", "enabling"} \subseteq Afters
  BY ThreadsAre, KeysAreDifferent DEF Afters
<1>a. ASSUME Alone(Worker) PROVE (Reverting <=> Reverting') /\ (Early <=> Early')
  BY <1>a, ThreadsAre, ThreadsAssumption DEF Reverting, Early, InAccess, Alone
<1>b. ASSUME Alone(Worker), \A u \in Threads \ {Worker} : value'[u] = value[u]
      PROVE  \A u \in Threads \ {Worker} : HasLimit(u)' => HasLimit(u) /\ value'[u] = value[u]
  BY <1>b DEF HasLimit, Alone
<1>1. ASSUME NEW rep \in Replies, Connect(rep) PROVE TellInv'
  <2>1. /\ layers' = layers /\ told' = told /\ dropped' = dropped /\ source' = source
        /\ Alone(Worker) /\ pc[Worker] = "idle"
        /\ \A u \in Threads \ {Worker} : value'[u] = value[u]
        /\ \/ pc'[Worker] = "gating"
           \/ pc'[Worker] = "fetching" /\ access'[Worker].after = "gating"
    BY <1>0, <1>1, LookupGoes, GotoGoes DEF Connect, Alone, changeVars, history
  <2>2. Asked' /\ ~HasLimit(Worker)'
    BY <2>1 DEF TellInv, Asked, InAccess, Alone, HasLimit
  <2> QED
    BY <1>a, <1>b, <2>1, <2>2, TellElse
<1>2. CASE ApplyFeatureGates
  <2>1. /\ layers' = layers /\ told' = told /\ dropped' = dropped
        /\ Alone(Worker) /\ pc[Worker] = "gating" /\ pc'[Worker] = "announcing" /\ value' = value
    BY <1>0, <1>2, GotoGoes DEF ApplyFeatureGates, Alone, history
  <2>2. Asked' /\ ~HasLimit(Worker)'
    BY <2>1 DEF TellInv, Asked, InAccess, Alone, HasLimit
  <2> QED
    BY <1>a, <1>b, <2>1, <2>2, TellElse
<1>3. CASE InvokeCallbacks
  <2>1. /\ layers' = layers /\ told' = told /\ dropped' = dropped /\ source' = source
        /\ pc[Worker] = "announcing"
    BY <1>3 DEF InvokeCallbacks, changeVars, history
  <2>2. CASE source[Worker][Limit] = Absent
    <3>1. Alone(Worker) /\ pc'[Worker] = "assigning" /\ value' = value
      BY <1>0, <1>3, <2>2, GotoGoes DEF InvokeCallbacks, Alone
    <3>2. Asked' /\ ~HasLimit(Worker)'
      BY <2>1, <3>1 DEF TellInv, Asked, InAccess, Alone, HasLimit
    <3> QED
      BY <1>a, <1>b, <2>1, <2>2, <3>1, <3>2, TellElse
  <2>3. CASE source[Worker][Limit] # Absent
    <3>1. /\ Alone(Worker)
          /\ \A u \in Threads \ {Worker} : value'[u] = value[u]
          /\ \/ pc'[Worker] = "comparing" /\ value'[Worker] = cache[Limit] /\ cache[Limit] # Absent
             \/ /\ pc'[Worker] = "fetching" /\ access'[Worker].after = "comparing"
                /\ access'[Worker].key = Limit
      BY <1>0, <1>3, <2>3, LookupGoes DEF InvokeCallbacks, Alone
    <3>2. Asked'
      BY <2>1, <2>3, <3>1 DEF TellInv, Asked, InAccess, Alone
    <3>3. HasLimit(Worker)' /\ ~Excused' => value'[Worker] = Effective(Limit)
      BY <1>0, <1>a, <2>1, <3>1, HitIsCurrent DEF HasLimit, Excused
    <3> QED
      BY <1>a, <1>b, <2>1, <3>1, <3>2, <3>3, TellElse
  <2> QED
    BY <2>2, <2>3
<1>4. CASE CallBack
  <2>1. /\ layers' = layers /\ dropped' = dropped /\ source' = source /\ value' = value
        /\ told' = (IF value[Worker] # source[Worker][Limit] THEN source[Worker][Limit] ELSE told)
        /\ Alone(Worker) /\ pc[Worker] = "comparing" /\ pc'[Worker] = "assigning"
    BY <1>0, <1>4, GotoGoes DEF CallBack, Alone, changeVars, history
  <2>2. Effective(Limit)' = Effective(Limit) /\ (Above <=> Above')
    BY <2>1 DEF Effective, Above
  <2>3. (~Excused' => ~Excused) /\ ~Early
    BY <1>a, <2>1, <2>2 DEF Excused, Shaped
  <2>4. source[Worker][Limit] # Absent
    BY <2>1 DEF TellInv, Asked
  <2>5. ~Excused => value[Worker] = Effective(Limit) /\ told = Effective(Limit)
    BY <1>0, <2>1, <2>3 DEF TellInv, HasLimit, Told
  <2>6. ~Excused => told' = Told'
    BY <2>1, <2>4, <2>5 DEF Told
  <2>7. Asked' /\ ~HasLimit(Worker)'
    BY <2>1 DEF TellInv, Asked, InAccess, Alone, HasLimit
  <2> QED
    BY <1>b, <2>1, <2>2, <2>3, <2>6, <2>7 DEF TellInv
<1>5. CASE Assign
  BY <1>5, AssignTells
<1>6. CASE NotifyServerSourceAdded
  <2>1. /\ layers' = layers /\ told' = told /\ dropped' = dropped /\ source' = source
        /\ Alone(Worker) /\ pc[Worker] = "notifying"
        /\ \A u \in Threads \ {Worker} : value'[u] = value[u]
        /\ \/ pc'[Worker] = "enabling"
           \/ pc'[Worker] = "fetching" /\ access'[Worker].after = "enabling"
    BY <1>0, <1>6, LookupGoes DEF NotifyServerSourceAdded, Alone, changeVars, history
  <2>2. Asked' /\ ~HasLimit(Worker)'
    BY <2>1 DEF TellInv, Asked, InAccess, Alone, HasLimit
  <2> QED
    BY <1>a, <1>b, <2>1, <2>2, TellElse
<1> QED
  BY <1>1, <1>2, <1>3, <1>4, <1>5, <1>6 DEF WorkerStep

\* The aggregator was told the capacity that is in effect, for any readers,
\* sources and answers: what it is told before the source counts is what then
\* counts, but for the exceptions the property names.
THEOREM SubscriberFollowsHolds == Spec => []SubscriberFollows
<1>1. ASSUME Typed, CacheInv, Shaped, TellInv, [Next]_vars PROVE TellInv'
  <2>1. ASSUME NEW r \in Readers, NEW k \in Keys, Read(r, k) PROVE TellInv'
    <3>1. /\ layers' = layers /\ told' = told /\ dropped' = dropped /\ source' = source /\ Alone(r)
          /\ \A u \in Threads \ {r} : value'[u] = value[u]
          /\ pc'[r] = "idle" \/ (pc'[r] = "fetching" /\ access'[r].after = "idle")
      BY <1>1, <2>1, LookupGoes, ThreadsAre DEF Read, Alone, Afters, changeVars, history
    <3>2. r \in Threads \ {Worker} /\ r # Main
      BY ThreadsAre, ThreadsAssumption
    <3>3. (Reverting <=> Reverting') /\ (Early <=> Early')
      BY <3>1, <3>2, ThreadsAre DEF Reverting, Early, InAccess, Alone
    <3> QED
      BY <1>1, <3>1, <3>2, <3>3, OtherElse DEF HasLimit, InAccess
  <2>2. CASE UNCHANGED vars
    BY <1>1, <2>2 DEF vars, readVars, cacheVars, changeVars, history, TellInv, Asked, Told,
                      HasLimit, Excused, Above, Effective, Reverting, Early, InAccess
  <2> QED
    BY <1>1, <2>1, <2>2, ReadTells, ResetTells, EnableTells, MainTells, WorkerTells DEF Next
<1>2. TellInv => SubscriberFollows
  BY DEF TellInv, SubscriberFollows, Settled, Told, Excused, Above, Reverting, Early, InAccess
<1> QED
  BY InitTyped, StepTyped, InitCache, CacheStep, InitShaped, StepShaped, InitTells, <1>1, <1>2,
     PTL DEF Spec
=============================================================================
