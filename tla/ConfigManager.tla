---------------------------- MODULE ConfigManager ----------------------------
(***************************************************************************)
(* The agent's configuration (configuration/manager.rb): a stack of        *)
(* sources, a cache that is filled by reads and renewed by every change of *)
(* the stack, and those who follow a setting.  The main thread builds an   *)
(* aggregator, has the instrumentation detected, which writes what it      *)
(* chose into the cache, and reverts the configuration at the shutdown;    *)
(* the worker adds what the collector sends at each connect; any thread    *)
(* reads.  The local sources are in place when this begins.                *)
(***************************************************************************)
EXTENDS Integers, Sequences

CONSTANTS
  Main, Worker, Readers,  \* the threads
  Limits,                 \* the values of the setting Limit
  Configurations,         \* what the local sources may say
  Replies,                \* what the collector may say at a connect
  MaxConnects             \* bound: connects

Threads == {Main, Worker} \cup Readers

\* A setting the collector gates, one with a callback, and one whose value
\* "auto" the dependency detection replaces by what it chose.
Enabled == "enabled"
Limit == "limit"
Method == "method"
Keys == {Enabled, Limit, Method}

Absent == "absent"        \* the source, or the cache, lacks the key
Found == "prepend"        \* a dependency detection value
Values == Limits \cup {"on", "off", "auto"}
Sources == [Keys -> Values \cup {Absent}]
None == [k \in Keys |-> Absent]

\* config_stack: a source hides those behind it.
Stack == <<"high_security", "environment", "server", "manual", "yaml", "default">>
Layers == {Stack[i] : i \in DOMAIN Stack}

ASSUME ThreadsAssumption == Main # Worker /\ Main \notin Readers /\ Worker \notin Readers
ASSUME LimitsAssumption == Limits \cap {"on", "off", "auto", Found, Absent} = {}
ASSUME ConfigurationsAssumption ==
  \A local \in Configurations :
    /\ local \in [Layers -> Sources]
    /\ local["server"] = None
    /\ \A k \in Keys : local["default"][k] # Absent
ASSUME RepliesAssumption ==
  Replies \subseteq [gate : {"on", "off", Absent}, enabled : {"on", "off", Absent},
                     limit : Limits \cup {Absent}]
ASSUME BoundAssumption == MaxConnects \in Nat

VARIABLES
  layers,           \* the sources by layer
  cache,            \* the contents of @cache
  generation,       \* which hash @cache is: they are numbered
  pc,               \* where a thread is
  access,           \* an access to a hash under way: its key and where it goes on
  value,            \* what a thread's last read gave
  source,           \* the source a thread adds or removed
  target,           \* the layer revert_to_default_configuration is at
  preserved,        \* what a thread in reset_cache keeps
  reply, connects,  \* the answer to the last connect; connects so far
  started,          \* start_agent was called
  told, applied,    \* the aggregator's capacity and @enabled
  detected, overtaken, dropped   \* history

readVars == <<pc, access, value>>
cacheVars == <<cache, generation>>
changeVars == <<layers, source, target, preserved>>
agentVars == <<reply, connects, started>>
history == <<detected, overtaken, dropped>>
vars == <<readVars, cacheVars, changeVars, agentVars, told, applied, history>>

NoAccess == [hash |-> 0, key |-> Enabled, after |-> "idle"]

Init ==
  /\ layers \in Configurations
  /\ cache = None /\ generation = 0
  /\ pc = [t \in Threads |-> IF t = Main THEN "constructing" ELSE "idle"]
  /\ access = [t \in Threads |-> NoAccess] /\ value = [t \in Threads |-> Absent]
  /\ source = [t \in Threads |-> None] /\ target = "manual"
  /\ preserved = [t \in Threads |-> {}]
  /\ reply = [gate |-> Absent, enabled |-> Absent, limit |-> Absent]
  /\ connects = 0 /\ started = FALSE
  /\ told = Absent /\ applied = Absent
  /\ detected = FALSE /\ overtaken = FALSE /\ dropped = FALSE

-----------------------------------------------------------------------------
(* Reads *)

Goto(t, p) == pc' = [pc EXCEPT ![t] = p]

\* fetch: the first source of the stack that has the key.
Resolve(stack, k) ==
  LET Has(i) == stack[Stack[i]][k] # Absent
      first == CHOOSE i \in DOMAIN Stack : Has(i) /\ \A j \in DOMAIN Stack : Has(j) => i <= j
  IN  stack[Stack[first]][k]

Effective(k) == Resolve(layers, k)

\* [] by thread t, which goes on at p: a miss calls the hash's default proc.
Lookup(t, k, p) ==
  \/ /\ cache[k] # Absent
     /\ value' = [value EXCEPT ![t] = cache[k]]
     /\ Goto(t, p)
     /\ UNCHANGED access
  \/ /\ cache[k] = Absent
     /\ access' = [access EXCEPT ![t] = [hash |-> generation, key |-> k, after |-> p]]
     /\ Goto(t, "fetching")
     /\ UNCHANGED value

Fetch(t) ==
  /\ pc[t] = "fetching"
  /\ value' = [value EXCEPT ![t] = Effective(access[t].key)]
  /\ Goto(t, "storing")
  /\ UNCHANGED <<access, cacheVars, changeVars, agentVars, told, applied, history>>

\* A default proc that asks for @cache again.
WriteCurrent(t, v) ==
  /\ cache' = [cache EXCEPT ![access[t].key] = v]
  /\ access' = [access EXCEPT ![t] = NoAccess]
  /\ Goto(t, access[t].after)

\* What an access writes goes into the hash it found, whichever @cache is now.
Write(t, v) ==
  /\ cache' = IF access[t].hash = generation
              THEN [cache EXCEPT ![access[t].key] = v] ELSE cache
  /\ access' = [access EXCEPT ![t] = NoAccess]
  /\ Goto(t, access[t].after)

\* The default proc stores what it fetched; a mere reader is done with it.
Store(t) ==
  /\ pc[t] = "storing"
  /\ Write(t, value[t])
  /\ value' = IF t \in Readers THEN [value EXCEPT ![t] = Absent] ELSE value
  /\ overtaken' = (overtaken \/ (cache[Method] = Found /\ cache'[Method] # Found))
  /\ UNCHANGED <<generation, changeVars, agentVars, told, applied, detected, dropped>>

\* A read that hits changes nothing.
Read(r, k) ==
  /\ pc[r] = "idle" /\ cache[k] = Absent
  /\ Lookup(r, k, "idle")
  /\ UNCHANGED <<cacheVars, changeVars, agentVars, told, applied, history>>

-----------------------------------------------------------------------------
(* The aggregator *)

Construct ==
  /\ pc[Main] = "constructing"
  /\ Lookup(Main, Enabled, "enabling")
  /\ UNCHANGED <<cacheVars, changeVars, agentVars, told, applied, history>>

\* enabled_fn, in initialize and in the handler of the server source's event.
Enable(t) ==
  /\ pc[t] = "enabling"
  /\ applied' = value[t]
  /\ Goto(t, IF t = Main THEN "registering" ELSE "idle")
  /\ UNCHANGED <<access, value, cacheVars, changeVars, agentVars, told, history>>

RegisterCallback ==
  /\ pc[Main] = "registering"
  /\ Lookup(Main, Limit, "yielding")
  /\ UNCHANGED <<cacheVars, changeVars, agentVars, told, applied, history>>

\* The callback gets the value there is; then start_agent spawns the worker.
YieldAndStart ==
  /\ pc[Main] = "yielding"
  /\ told' = value[Main]
  /\ started' = TRUE
  /\ Goto(Main, "starting")
  /\ UNCHANGED <<access, value, cacheVars, changeVars, reply, connects, applied, history>>

-----------------------------------------------------------------------------
(* Dependency detection *)

Detect ==
  /\ pc[Main] = "starting"
  /\ Lookup(Main, Method, "detecting")
  /\ UNCHANGED <<cacheVars, changeVars, agentVars, told, applied, history>>

\* auto_configured?, and @cache is taken from the manager.
UsePrepend ==
  /\ pc[Main] = "detecting"
  /\ IF value[Main] = "auto"
     THEN /\ access' = [access EXCEPT ![Main] =
                         [hash |-> generation, key |-> Method, after |-> "running"]]
          /\ Goto(Main, "recording")
     ELSE Goto(Main, "running") /\ UNCHANGED access
  /\ UNCHANGED <<value, cacheVars, changeVars, agentVars, told, applied, history>>

Holding(t) == pc[t] \in {"renewing", "restoring"}

\* The lock is not taken.
UpdateConfigValue ==
  /\ pc[Main] = "recording"
  /\ Write(Main, Found)
  /\ detected' = TRUE
  /\ overtaken' = (access[Main].hash # generation \/ \E t \in Threads : pc[t] = "renewing")
  /\ UNCHANGED <<value, generation, changeVars, agentVars, told, applied, dropped>>

-----------------------------------------------------------------------------
(* reset_cache *)

\* reset_cache without its lock.
ResetUnlocked(t) ==
  /\ pc[t] = "resetting"
  /\ preserved' = [preserved EXCEPT ![t] = {k \in Keys : cache[k] = Found}]
  /\ Goto(t, "renewing")
  /\ UNCHANGED <<access, value, cacheVars, layers, source, target, agentVars,
                 told, applied, history>>

ResetCache(t) ==
  /\ pc[t] = "resetting"
  /\ \A u \in Threads : ~Holding(u)
  /\ preserved' = [preserved EXCEPT ![t] = {k \in Keys : cache[k] = Found}]
  /\ Goto(t, "renewing")
  /\ UNCHANGED <<access, value, cacheVars, layers, source, target, agentVars,
                 told, applied, history>>

NewCache(t) ==
  /\ pc[t] = "renewing"
  /\ cache' = None
  /\ generation' = generation + 1
  /\ Goto(t, "restoring")
  /\ UNCHANGED <<access, value, changeVars, agentVars, told, applied, history>>

Restore(t) ==
  /\ pc[t] = "restoring"
  /\ cache' = [k \in Keys |-> IF k \in preserved[t] THEN Found ELSE cache[k]]
  /\ preserved' = [preserved EXCEPT ![t] = {}]
  /\ Goto(t, IF t = Worker THEN "notifying" ELSE "removed")
  /\ UNCHANGED <<access, value, generation, layers, source, target, agentVars,
                 told, applied, history>>

-----------------------------------------------------------------------------
(* The worker adds the server source *)

\* A gate without a value of its own asks for the one in effect.
Connect(rep) ==
  /\ pc[Worker] = "idle" /\ started /\ connects < MaxConnects
  /\ connects' = connects + 1
  /\ reply' = rep
  /\ IF rep.gate # Absent /\ rep.enabled = Absent
     THEN Lookup(Worker, Enabled, "gating")
     ELSE Goto(Worker, "gating") /\ UNCHANGED <<access, value>>
  /\ UNCHANGED <<cacheVars, changeVars, started, told, applied, history>>

\* ungated_value
Requested == IF reply.enabled # Absent THEN reply.enabled ELSE value[Worker]

ServerSource ==
  [None EXCEPT ![Limit] = reply.limit,
               ![Enabled] = IF reply.gate = Absent THEN reply.enabled
                            ELSE IF reply.gate = "on" THEN Requested ELSE "off"]

ApplyFeatureGates ==
  /\ pc[Worker] = "gating"
  /\ source' = [source EXCEPT ![Worker] = ServerSource]
  /\ Goto(Worker, "announcing")
  /\ UNCHANGED <<access, value, cacheVars, layers, target, preserved, agentVars,
                 told, applied, history>>

\* replace_or_add_config: the callbacks first ...
InvokeCallbacks ==
  /\ pc[Worker] = "announcing"
  /\ IF source[Worker][Limit] = Absent
     THEN Goto(Worker, "assigning") /\ UNCHANGED <<access, value>>
     ELSE Lookup(Worker, Limit, "comparing")
  /\ UNCHANGED <<cacheVars, changeVars, agentVars, told, applied, history>>

\* Callbacks that are told what the cache has.
CallBackCached ==
  /\ pc[Worker] = "comparing"
  /\ told' = value[Worker]
  /\ Goto(Worker, "assigning")
  /\ UNCHANGED <<access, value, cacheVars, changeVars, agentVars, applied, history>>

CallBack ==
  /\ pc[Worker] = "comparing"
  /\ told' = IF value[Worker] # source[Worker][Limit] THEN source[Worker][Limit] ELSE told
  /\ Goto(Worker, "assigning")
  /\ UNCHANGED <<access, value, cacheVars, changeVars, agentVars, applied, history>>

\* The source without a new cache.
AssignAndNotify ==
  /\ pc[Worker] = "assigning"
  /\ layers' = [layers EXCEPT !["server"] = source[Worker]]
  /\ dropped' = (dropped \/ (layers["server"][Limit] # Absent /\ source[Worker][Limit] = Absent))
  /\ Goto(Worker, "notifying")
  /\ UNCHANGED <<access, value, cacheVars, source, target, preserved, agentVars,
                 told, applied, detected, overtaken>>

\* ... then the source, the cache, and the event.
Assign ==
  /\ pc[Worker] = "assigning"
  /\ layers' = [layers EXCEPT !["server"] = source[Worker]]
  /\ dropped' = (dropped \/ (layers["server"][Limit] # Absent /\ source[Worker][Limit] = Absent))
  /\ Goto(Worker, "resetting")
  /\ UNCHANGED <<access, value, cacheVars, source, target, preserved, agentVars,
                 told, applied, detected, overtaken>>

NotifyServerSourceAdded ==
  /\ pc[Worker] = "notifying"
  /\ Lookup(Worker, Enabled, "enabling")
  /\ UNCHANGED <<cacheVars, changeVars, agentVars, told, applied, history>>

-----------------------------------------------------------------------------
(* revert_to_default_configuration *)

Shutdown ==
  /\ pc[Main] = "running"
  /\ Goto(Main, "reverting")
  /\ UNCHANGED <<access, value, cacheVars, changeVars, agentVars, told, applied, history>>

RemoveConfigType ==
  /\ pc[Main] = "reverting"
  /\ source' = [source EXCEPT ![Main] = layers[target]]
  /\ layers' = [layers EXCEPT ![target] = None]
  /\ Goto(Main, "resetting")
  /\ UNCHANGED <<access, value, cacheVars, target, preserved, agentVars,
                 told, applied, history>>

NextRemoval ==
  /\ target' = "server"
  /\ Goto(Main, IF target = "manual" THEN "reverting" ELSE "ended")

InvokeRemoveCallbacks ==
  /\ pc[Main] = "removed"
  /\ IF source[Main][Limit] = Absent
     THEN NextRemoval /\ UNCHANGED <<access, value>>
     ELSE Lookup(Main, Limit, "comparing") /\ UNCHANGED target
  /\ UNCHANGED <<cacheVars, layers, source, preserved, agentVars, told, applied, history>>

CallBackRemoved ==
  /\ pc[Main] = "comparing"
  /\ told' = IF value[Main] # source[Main][Limit] THEN value[Main] ELSE told
  /\ NextRemoval
  /\ UNCHANGED <<access, value, cacheVars, layers, source, preserved, agentVars,
                 applied, history>>

-----------------------------------------------------------------------------

ReadStep(t) == Fetch(t) \/ Store(t)
ResetStep(t) == ResetCache(t) \/ NewCache(t) \/ Restore(t)
MainStep ==
  \/ Construct \/ RegisterCallback \/ YieldAndStart
  \/ Detect \/ UsePrepend \/ UpdateConfigValue
  \/ Shutdown \/ RemoveConfigType \/ InvokeRemoveCallbacks \/ CallBackRemoved
WorkerStep ==
  \/ \E rep \in Replies : Connect(rep)
  \/ ApplyFeatureGates \/ InvokeCallbacks \/ CallBack \/ Assign \/ NotifyServerSourceAdded

Next ==
  \/ \E t \in Threads : ReadStep(t) \/ ResetStep(t) \/ Enable(t)
  \/ \E r \in Readers, k \in Keys : Read(r, k)
  \/ MainStep \/ WorkerStep

Spec == Init /\ [][Next]_vars

-----------------------------------------------------------------------------
(* Properties *)

PCs == {"idle", "fetching", "storing", "constructing", "enabling", "registering", "yielding",
        "starting", "detecting", "recording", "running", "resetting", "renewing", "restoring",
        "gating", "announcing", "comparing", "assigning", "notifying", "reverting", "removed",
        "ended"}

\* The variables have their types.
TypeOK ==
  /\ layers \in [Layers -> Sources] /\ cache \in [Keys -> Values \cup {Absent, Found}] /\ generation \in Nat
  /\ pc \in [Threads -> PCs]
  /\ access \in [Threads -> [hash : Nat, key : Keys, after : PCs]]
  /\ value \in [Threads -> Values \cup {Absent, Found}]
  /\ source \in [Threads -> Sources] /\ target \in {"manual", "server"}
  /\ preserved \in [Threads -> SUBSET Keys]
  /\ reply \in [gate : {"on", "off", Absent}, enabled : {"on", "off", Absent},
                 limit : Limits \cup {Absent}]
  /\ connects \in 0..MaxConnects /\ started \in BOOLEAN
  /\ told \in Values \cup {Absent, Found} /\ applied \in Values \cup {Absent, Found}
  /\ detected \in BOOLEAN /\ overtaken \in BOOLEAN /\ dropped \in BOOLEAN

\* A source was put into or taken out of the stack, and the cache is still the
\* one of before.
Stale == \E t \in Threads : pc[t] \in {"resetting", "renewing"}

\* What is cached is what the stack says, or what was detected, but for the
\* moment between a change of the stack and the new cache that follows it: the
\* answer of a read that was overtaken by the change is never cached.
CacheIsCurrent ==
  \A k \in Keys :
    \/ cache[k] \in {Absent, Effective(k)}
    \/ k = Method /\ cache[k] = Found
    \/ Stale

\* A detected value outlasts every change of the stack, however the resets of
\* two threads interleave, unless it was written in the middle of one, or a
\* read of the same key that had missed answers after it ("do not replace
\* previously auto determined dependency detection values").
DetectionKept ==
  detected /\ ~overtaken =>
    \/ cache[Method] = Found
    \/ \E t \in Threads : pc[t] = "restoring" /\ Method \in preserved[t]

\* Nobody is changing the stack, and the agent is not shutting down.
Settled == /\ pc[Worker] = "idle"
           /\ pc[Main] \in {"starting", "detecting", "recording", "running"}

\* The aggregator has the capacity that is in effect after every connect,
\* although it is told before the source counts, unless a source above the
\* server's has the setting, or a server source that had it was replaced by one
\* that has not.
SubscriberFollows ==
  /\ Settled /\ ~dropped
  /\ \A l \in {"high_security", "environment"} : layers[l][Limit] = Absent
  => told = Effective(Limit)

\* Once the handlers of a connect's event have run, the aggregator is enabled
\* exactly when the configuration says so: none of them reads the old cache.
AggregatorFollows == Settled => applied = Effective(Enabled)
=============================================================================
